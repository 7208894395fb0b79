---------------------------- MODULE ValueProofs ----------------------------
(***************************************************************************)
(* Proofs about the value of a transfer, for any dust, assets, policies    *)
(* and coins: what a sum over a transaction's coins is, and that nobody    *)
(* signs a graph that costs more, or delivers less, than it agreed to.     *)
(***************************************************************************)
EXTENDS ValueFlow, SequenceTheorems, FiniteSetTheorems, WellFoundedInduction, TLAPS

(* Sums over sequences. *)

\* The partial sums of a sequence.
PartialSums(s, f) ==
    f = [n \in 0 .. Len(s) |-> IF n = 0 THEN 0 ELSE f[n - 1] + s[n]]

\* A set of natural numbers that is not empty has a least one.
LEMMA LeastNumber ==
    ASSUME NEW T \in SUBSET Nat, T # {} PROVE \E x \in T : \A y \in T : x <= y
<1> DEFINE R == {ss \in Nat \X Nat : ss[1] < ss[2]}
<1>1. \E x \in T : \A y \in T : <<y, x>> \notin R
  <2>1. IsWellFoundedOn(R, Nat)
    BY NatLessThanWellFounded DEF OpToRel
  <2> HIDE DEF R
  <2>. QED  BY <2>1, WFMin
<1>2. \A x, y \in Nat : y < x => <<y, x>> \in R
  OBVIOUS
<1>3. PICK x \in T : \A y \in T : <<y, x>> \notin R
  BY <1>1
<1>4. \A y \in T : ~(y < x)
  BY <1>2, <1>3
<1>. QED  BY <1>4, <1>3

\* Every sequence of integers has partial sums, and they are integers.
LEMMA PartialSumsExist ==
    ASSUME NEW s \in Seq(Int)
    PROVE  \E f : PartialSums(s, f)
<1> DEFINE Upto(n, g) == /\ g \in [0 .. n -> Int] /\ g[0] = 0
                         /\ \A k \in 1 .. n : g[k] = g[k - 1] + s[k]
           Failing == {n \in 0 .. Len(s) : \A g : ~Upto(n, g)}
<1> HIDE DEF Upto
<1>0. Len(s) \in Nat /\ \A k \in 1 .. Len(s) : s[k] \in Int
  OBVIOUS
<1>1. Failing = {}
  <2> SUFFICES ASSUME Failing # {} PROVE FALSE
    OBVIOUS
  <2>0. Failing \in SUBSET Nat /\ Failing # {}
    BY <1>0
  <2>1. PICK n \in Failing : \A m \in Failing : n <= m
    <3> HIDE DEF Failing
    <3>. QED  BY <2>0, LeastNumber
  <2>2. n # 0
    <3>1. Upto(0, [k \in 0 .. 0 |-> 0])
      BY DEF Upto
    <3>. QED  BY <3>1, <2>1
  <2>3. n - 1 \in 0 .. Len(s) /\ n \in 1 .. Len(s) /\ n - 1 \notin Failing
    BY <1>0, <2>1, <2>2
  <2>4. PICK g : Upto(n - 1, g)
    BY <2>3
  <2> DEFINE h == [k \in 0 .. n |-> IF k = n THEN g[n - 1] + s[n] ELSE g[k]]
  <2>5. Upto(n, h)
    <3>1. g \in [0 .. (n - 1) -> Int] /\ s[n] \in Int /\ g[n - 1] \in Int
      BY <1>0, <2>3, <2>4 DEF Upto
    <3>2. h \in [0 .. n -> Int]
      BY <3>1, <2>3
    <3>3. h[0] = 0
      BY <2>3, <2>4 DEF Upto
    <3>4. \A k \in 1 .. n : h[k] = h[k - 1] + s[k]
      BY <2>3, <2>4 DEF Upto
    <3>. QED  BY <3>2, <3>3, <3>4 DEF Upto
  <2>. QED  BY <2>5, <2>1
<1>2. PICK g : Upto(Len(s), g)
  BY <1>0, <1>1
<1>3. PartialSums(s, g)
  BY <1>0, <1>2 DEF PartialSums, Upto
<1>. QED  BY <1>3

\* What a sequence of partial sums is at each place.
LEMMA PartialSumsStep ==
    ASSUME NEW s \in Seq(Int), NEW f, PartialSums(s, f)
    PROVE  /\ DOMAIN f = 0 .. Len(s) /\ f[0] = 0
           /\ \A k \in 1 .. Len(s) : f[k] = f[k - 1] + s[k]
<1>1. ASSUME NEW g, f = [n \in 0 .. Len(s) |-> IF n = 0 THEN 0 ELSE g[n - 1] + s[n]]
      PROVE  /\ DOMAIN f = 0 .. Len(s) /\ f[0] = 0
             /\ \A k \in 1 .. Len(s) : f[k] = g[k - 1] + s[k]
  <2>1. Len(s) \in Nat
    OBVIOUS
  <2>. QED  BY <1>1, <2>1
<1>2. f = [n \in 0 .. Len(s) |-> IF n = 0 THEN 0 ELSE f[n - 1] + s[n]]
  BY DEF PartialSums
<1>. QED  BY <1>1, <1>2

\* The total of a sequence is its last partial sum.
LEMMA TotalIsLast ==
    ASSUME NEW s \in Seq(Int)
    PROVE  \E f \in [0 .. Len(s) -> Int] :
              /\ f[0] = 0 /\ Total(s) = f[Len(s)]
              /\ \A k \in 1 .. Len(s) : f[k] = f[k - 1] + s[k]
<1> DEFINE f == CHOOSE f : PartialSums(s, f)
<1>1. PartialSums(s, f)
  BY PartialSumsExist
<1>2. Total(s) = f[Len(s)]
  BY DEF Total, PartialSums
<1> HIDE DEF f
<1>3. Len(s) \in Nat /\ \A k \in 1 .. Len(s) : s[k] \in Int
  OBVIOUS
<1>4. /\ DOMAIN f = 0 .. Len(s) /\ f[0] = 0
      /\ \A k \in 1 .. Len(s) : f[k] = f[k - 1] + s[k]
  BY <1>1, PartialSumsStep
<1> DEFINE Bad == {n \in 0 .. Len(s) : f[n] \notin Int}
<1>5. Bad = {}
  <2> SUFFICES ASSUME Bad # {} PROVE FALSE
    OBVIOUS
  <2>0. Bad \in SUBSET Nat
    BY <1>3
  <2>1. PICK n \in Bad : \A m \in Bad : n <= m
    <3> HIDE DEF Bad
    <3>. QED  BY <2>0, LeastNumber
  <2>2. n # 0 /\ n - 1 \in 0 .. Len(s) /\ n \in 1 .. Len(s) /\ n - 1 \notin Bad
    BY <1>3, <1>4, <2>1
  <2>3. f[n - 1] \in Int /\ s[n] \in Int /\ f[n] = f[n - 1] + s[n]
    BY <1>3, <1>4, <2>2
  <2>. QED  BY <2>1, <2>3
<1>6. \E g : f = [n \in 0 .. Len(s) |-> g[n]]
  <2> DEFINE g == [n \in 0 .. Len(s) |-> IF n = 0 THEN 0 ELSE f[n - 1] + s[n]]
  <2>1. f = [n \in 0 .. Len(s) |-> g[n]]
    BY <1>1 DEF PartialSums
  <2>. QED  BY <2>1
<1>7. f \in [0 .. Len(s) -> Int]
  BY <1>5, <1>6
<1>. QED  BY <1>2, <1>4, <1>7

\* The total is the last of whatever adds up the sequence place by place.
LEMMA TotalDetermined ==
    ASSUME NEW s \in Seq(Int), NEW g, g[0] = 0,
           \A k \in 1 .. Len(s) : g[k] = g[k - 1] + s[k]
    PROVE  Total(s) = g[Len(s)] /\ Total(s) \in Int
<1>1. PICK f \in [0 .. Len(s) -> Int] :
          /\ f[0] = 0 /\ Total(s) = f[Len(s)]
          /\ \A k \in 1 .. Len(s) : f[k] = f[k - 1] + s[k]
  BY TotalIsLast
<1>2. Len(s) \in Nat
  OBVIOUS
<1> DEFINE Off == {n \in 0 .. Len(s) : f[n] # g[n]}
<1>3. Off = {}
  <2> SUFFICES ASSUME Off # {} PROVE FALSE
    OBVIOUS
  <2>0. Off \in SUBSET Nat
    BY <1>2
  <2>1. PICK n \in Off : \A m \in Off : n <= m
    <3> HIDE DEF Off
    <3>. QED  BY <2>0, LeastNumber
  <2>2. n # 0 /\ n - 1 \in 0 .. Len(s) /\ n \in 1 .. Len(s) /\ n - 1 \notin Off
    BY <1>1, <1>2, <2>1
  <2>. QED  BY <1>1, <2>1, <2>2
<1>. QED  BY <1>1, <1>2, <1>3

\* The empty sum, and the sum of one.
LEMMA TotalOfFew ==
    /\ Total(<<>>) = 0
    /\ \A n \in Int : Total(<<n>>) = n
<1>1. Total(<<>>) = 0
  <2>1. <<>> \in Seq(Int) /\ Len(<<>>) = 0
    OBVIOUS
  <2>. QED  BY <2>1, TotalIsLast
<1>2. ASSUME NEW n \in Int PROVE Total(<<n>>) = n
  <2>1. <<n>> \in Seq(Int) /\ Len(<<n>>) = 1 /\ <<n>>[1] = n
    OBVIOUS
  <2>2. PICK f \in [0 .. 1 -> Int] :
           f[0] = 0 /\ Total(<<n>>) = f[1] /\ \A k \in 1 .. 1 : f[k] = f[k - 1] + <<n>>[k]
    BY <2>1, TotalIsLast
  <2>3. f[1] = f[0] + n
    BY <2>1, <2>2
  <2>. QED  BY <2>2, <2>3
<1>. QED  BY <1>1, <1>2

\* Sums of sequences put together add up.
LEMMA TotalOfConcat ==
    ASSUME NEW s \in Seq(Int), NEW t \in Seq(Int)
    PROVE  Total(s \o t) = Total(s) + Total(t)
<1>1. PICK f \in [0 .. Len(s) -> Int] :
          /\ f[0] = 0 /\ Total(s) = f[Len(s)]
          /\ \A k \in 1 .. Len(s) : f[k] = f[k - 1] + s[k]
  BY TotalIsLast
<1>2. PICK g \in [0 .. Len(t) -> Int] :
          /\ g[0] = 0 /\ Total(t) = g[Len(t)]
          /\ \A k \in 1 .. Len(t) : g[k] = g[k - 1] + t[k]
  BY TotalIsLast
<1>3. /\ Len(s) \in Nat /\ Len(t) \in Nat /\ s \o t \in Seq(Int)
      /\ Len(s \o t) = Len(s) + Len(t)
      /\ \A k \in 1 .. Len(s) + Len(t) :
            (s \o t)[k] = IF k <= Len(s) THEN s[k] ELSE t[k - Len(s)]
  BY ConcatProperties
<1> DEFINE h == [k \in 0 .. Len(s) + Len(t) |->
                   IF k <= Len(s) THEN f[k] ELSE f[Len(s)] + g[k - Len(s)]]
<1>4. h[0] = 0
  BY <1>1, <1>3
<1>5. \A k \in 1 .. Len(s \o t) : h[k] = h[k - 1] + (s \o t)[k]
  <2> SUFFICES ASSUME NEW k \in 1 .. Len(s) + Len(t) PROVE h[k] = h[k - 1] + (s \o t)[k]
    BY <1>3
  <2>0. k \in 0 .. Len(s) + Len(t) /\ k - 1 \in 0 .. Len(s) + Len(t)
    BY <1>3
  <2>1. CASE k <= Len(s)
    BY <1>1, <1>3, <2>0, <2>1
  <2>2. CASE k = Len(s) + 1
    <3>1. h[k] = f[Len(s)] + g[1] /\ h[k - 1] = f[Len(s)] /\ (s \o t)[k] = t[1]
      BY <1>3, <2>0, <2>2
    <3>2. 1 \in 1 .. Len(t)
      BY <1>3, <2>2
    <3>3. g[1] = t[1]
      BY <1>2, <1>3, <3>2
    <3>4. f[Len(s)] \in Int
      BY <1>3
    <3>. QED  BY <3>1, <3>3, <3>4
  <2>3. CASE k > Len(s) + 1
    <3>1. k - Len(s) \in 1 .. Len(t) /\ (k - 1) - Len(s) = (k - Len(s)) - 1
      BY <1>3, <2>3
    <3>2. h[k] = f[Len(s)] + g[k - Len(s)] /\ h[k - 1] = f[Len(s)] + g[(k - Len(s)) - 1]
      BY <1>3, <2>0, <2>3, <3>1
    <3>3. (s \o t)[k] = t[k - Len(s)]
      BY <1>3, <2>3
    <3>4. g[k - Len(s)] = g[(k - Len(s)) - 1] + t[k - Len(s)]
      BY <1>2, <3>1
    <3>5. f[Len(s)] \in Int /\ g[(k - Len(s)) - 1] \in Int /\ t[k - Len(s)] \in Int
      <4>1. Len(s) \in 0 .. Len(s) /\ (k - Len(s)) - 1 \in 0 .. Len(t)
        BY <1>3, <3>1
      <4>2. \A j \in 1 .. Len(t) : t[j] \in Int
        BY <1>3
      <4>. QED  BY <3>1, <4>1, <4>2
    <3>. QED  BY <3>2, <3>3, <3>4, <3>5
  <2>. QED  BY <1>3, <2>1, <2>2, <2>3
<1>6. h[Len(s \o t)] = f[Len(s)] + g[Len(t)]
  <2>1. CASE Len(t) = 0
    BY <1>1, <1>2, <1>3, <2>1
  <2>2. CASE Len(t) # 0
    BY <1>3, <2>2
  <2>. QED  BY <2>1, <2>2
<1> HIDE DEF h
<1>. QED  BY <1>1, <1>2, <1>3, <1>4, <1>5, <1>6, TotalDetermined

-----------------------------------------------------------------------------
(* Sums over coins. *)

\* What each of the coins weighs in a sum.
Weighed(w, s) == [i \in DOMAIN s |-> w[s[i]]]

\* The weight of a concatenation is the sum of the weights of its parts.
LEMMA WeighedAdds ==
    ASSUME NEW S, NEW w \in [S -> Int], NEW s \in Seq(S), NEW t \in Seq(S)
    PROVE  /\ Total(Weighed(w, s \o t)) = Total(Weighed(w, s)) + Total(Weighed(w, t))
           /\ Total(Weighed(w, s)) \in Int
<1>1. /\ Len(s) \in Nat /\ Len(t) \in Nat /\ s \o t \in Seq(S)
      /\ Len(s \o t) = Len(s) + Len(t)
      /\ \A k \in 1 .. Len(s) + Len(t) :
            (s \o t)[k] = IF k <= Len(s) THEN s[k] ELSE t[k - Len(s)]
  BY ConcatProperties
<1>2. ASSUME NEW u \in Seq(S)
      PROVE  /\ Weighed(w, u) \in Seq(Int) /\ Len(Weighed(w, u)) = Len(u)
             /\ \A k \in 1 .. Len(u) : Weighed(w, u)[k] = w[u[k]]
  <2>1. Len(u) \in Nat /\ DOMAIN u = 1 .. Len(u) /\ \A k \in 1 .. Len(u) : u[k] \in S
    OBVIOUS
  <2>2. Weighed(w, u) \in [1 .. Len(u) -> Int]
    BY <2>1 DEF Weighed
  <2>. QED  BY <2>1, <2>2 DEF Weighed
<1>3. Weighed(w, s \o t) = Weighed(w, s) \o Weighed(w, t)
  <2>1. /\ Weighed(w, s) \o Weighed(w, t) \in Seq(Int)
        /\ Len(Weighed(w, s) \o Weighed(w, t)) = Len(s) + Len(t)
        /\ \A k \in 1 .. Len(s) + Len(t) :
              (Weighed(w, s) \o Weighed(w, t))[k]
                 = IF k <= Len(s) THEN Weighed(w, s)[k] ELSE Weighed(w, t)[k - Len(s)]
    <3> DEFINE ws == Weighed(w, s)
               wt == Weighed(w, t)
    <3>1. ws \in Seq(Int) /\ wt \in Seq(Int) /\ Len(ws) = Len(s) /\ Len(wt) = Len(t)
      BY <1>2
    <3> HIDE DEF ws, wt
    <3>2. /\ ws \o wt \in Seq(Int)
          /\ Len(ws \o wt) = Len(ws) + Len(wt)
          /\ \A k \in 1 .. Len(ws) + Len(wt) :
                (ws \o wt)[k] = IF k <= Len(ws) THEN ws[k] ELSE wt[k - Len(ws)]
      BY <3>1, ConcatProperties
    <3>3. /\ ws \o wt \in Seq(Int)
          /\ Len(ws \o wt) = Len(s) + Len(t)
          /\ \A k \in 1 .. Len(s) + Len(t) :
                (ws \o wt)[k] = IF k <= Len(s) THEN ws[k] ELSE wt[k - Len(s)]
      BY <3>1, <3>2
    <3>. QED  BY <3>3 DEF ws, wt
  <2>2. \A k \in 1 .. Len(s) + Len(t) :
           Weighed(w, s \o t)[k] = (Weighed(w, s) \o Weighed(w, t))[k]
    <3> SUFFICES ASSUME NEW k \in 1 .. Len(s) + Len(t)
                 PROVE  Weighed(w, s \o t)[k] = (Weighed(w, s) \o Weighed(w, t))[k]
      OBVIOUS
    <3>1. Weighed(w, s \o t)[k] = w[(s \o t)[k]]
      BY <1>1, <1>2
    <3>2. CASE k <= Len(s)
      BY <1>1, <1>2, <2>1, <3>1, <3>2
    <3>3. CASE ~(k <= Len(s))
      <4>1. k - Len(s) \in 1 .. Len(t)
        BY <1>1, <3>3
      <4>. QED  BY <1>1, <1>2, <2>1, <3>1, <3>3, <4>1
    <3>. QED  BY <3>2, <3>3
  <2>3. /\ Weighed(w, s \o t) \in Seq(Int) /\ Len(Weighed(w, s \o t)) = Len(s) + Len(t)
    BY <1>1, <1>2
  <2>. QED  BY <2>1, <2>2, <2>3, SeqEqual
<1>. QED  BY <1>2, <1>3, TotalOfConcat, TotalDetermined, TotalIsLast

\* No coin weighs nothing, and one coin its own weight.
LEMMA WeighedFew ==
    ASSUME NEW S, NEW w \in [S -> Int]
    PROVE  /\ Total(Weighed(w, <<>>)) = 0
           /\ \A c \in S : Total(Weighed(w, <<c>>)) = w[c]
<1>1. Weighed(w, <<>>) = <<>>
  BY DEF Weighed
<1>2. ASSUME NEW c \in S PROVE Weighed(w, <<c>>) = <<w[c]>> /\ w[c] \in Int
  BY DEF Weighed
<1>. QED  BY <1>1, <1>2, TotalOfFew

\* The sums of the model weigh coins by their sats or their units.
Numbered(S) == \A c \in S : c.sats \in Int /\ c.held \in [Assets -> Int]
SatsWeight(S, key) == [c \in S |-> IF c.key = key THEN c.sats ELSE 0]
HeldWeight(S, key, a) == [c \in S |-> IF c.key = key THEN c.held[a] ELSE 0]

\* What the coins of a key carry, in sats and in each asset, is such a weight.
LEMMA SumsAreWeighed ==
    ASSUME NEW S, NEW s \in Seq(S), NEW key
    PROVE  /\ SatsOf(key, s) = Total(Weighed(SatsWeight(S, key), s))
           /\ \A a \in Assets :
                 HeldOf(key, s)[a] = Total(Weighed(HeldWeight(S, key, a), s))
<1>1. \A i \in DOMAIN s : s[i] \in S
  OBVIOUS
<1>2. [i \in DOMAIN s |-> IF s[i].key = key THEN s[i].sats ELSE 0] = Weighed(SatsWeight(S, key), s)
  BY <1>1 DEF Weighed, SatsWeight
<1>3. ASSUME NEW a \in Assets
      PROVE  [i \in DOMAIN s |-> IF s[i].key = key THEN s[i].held[a] ELSE 0]
                = Weighed(HeldWeight(S, key, a), s)
  BY <1>1 DEF Weighed, HeldWeight
<1>. QED  BY <1>2, <1>3 DEF SatsOf, HeldOf

\* The sums of one key over coins put together add up, and those of one coin.
LEMMA KeySumsAdd ==
    ASSUME NEW S, Numbered(S), NEW key, NEW s \in Seq(S), NEW t \in Seq(S)
    PROVE  /\ SatsOf(key, s \o t) = SatsOf(key, s) + SatsOf(key, t) /\ SatsOf(key, s) \in Int
           /\ \A a \in Assets : /\ HeldOf(key, s \o t)[a] = HeldOf(key, s)[a] + HeldOf(key, t)[a]
                               /\ HeldOf(key, s)[a] \in Int
<1>1. s \o t \in Seq(S)
  OBVIOUS
<1>2. SatsWeight(S, key) \in [S -> Int]
  BY DEF Numbered, SatsWeight
<1>3. ASSUME NEW a \in Assets PROVE HeldWeight(S, key, a) \in [S -> Int]
  BY DEF Numbered, HeldWeight
<1>4. SatsOf(key, s \o t) = SatsOf(key, s) + SatsOf(key, t) /\ SatsOf(key, s) \in Int
  <2> DEFINE w == SatsWeight(S, key)
  <2>1. /\ SatsOf(key, s) = Total(Weighed(w, s)) /\ SatsOf(key, t) = Total(Weighed(w, t))
        /\ SatsOf(key, s \o t) = Total(Weighed(w, s \o t))
    BY <1>1, SumsAreWeighed
  <2>2. w \in [S -> Int]
    BY <1>2
  <2> HIDE DEF w
  <2>3. /\ Total(Weighed(w, s \o t)) = Total(Weighed(w, s)) + Total(Weighed(w, t))
        /\ Total(Weighed(w, s)) \in Int
    BY <2>2, WeighedAdds
  <2>. QED  BY <2>1, <2>3
<1>5. ASSUME NEW a \in Assets
      PROVE  /\ HeldOf(key, s \o t)[a] = HeldOf(key, s)[a] + HeldOf(key, t)[a]
             /\ HeldOf(key, s)[a] \in Int
  <2> DEFINE w == HeldWeight(S, key, a)
  <2>1. /\ HeldOf(key, s)[a] = Total(Weighed(w, s)) /\ HeldOf(key, t)[a] = Total(Weighed(w, t))
        /\ HeldOf(key, s \o t)[a] = Total(Weighed(w, s \o t))
    BY <1>1, SumsAreWeighed
  <2>2. w \in [S -> Int]
    BY <1>3
  <2> HIDE DEF w
  <2>3. /\ Total(Weighed(w, s \o t)) = Total(Weighed(w, s)) + Total(Weighed(w, t))
        /\ Total(Weighed(w, s)) \in Int
    BY <2>2, WeighedAdds
  <2>. QED  BY <2>1, <2>3
<1>. QED  BY <1>4, <1>5

\* What no coin and what one coin carries for a key.
LEMMA KeySumsOfFew ==
    ASSUME NEW S, Numbered(S), NEW key
    PROVE  /\ SatsOf(key, <<>>) = 0
           /\ \A a \in Assets : HeldOf(key, <<>>)[a] = 0
           /\ \A c \in S : /\ SatsOf(key, <<c>>) = IF c.key = key THEN c.sats ELSE 0
                           /\ \A a \in Assets :
                                 HeldOf(key, <<c>>)[a] = IF c.key = key THEN c.held[a] ELSE 0
<1>1. <<>> \in Seq(S) /\ \A c \in S : <<c>> \in Seq(S)
  OBVIOUS
<1>2. SatsWeight(S, key) \in [S -> Int]
  BY DEF Numbered, SatsWeight
<1>3. ASSUME NEW a \in Assets PROVE HeldWeight(S, key, a) \in [S -> Int]
  BY DEF Numbered, HeldWeight
<1>4. \A c \in S : SatsWeight(S, key)[c] = IF c.key = key THEN c.sats ELSE 0
  BY DEF SatsWeight
<1>5. \A a \in Assets, c \in S : HeldWeight(S, key, a)[c] = IF c.key = key THEN c.held[a] ELSE 0
  BY DEF HeldWeight
<1>6. /\ SatsOf(key, <<>>) = 0
      /\ \A c \in S : SatsOf(key, <<c>>) = IF c.key = key THEN c.sats ELSE 0
  <2> DEFINE w == SatsWeight(S, key)
  <2>1. /\ SatsOf(key, <<>>) = Total(Weighed(w, <<>>))
        /\ \A c \in S : SatsOf(key, <<c>>) = Total(Weighed(w, <<c>>))
    BY <1>1, SumsAreWeighed
  <2>2. w \in [S -> Int] /\ \A c \in S : w[c] = IF c.key = key THEN c.sats ELSE 0
    BY <1>2, <1>4
  <2> HIDE DEF w
  <2>3. /\ Total(Weighed(w, <<>>)) = 0
        /\ \A c \in S : Total(Weighed(w, <<c>>)) = w[c]
    BY <2>2, WeighedFew
  <2>. QED  BY <2>1, <2>2, <2>3
<1>7. ASSUME NEW a \in Assets
      PROVE  /\ HeldOf(key, <<>>)[a] = 0
             /\ \A c \in S : HeldOf(key, <<c>>)[a] = IF c.key = key THEN c.held[a] ELSE 0
  <2> DEFINE w == HeldWeight(S, key, a)
  <2>1. /\ HeldOf(key, <<>>)[a] = Total(Weighed(w, <<>>))
        /\ \A c \in S : HeldOf(key, <<c>>)[a] = Total(Weighed(w, <<c>>))
    BY <1>1, SumsAreWeighed
  <2>2. w \in [S -> Int] /\ \A c \in S : w[c] = IF c.key = key THEN c.held[a] ELSE 0
    BY <1>3, <1>5
  <2> HIDE DEF w
  <2>3. /\ Total(Weighed(w, <<>>)) = 0
        /\ \A c \in S : Total(Weighed(w, <<c>>)) = w[c]
    BY <2>2, WeighedFew
  <2>. QED  BY <2>1, <2>2, <2>3
<1>. QED  BY <1>6, <1>7

-----------------------------------------------------------------------------
(* The coins of a joint transaction: two go in, up to four come out. *)

\* A coin with a number of sats and of units of every asset.
IsCoin(c) == c.sats \in Int /\ c.held \in [Assets -> Int]
SatsTo(key, c) == IF c.key = key THEN c.sats ELSE 0
HeldTo(key, c, a) == IF c.key = key THEN c.held[a] ELSE 0
Perhaps(b, c) == IF b THEN <<c>> ELSE <<>>

\* A pair is two sequences of one.
LEMMA TwoInARow == ASSUME NEW c, NEW d PROVE <<c, d>> = <<c>> \o <<d>>
<1>1. <<c, d>> = Append(<<c>>, d)
  OBVIOUS
<1>2. <<c>> \in Seq({c, d}) /\ d \in {c, d}
  OBVIOUS
<1>. QED  BY <1>1, <1>2, AppendIsConcat

\* An optional output is a sequence of at most one.
LEMMA PerhapsIsSeq ==
    ASSUME NEW S, NEW c \in S, NEW b \in BOOLEAN PROVE Perhaps(b, c) \in Seq(S)
<1>1. CASE b
  BY <1>1 DEF Perhaps
<1>2. CASE ~b
  BY <1>2 DEF Perhaps
<1>. QED  BY <1>1, <1>2

\* The first output of a graph is the one that is always there.
LEMMA FirstOfOutputs ==
    ASSUME NEW c1, NEW c2, NEW c3, NEW c4, NEW b2 \in BOOLEAN, NEW b3 \in BOOLEAN, NEW b4 \in BOOLEAN
    PROVE  (<<c1>> \o Perhaps(b2, c2) \o Perhaps(b3, c3) \o Perhaps(b4, c4))[1] = c1
<1> DEFINE S == {c1, c2, c3, c4}
           s1 == <<c1>>
           s2 == Perhaps(b2, c2)
           s3 == Perhaps(b3, c3)
           s4 == Perhaps(b4, c4)
<1>1. c1 \in S /\ c2 \in S /\ c3 \in S /\ c4 \in S
  OBVIOUS
<1> HIDE DEF S
<1>2. s1 \in Seq(S) /\ Len(s1) = 1 /\ s1[1] = c1
  BY <1>1
<1>3. s2 \in Seq(S) /\ s3 \in Seq(S) /\ s4 \in Seq(S)
  BY <1>1, PerhapsIsSeq
<1> HIDE DEF s1, s2, s3, s4
<1> DEFINE s12 == s1 \o s2
           s123 == s12 \o s3
<1>4. s12 \in Seq(S) /\ Len(s12) >= 1 /\ s12[1] = c1
  BY <1>2, <1>3, ConcatProperties
<1> HIDE DEF s12
<1>5. s123 \in Seq(S) /\ Len(s123) >= 1 /\ s123[1] = c1
  BY <1>3, <1>4, ConcatProperties
<1> HIDE DEF s123
<1>6. (s123 \o s4)[1] = c1
  BY <1>3, <1>5, ConcatProperties
<1>. QED  BY <1>6 DEF s123, s12, s1, s2, s3, s4

\* The sums of one key over one coin and three that may be there.
LEMMA SumsOfOutputs ==
    ASSUME NEW c1, NEW c2, NEW c3, NEW c4, IsCoin(c1), IsCoin(c2), IsCoin(c3), IsCoin(c4),
           NEW b2 \in BOOLEAN, NEW b3 \in BOOLEAN, NEW b4 \in BOOLEAN, NEW key
    PROVE  LET outs == <<c1>> \o Perhaps(b2, c2) \o Perhaps(b3, c3) \o Perhaps(b4, c4) IN
           /\ SatsOf(key, outs) = SatsTo(key, c1) + (IF b2 THEN SatsTo(key, c2) ELSE 0)
                 + (IF b3 THEN SatsTo(key, c3) ELSE 0) + (IF b4 THEN SatsTo(key, c4) ELSE 0)
           /\ \A a \in Assets :
                 HeldOf(key, outs)[a] = HeldTo(key, c1, a) + (IF b2 THEN HeldTo(key, c2, a) ELSE 0)
                 + (IF b3 THEN HeldTo(key, c3, a) ELSE 0) + (IF b4 THEN HeldTo(key, c4, a) ELSE 0)
<1> DEFINE S == {c1, c2, c3, c4}
           outs == <<c1>> \o Perhaps(b2, c2) \o Perhaps(b3, c3) \o Perhaps(b4, c4)
           s1 == <<c1>>
           s2 == Perhaps(b2, c2)
           s3 == Perhaps(b3, c3)
           s4 == Perhaps(b4, c4)
<1>1. Numbered(S)
  BY DEF Numbered, IsCoin
<1>2. s1 \in Seq(S) /\ s2 \in Seq(S) /\ s3 \in Seq(S) /\ s4 \in Seq(S)
  <2>1. c1 \in S /\ c2 \in S /\ c3 \in S /\ c4 \in S
    OBVIOUS
  <2> HIDE DEF S
  <2>. QED  BY <2>1, PerhapsIsSeq
<1>a. \A s, t \in Seq(S) : SatsOf(key, s \o t) = SatsOf(key, s) + SatsOf(key, t)
  BY <1>1, KeySumsAdd
<1>b. \A s, t \in Seq(S) : \A a \in Assets : HeldOf(key, s \o t)[a] = HeldOf(key, s)[a] + HeldOf(key, t)[a]
  BY <1>1, KeySumsAdd
<1>c. /\ SatsOf(key, <<>>) = 0
      /\ \A c \in S : SatsOf(key, <<c>>) = SatsTo(key, c)
  BY <1>1, KeySumsOfFew DEF SatsTo
<1>d. /\ \A a \in Assets : HeldOf(key, <<>>)[a] = 0
      /\ \A c \in S : \A a \in Assets : HeldOf(key, <<c>>)[a] = HeldTo(key, c, a)
  <2> HIDE DEF S
  <2>. QED  BY <1>1, KeySumsOfFew DEF HeldTo
<1>e. c1 \in S /\ c2 \in S /\ c3 \in S /\ c4 \in S
  OBVIOUS
<1> HIDE DEF S
<1>3. /\ SatsOf(key, s1) = SatsTo(key, c1)
      /\ SatsOf(key, s2) = IF b2 THEN SatsTo(key, c2) ELSE 0
      /\ SatsOf(key, s3) = IF b3 THEN SatsTo(key, c3) ELSE 0
      /\ SatsOf(key, s4) = IF b4 THEN SatsTo(key, c4) ELSE 0
  BY <1>c, <1>e DEF Perhaps
<1>4. ASSUME NEW a \in Assets
      PROVE  /\ HeldOf(key, s1)[a] = HeldTo(key, c1, a)
             /\ HeldOf(key, s2)[a] = IF b2 THEN HeldTo(key, c2, a) ELSE 0
             /\ HeldOf(key, s3)[a] = IF b3 THEN HeldTo(key, c3, a) ELSE 0
             /\ HeldOf(key, s4)[a] = IF b4 THEN HeldTo(key, c4, a) ELSE 0
  BY <1>d, <1>e DEF Perhaps
<1>6. outs = s1 \o s2 \o s3 \o s4
  OBVIOUS
<1> HIDE DEF s1, s2, s3, s4, outs
<1> DEFINE s12 == s1 \o s2
           s123 == s12 \o s3
<1>5. s12 \in Seq(S) /\ s123 \in Seq(S) /\ outs = s123 \o s4
  <2>1. s12 \in Seq(S)
    BY <1>2
  <2>2. outs = s123 \o s4
    BY <1>6
  <2> HIDE DEF s12
  <2>3. s123 \in Seq(S)
    BY <1>2, <2>1
  <2>. QED  BY <2>1, <2>2, <2>3
<1>7. SatsOf(key, outs) = SatsOf(key, s1) + SatsOf(key, s2) + SatsOf(key, s3) + SatsOf(key, s4)
  <2>1. SatsOf(key, s12) = SatsOf(key, s1) + SatsOf(key, s2)
    BY <1>a, <1>2
  <2> HIDE DEF s12
  <2>2. SatsOf(key, s123) = SatsOf(key, s12) + SatsOf(key, s3)
    BY <1>a, <1>2, <1>5
  <2> HIDE DEF s123
  <2>3. SatsOf(key, outs) = SatsOf(key, s123) + SatsOf(key, s4)
    BY <1>a, <1>2, <1>5
  <2>. QED  BY <2>1, <2>2, <2>3
<1>8. ASSUME NEW a \in Assets
      PROVE  HeldOf(key, outs)[a] = HeldOf(key, s1)[a] + HeldOf(key, s2)[a] + HeldOf(key, s3)[a]
                                       + HeldOf(key, s4)[a]
  <2>1. HeldOf(key, s12)[a] = HeldOf(key, s1)[a] + HeldOf(key, s2)[a]
    BY <1>b, <1>2
  <2> HIDE DEF s12
  <2>2. HeldOf(key, s123)[a] = HeldOf(key, s12)[a] + HeldOf(key, s3)[a]
    BY <1>b, <1>2, <1>5
  <2> HIDE DEF s123
  <2>3. HeldOf(key, outs)[a] = HeldOf(key, s123)[a] + HeldOf(key, s4)[a]
    <3>1. HeldOf(key, s123 \o s4)[a] = HeldOf(key, s123)[a] + HeldOf(key, s4)[a]
      BY <1>b, <1>2, <1>5
    <3>. QED  BY <3>1, <1>5
  <2>. QED  BY <2>1, <2>2, <2>3
<1> HIDE DEF s12, s123
<1>9. /\ SatsOf(key, outs) = SatsTo(key, c1) + (IF b2 THEN SatsTo(key, c2) ELSE 0)
            + (IF b3 THEN SatsTo(key, c3) ELSE 0) + (IF b4 THEN SatsTo(key, c4) ELSE 0)
      /\ \A a \in Assets :
            HeldOf(key, outs)[a] = HeldTo(key, c1, a) + (IF b2 THEN HeldTo(key, c2, a) ELSE 0)
            + (IF b3 THEN HeldTo(key, c3, a) ELSE 0) + (IF b4 THEN HeldTo(key, c4, a) ELSE 0)
  BY <1>3, <1>4, <1>7, <1>8
<1>. QED  BY <1>9 DEF outs

\* One coin carries its value for its own key, and nothing for another.
LEMMA KeySumsOfOne ==
    ASSUME NEW S, Numbered(S), NEW key, NEW x \in S
    PROVE  /\ SatsOf(key, <<x>>) = SatsTo(key, x)
           /\ \A a \in Assets : HeldOf(key, <<x>>)[a] = HeldTo(key, x, a)
<1>1. SatsOf(key, <<x>>) = SatsTo(key, x)
  BY KeySumsOfFew DEF SatsTo
<1>2. \A a \in Assets : HeldOf(key, <<x>>)[a] = HeldTo(key, x, a)
  BY KeySumsOfFew DEF HeldTo
<1>. QED  BY <1>1, <1>2

\* Two coins carry their values together.
LEMMA SumsOfTwo ==
    ASSUME NEW S, Numbered(S), NEW key, NEW x \in S, NEW y \in S
    PROVE  /\ SatsOf(key, <<x, y>>) = SatsTo(key, x) + SatsTo(key, y)
           /\ \A a \in Assets : HeldOf(key, <<x, y>>)[a] = HeldTo(key, x, a) + HeldTo(key, y, a)
<1>1. /\ SatsOf(key, <<x>>) = SatsTo(key, x) /\ SatsOf(key, <<y>>) = SatsTo(key, y)
      /\ \A a \in Assets : HeldOf(key, <<x>>)[a] = HeldTo(key, x, a) /\ HeldOf(key, <<y>>)[a] = HeldTo(key, y, a)
  BY KeySumsOfOne
<1> DEFINE one == <<x>>
           two == <<y>>
<1>2. one \in Seq(S) /\ two \in Seq(S)
  OBVIOUS
<1>3. <<x, y>> = one \o two
  BY TwoInARow
<1> HIDE DEF one, two
<1>4. /\ SatsOf(key, one \o two) = SatsOf(key, one) + SatsOf(key, two)
      /\ \A a \in Assets : HeldOf(key, one \o two)[a] = HeldOf(key, one)[a] + HeldOf(key, two)[a]
  BY <1>2, KeySumsAdd
<1>. QED  BY <1>1, <1>3, <1>4 DEF one, two

\* The sums of one key over two coins.
LEMMA SumsOfInputs ==
    ASSUME NEW x, NEW y, IsCoin(x), IsCoin(y), NEW key
    PROVE  /\ SatsOf(key, <<x, y>>) = SatsTo(key, x) + SatsTo(key, y)
           /\ \A a \in Assets : HeldOf(key, <<x, y>>)[a] = HeldTo(key, x, a) + HeldTo(key, y, a)
<1>1. Numbered({x, y}) /\ x \in {x, y} /\ y \in {x, y}
  BY DEF Numbered, IsCoin
<1>. QED  BY <1>1, SumsOfTwo

-----------------------------------------------------------------------------
(* What a wallet plans is a request. *)

\* The sum of amounts that are not negative is not negative.
LEMMA TotalIsNatural ==
    ASSUME NEW s \in Seq(Nat) PROVE Total(s) \in Nat
<1>1. s \in Seq(Int) /\ Len(s) \in Nat /\ \A k \in 1 .. Len(s) : s[k] \in Nat
  OBVIOUS
<1>2. PICK f \in [0 .. Len(s) -> Int] :
          /\ f[0] = 0 /\ Total(s) = f[Len(s)]
          /\ \A k \in 1 .. Len(s) : f[k] = f[k - 1] + s[k]
  BY <1>1, TotalIsLast
<1> DEFINE Below == {n \in 0 .. Len(s) : f[n] \notin Nat}
<1>3. Below = {}
  <2> SUFFICES ASSUME Below # {} PROVE FALSE
    OBVIOUS
  <2>0. Below \in SUBSET Nat
    BY <1>1
  <2>1. PICK n \in Below : \A m \in Below : n <= m
    <3> HIDE DEF Below
    <3>. QED  BY <2>0, LeastNumber
  <2>2. n # 0 /\ n - 1 \in 0 .. Len(s) /\ n \in 1 .. Len(s) /\ n - 1 \notin Below
    BY <1>1, <1>2, <2>1
  <2>3. f[n - 1] \in Nat /\ s[n] \in Nat /\ f[n] = f[n - 1] + s[n]
    BY <1>1, <1>2, <2>2
  <2>. QED  BY <2>1, <2>3
<1>. QED  BY <1>1, <1>2, <1>3

\* What coins hold together is a number of sats and of units.
LEMMA TotalsOfCoins ==
    ASSUME NEW coins, NEW s \in Seq(coins),
           \A c \in coins : c.sats \in Nat /\ c.held \in [Assets -> Nat]
    PROVE  TotalSats(s) \in Nat /\ TotalHeld(s) \in [Assets -> Nat]
<1>1. Len(s) \in Nat /\ DOMAIN s = 1 .. Len(s) /\ \A i \in 1 .. Len(s) : s[i] \in coins
  OBVIOUS
<1>2. [i \in DOMAIN s |-> s[i].sats] \in Seq(Nat)
  BY <1>1
<1>3. ASSUME NEW a \in Assets PROVE [i \in DOMAIN s |-> s[i].held[a]] \in Seq(Nat)
  BY <1>1
<1>. QED  BY <1>2, <1>3, TotalIsNatural DEF TotalSats, TotalHeld

\* Coins can be put in the order of their values.
LEMMA CoinsCanBeSorted ==
    ASSUME NEW coins, IsFiniteSet(coins), \A c \in coins : c.sats \in Nat
    PROVE  \E s \in [1 .. Cardinality(coins) -> coins] : Sorts(s, coins)
<1> DEFINE Sortable(n, S) == \E s \in [1 .. n -> S] : Sorts(s, S)
           Bad == {n \in Nat : \E S \in SUBSET coins : Cardinality(S) = n /\ ~Sortable(n, S)}
<1> HIDE DEF Sortable
<1>1. Bad = {}
  <2> SUFFICES ASSUME Bad # {} PROVE FALSE
    OBVIOUS
  <2>0. Bad \in SUBSET Nat
    OBVIOUS
  <2>1. PICK n \in Bad : \A m \in Bad : n <= m
    <3> HIDE DEF Bad
    <3>. QED  BY <2>0, LeastNumber
  <2>2. PICK S \in SUBSET coins : Cardinality(S) = n /\ ~Sortable(n, S)
    BY <2>1
  <2>3. IsFiniteSet(S) /\ n \in Nat
    BY <2>1, FS_Subset
  <2>4. S # {}
    <3> SUFFICES ASSUME S = {} PROVE FALSE
      OBVIOUS
    <3>1. n = 0
      BY <2>2, <2>3, FS_EmptySet
    <3>2. Sortable(0, {})
      <4> DEFINE s == [i \in 1 .. 0 |-> {}]
      <4>1. s \in [1 .. 0 -> {}] /\ DOMAIN s = {}
        OBVIOUS
      <4>2. Sorts(s, {})
        BY <4>1 DEF Sorts
      <4>. QED  BY <4>1, <4>2 DEF Sortable
    <3>. QED  BY <2>2, <3>1, <3>2
  <2>5. PICK least \in S : \A c \in S : least.sats <= c.sats
    <3> DEFINE values == {c.sats : c \in S}
    <3>1. values \in SUBSET Nat /\ values # {}
      BY <2>4
    <3>2. PICK v \in values : \A w \in values : v <= w
      <4> HIDE DEF values
      <4>. QED  BY <3>1, LeastNumber
    <3>. QED  BY <3>2
  <2> DEFINE R == S \ {least}
  <2>6. R \in SUBSET coins /\ n - 1 \in Nat /\ Cardinality(R) = n - 1
    <3>1. Cardinality(R) = Cardinality(S) - 1 /\ IsFiniteSet(R)
      BY <2>3, <2>5, FS_RemoveElement
    <3>2. Cardinality(R) \in Nat
      BY <3>1, FS_CardinalityType
    <3>. QED  BY <2>2, <2>3, <3>1, <3>2
  <2>7. Sortable(n - 1, R)
    BY <2>1, <2>3, <2>6
  <2>8. PICK t \in [1 .. (n - 1) -> R] : Sorts(t, R)
    BY <2>7 DEF Sortable
  <2> DEFINE s == [i \in 1 .. n |-> IF i = 1 THEN least ELSE t[i - 1]]
  <2>9. s \in [1 .. n -> S]
    BY <2>3, <2>5, <2>6
  <2>10. S = {s[i] : i \in DOMAIN s}
    <3>1. ASSUME NEW c \in S PROVE \E i \in DOMAIN s : s[i] = c
      <4>1. CASE c = least
        BY <2>3, <2>6, <4>1
      <4>2. CASE c # least
        <5>1. PICK i \in 1 .. (n - 1) : t[i] = c
          BY <2>8, <4>2 DEF Sorts
        <5>2. i + 1 \in 1 .. n /\ i + 1 # 1 /\ (i + 1) - 1 = i
          BY <2>3, <5>1
        <5>. QED  BY <5>1, <5>2
      <4>. QED  BY <4>1, <4>2
    <3>. QED  BY <2>9, <3>1
  <2>11. \A i, j \in DOMAIN s : i < j => s[i].sats <= s[j].sats
    <3> SUFFICES ASSUME NEW i \in 1 .. n, NEW j \in 1 .. n, i < j PROVE s[i].sats <= s[j].sats
      OBVIOUS
    <3>1. s[j] \in S /\ j # 1 /\ j - 1 \in 1 .. (n - 1)
      BY <2>3, <2>9
    <3>2. CASE i = 1
      BY <2>5, <3>1, <3>2
    <3>3. CASE i # 1
      <4>1. i - 1 \in 1 .. (n - 1) /\ i - 1 < j - 1
        BY <2>3, <3>3
      <4>. QED  BY <2>8, <3>1, <3>3, <4>1 DEF Sorts
    <3>. QED  BY <3>2, <3>3
  <2>12. Sorts(s, S)
    <3> HIDE DEF s
    <3>. QED  BY <2>10, <2>11 DEF Sorts
  <2> HIDE DEF s
  <2>. QED  BY <2>2, <2>9, <2>12 DEF Sortable
<1>2. Cardinality(coins) \in Nat
  BY FS_CardinalityType
<1>3. Sortable(Cardinality(coins), coins)
  BY <1>1, <1>2
<1>. QED  BY <1>3 DEF Sortable

\* The coins in the order of their value are a sequence of them.
LEMMA ByValueIsSeq ==
    ASSUME NEW coins, IsFiniteSet(coins), \A c \in coins : c.sats \in Nat
    PROVE  ByValue(coins) \in Seq(coins)
<1>1. ByValue(coins) \in [1 .. Cardinality(coins) -> coins]
  BY CoinsCanBeSorted DEF ByValue
<1>2. Cardinality(coins) \in Nat
  BY FS_CardinalityType
<1>. QED  BY <1>1, <1>2

\* The least of some numbers is one of them.
LEMMA LeastIsOne ==
    ASSUME NEW ns \in SUBSET Nat, ns # {} PROVE Least(ns) \in ns /\ \A m \in ns : Least(ns) <= m
BY LeastNumber DEF Least

\* The fewest coins that suffice are a prefix of the coins in order.
LEMMA FewestIsSeq ==
    ASSUME NEW S, NEW s \in Seq(S), NEW sums, Takes(s, sums) # {}
    PROVE  Fewest(s, sums) \in Seq(S)
<1>1. Takes(s, sums) \in SUBSET Nat
  BY DEF Takes
<1>2. Least(Takes(s, sums)) \in 0 .. Len(s)
  BY <1>1, LeastIsOne DEF Takes
<1>. QED  BY <1>2, SubSeqProperties DEF Fewest

\* The coins the wallet selects for sats are a sequence of its own.
LEMMA SelectedAreOwn ==
    ASSUME NEW coins, IsFiniteSet(coins), \A c \in coins : c.sats \in Nat, NEW required
    PROVE  SelectSats(coins, required) \in Seq(coins)
<1> DEFINE covered == {required} \cup AtLeast(required + VtxoMin)
           plain == Plain(coins)
           laden == Laden(coins)
           hosts == AtLeast(Spared(required) - TotalSats(plain))
           single == {n \in DOMAIN laden : laden[n].sats \in hosts}
<1>1. plain \in Seq(coins) /\ laden \in Seq(coins)
  <2>1. ASSUME NEW S \in SUBSET coins PROVE ByValue(S) \in Seq(coins)
    <3>1. IsFiniteSet(S)
      BY FS_Subset
    <3>2. ByValue(S) \in Seq(S)
      BY <3>1, ByValueIsSeq
    <3>. QED  BY <3>2
  <2>. QED  BY <2>1 DEF Plain, Laden
<1> HIDE DEF plain, laden
<1>2. single # {} => Append(plain, laden[Least(single)]) \in Seq(coins)
  <2>1. single \in SUBSET Nat /\ \A n \in single : laden[n] \in coins
    BY <1>1
  <2>2. single # {} => Least(single) \in single
    <3> HIDE DEF single
    <3>. QED  BY <2>1, LeastIsOne
  <2>. QED  BY <1>1, <2>1, <2>2
<1>3. Takes(plain, covered) # {} => Fewest(plain, covered) \in Seq(coins)
  BY <1>1, FewestIsSeq
<1>4. Takes(laden, hosts) # {} => plain \o Fewest(laden, hosts) \in Seq(coins)
  <2>1. Takes(laden, hosts) # {} => Fewest(laden, hosts) \in Seq(coins)
    BY <1>1, FewestIsSeq
  <2>. QED  BY <1>1, <2>1
<1>5. <<>> \in Seq(coins)
  OBVIOUS
<1>6. SelectSats(coins, required) =
         IF Takes(plain, covered) # {} THEN Fewest(plain, covered)
         ELSE IF single # {} THEN Append(plain, laden[Least(single)])
         ELSE IF Takes(laden, hosts) # {} THEN plain \o Fewest(laden, hosts)
         ELSE <<>>
  BY DEF SelectSats, plain, laden
<1> HIDE DEF covered, hosts, single
<1>. QED  BY <1>2, <1>3, <1>4, <1>5, <1>6

\* A request for coins of the sender's is one a sender may make.
LEMMA RequestsAreAsks ==
    ASSUME NEW payment \in PlannedPayments, NEW s \in Seq(payment.coins),
           NEW kind \in {"lockup", "payment"},
           NEW maxFare \in [currency : Currencies, units : Nat],
           kind = "lockup" => payment.delivery # "sponsored"
    PROVE  Request(payment, s, kind, maxFare) \in TransferAsks
<1>1. /\ payment.asset \in Currencies /\ payment.amount \in Nat \ {0}
      /\ payment.delivery \in {"recycle", "purchase", "sponsored"}
      /\ payment.coins \subseteq CoinsOf({"sender"})
  BY PaymentsAssumption
<1>2. TotalSats(s) \in Nat /\ TotalHeld(s) \in [Assets -> Nat]
  <2>1. \A c \in payment.coins : c.sats \in Nat /\ c.held \in [Assets -> Nat]
    BY <1>1 DEF CoinsOf
  <2>. QED  BY <2>1, TotalsOfCoins
<1> DEFINE r == Request(payment, s, kind, maxFare)
           money == Coin("sender", TotalSats(s), TotalHeld(s))
<1>3. money \in CoinsOf({"sender"})
  BY <1>2 DEF Coin, CoinsOf
<1>4. "receiver" \in Strangers
  BY DEF Strangers
<1>5. r \in [kind : {"lockup", "payment"}, receiver : Strangers, asset : Currencies, payment : Nat,
            units : Nat, coin : CoinsOf({"sender"}), mode : Modes, recovery : {"any", "sender"},
            minLocktime : 0 .. 2, minExitDelay : 0 .. 2,
            maxFare : [currency : Currencies, units : Nat]]
  <2> HIDE DEF money
  <2>1. r = [kind |-> kind, receiver |-> "receiver", asset |-> payment.asset,
             payment |-> IF payment.asset = Sats THEN payment.amount ELSE 0,
             units |-> IF payment.asset = Sats THEN 0 ELSE payment.amount,
             coin |-> money,
             mode |-> IF kind = "lockup" THEN payment.delivery ELSE "recycle",
             recovery |-> "sender", minLocktime |-> 2, minExitDelay |-> 0, maxFare |-> maxFare]
    BY DEF Request, money
  <2>2. (IF kind = "lockup" THEN payment.delivery ELSE "recycle") \in Modes
    BY <1>1 DEF Modes
  <2>3. /\ (IF payment.asset = Sats THEN payment.amount ELSE 0) \in Nat
        /\ (IF payment.asset = Sats THEN 0 ELSE payment.amount) \in Nat
    BY <1>1
  <2>. QED  BY <1>1, <1>3, <1>4, <2>1, <2>2, <2>3
<1>6. (r.asset = Sats <=> r.payment > 0) /\ (r.asset = Sats => r.units = 0)
  BY <1>1 DEF Request
<1>. QED  BY <1>5, <1>6 DEF TransferAsks

\* A fare the wallet prices is a whole number.
LEMMA PriceIsWhole ==
    ASSUME NEW rule \in Rules, NEW base \in Int
    PROVE  PriceFare(rule.fare, base) \in Int
<1>1. rule.fare.bps \in Int /\ rule.fare.least \in Int /\ rule.fare.most \in Int
  BY AsksAssumption DEF Policies
<1>2. base * rule.fare.bps \in Int
  BY <1>1
<1>3. (base * rule.fare.bps) \div Parts \in Int
  BY <1>2 DEF Parts
<1>. QED  BY <1>1, <1>3 DEF PriceFare, Clamp

\* Whatever the wallet plans is a request it can send (planPayment).
LEMMA PlansAreAsks ==
    ASSUME NEW payment \in PlannedPayments, NEW rule \in Rules
    PROVE  PlansOf(payment, rule) \subseteq TransferAsks
<1>0. /\ payment.asset \in Currencies /\ payment.amount \in Nat \ {0}
      /\ payment.delivery \in {"recycle", "purchase", "sponsored"} /\ IsFiniteSet(payment.coins)
      /\ \A c \in payment.coins : c.sats \in Nat
  BY PaymentsAssumption DEF CoinsOf
<1>1. BitcoinPlans(payment, rule) \subseteq TransferAsks
  <2>1. SelectSats(payment.coins, payment.amount) \in Seq(payment.coins)
    BY <1>0, SelectedAreOwn
  <2>2. [currency |-> Sats, units |-> 0] \in [currency : Currencies, units : Nat]
    BY DEF Currencies
  <2>. QED  BY <1>0, <2>1, <2>2, RequestsAreAsks DEF BitcoinPlans
<1>2. ASSUME payment.asset # Sats PROVE AssetPlans(payment, rule) \subseteq TransferAsks
  <2> SUFFICES ASSUME NEW plan \in AssetPlans(payment, rule) PROVE plan \in TransferAsks
    OBVIOUS
  <2> DEFINE inSats == payment.delivery = "recycle"
             fare == PriceFare(rule.fare, IF inSats THEN Dust ELSE payment.amount)
             units == payment.amount + (IF inSats THEN 0 ELSE fare)
             maxFare == [currency |-> IF inSats THEN Sats ELSE payment.asset, units |-> fare]
             kind == IF payment.delivery = "sponsored" THEN "payment" ELSE "lockup"
  <2>1. PICK s, sums :
           /\ s \in CoinsWithAsset(payment.coins, payment.asset, units)
           /\ fare >= 0 /\ Takes(Plain(payment.coins), sums) # {}
           /\ plan = Request(payment, ByValue(s) \o Fewest(Plain(payment.coins), sums), kind, maxFare)
    BY DEF AssetPlans
  <2>2. fare \in Nat
    <3>1. Dust \in Int /\ payment.amount \in Int
      BY <1>0, DustAssumption
    <3>2. fare \in Int
      BY <3>1, PriceIsWhole
    <3>. QED  BY <2>1, <3>2
  <2>3. ByValue(s) \in Seq(payment.coins)
    <3>1. s \in SUBSET payment.coins
      BY <2>1 DEF CoinsWithAsset
    <3>2. IsFiniteSet(s)
      BY <1>0, <3>1, FS_Subset
    <3>3. ByValue(s) \in Seq(s)
      BY <1>0, <3>1, <3>2, ByValueIsSeq
    <3>. QED  BY <3>1, <3>3
  <2>4. Fewest(Plain(payment.coins), sums) \in Seq(payment.coins)
    <3> DEFINE S == {c \in payment.coins : c.held = Nothing}
    <3>1. IsFiniteSet(S)
      BY <1>0, FS_Subset
    <3>2. Plain(payment.coins) \in Seq(S)
      BY <1>0, <3>1, ByValueIsSeq DEF Plain
    <3>3. Plain(payment.coins) \in Seq(payment.coins)
      BY <3>2
    <3>. QED  BY <2>1, <3>3, FewestIsSeq
  <2>5. ByValue(s) \o Fewest(Plain(payment.coins), sums) \in Seq(payment.coins)
    <3>1. \A u, v \in Seq(payment.coins) : u \o v \in Seq(payment.coins)
      OBVIOUS
    <3>. QED  BY <2>3, <2>4, <3>1
  <2>6. maxFare \in [currency : Currencies, units : Nat] /\ kind \in {"lockup", "payment"}
        /\ (kind = "lockup" => payment.delivery # "sponsored")
    BY <1>0, <2>2 DEF Currencies
  <2> HIDE DEF maxFare, kind
  <2>. QED  BY <2>1, <2>5, <2>6, RequestsAreAsks
<1>. QED  BY <1>1, <1>2 DEF PlansOf

-----------------------------------------------------------------------------
(* What a sender signs. *)

Fares == [currency : Currencies, units : Nat]
TermsSet ==
    [receiver : Strangers, sender : {"sender", "maker", "other"}, operator : {"operator", "other"},
     signer : {"signer"}, topup : Int, payment : Nat, asset : Currencies, locktime : Int,
     exitDelay : Int, mode : Modes, recovery : {"sender", "receiver"},
     fareIn : {"none", "sats", "asset"}, fareUnits : Nat]

\* A quote's amounts are numbers, whatever they say, and it spends two coins.
IsOffer(q) ==
    /\ q.p \in TermsSet /\ q.p.fareIn = "none" /\ q.fare \in Fares
    /\ \E c, o : q.envelope.tx.ins = <<c, o>> /\ IsCoin(o)

\* The amounts of the transaction the sender rebuilds are numbers.
LEMMA ExpectedAreNumbers ==
    ASSUME NEW r \in TransferAsks, NEW q, IsOffer(q), OperatorCoin(q).sats \in Int
    PROVE  /\ ExpectedFare(r, q) \in Nat /\ ExpectedSenderFare(r, q) \in Nat
           /\ ExpectedSenderChange(r, q) \in Int /\ ExpectedOperatorChange(r, q) \in Int
           /\ \A a \in Assets : ExpectedFareUnits(q, a) \in Int /\ ExpectedUnits(r, q, a) \in Int
           /\ ExpectedAssetChange(r, q) \in [Assets -> Int]
           /\ ExpectedPaid(r, q) \in [Assets -> Int] /\ ExpectedFareHeld(q) \in [Assets -> Int]
<1>1. /\ r.coin.sats \in Nat /\ r.coin.held \in [Assets -> Nat] /\ r.units \in Nat
      /\ q.p.topup \in Int /\ q.p.payment \in Nat /\ q.fare.units \in Nat
  BY DEF TransferAsks, CoinsOf, IsOffer, TermsSet, Fares
<1>2. Dust \in Nat /\ VtxoMin \in Nat
  BY DustAssumption
<1>3. ExpectedFare(r, q) \in Nat /\ ExpectedSenderFare(r, q) \in Nat
  BY <1>1, <1>2 DEF ExpectedFare, ExpectedSenderFare
<1>4. ExpectedSenderChange(r, q) \in Int /\ ExpectedOperatorChange(r, q) \in Int
  BY <1>1, <1>2, <1>3 DEF ExpectedSenderChange, ExpectedOperatorChange
<1>5. \A a \in Assets : ExpectedFareUnits(q, a) \in Int
  BY <1>1 DEF ExpectedFareUnits
<1>6. \A a \in Assets : ExpectedUnits(r, q, a) \in Int
  BY <1>1, <1>5 DEF ExpectedUnits
<1>7. ExpectedAssetChange(r, q) \in [Assets -> Int]
  BY <1>1, <1>5, <1>6 DEF ExpectedAssetChange
<1>. QED  BY <1>3, <1>4, <1>5, <1>6, <1>7 DEF ExpectedPaid, ExpectedFareHeld

\* What the sender gives up in the transaction it rebuilt, from both of its coins.
LEMMA SigningCosts ==
    ASSUME NEW r \in TransferAsks, NEW q, IsOffer(q), Verifies(r, q)
    PROVE  /\ q.envelope.tx.outs[1] = Coin(IF r.kind = "lockup" THEN "covenant" ELSE q.p.receiver,
                                            Dust + q.p.payment, ExpectedPaid(r, q))
           /\ SatsOut(q.envelope.tx, "sender")
                 = Dust + q.p.payment - q.p.topup + ExpectedSenderFare(r, q)
           /\ \A a \in Assets : HeldOut(q.envelope.tx, "sender")[a]
                                   = ExpectedFareUnits(q, a) + ExpectedUnits(r, q, a)
<1> DEFINE tx == q.envelope.tx
           o == OperatorCoin(q)
           fare == ExpectedFare(r, q)
           merged == IF MergesChange(r, q) THEN ExpectedOperatorChange(r, q) ELSE 0
           change == ExpectedAssetChange(r, q)
           left == ExpectedSenderChange(r, q)
           c1 == Coin(IF r.kind = "lockup" THEN "covenant" ELSE q.p.receiver, Dust + q.p.payment,
                      ExpectedPaid(r, q))
           c2 == Coin("operator", fare + merged, ExpectedFareHeld(q))
           c3 == Coin(r.coin.key, left, change)
           c4 == Coin(o.key, ExpectedOperatorChange(r, q), Nothing)
           b2 == fare > 0
           b3 == left > 0 \/ change # Nothing
           b4 == ExpectedOperatorChange(r, q) > 0 /\ merged = 0
<1>1. /\ tx.ins = <<r.coin, o>> /\ IsCoin(o) /\ o.key = "operator"
      /\ tx.outs = RebuiltOuts(r, q) /\ left >= 0 /\ q.p.receiver = r.receiver
      /\ \A a \in Assets : change[a] >= 0
  BY DEF Verifies, VerifiesTerms, Validates, IsOffer, OperatorCoin
<1>2. /\ IsCoin(r.coin) /\ r.coin.key = "sender" /\ r.receiver # "sender"
  BY DEF TransferAsks, CoinsOf, IsCoin, Strangers
<1>3. /\ fare \in Nat /\ ExpectedSenderFare(r, q) \in Nat
      /\ left \in Int /\ ExpectedOperatorChange(r, q) \in Int
      /\ \A a \in Assets : ExpectedFareUnits(q, a) \in Int /\ ExpectedUnits(r, q, a) \in Int
      /\ change \in [Assets -> Int]
      /\ ExpectedPaid(r, q) \in [Assets -> Int] /\ ExpectedFareHeld(q) \in [Assets -> Int]
  BY <1>1, ExpectedAreNumbers DEF IsCoin
<1>4. tx.outs = <<c1>> \o Perhaps(b2, c2) \o Perhaps(b3, c3) \o Perhaps(b4, c4)
  BY <1>1 DEF RebuiltOuts, Perhaps
<1>5. /\ q.p.payment \in Nat /\ q.p.topup \in Int /\ Dust \in Nat
      /\ r.coin.sats \in Int /\ r.coin.held \in [Assets -> Int]
  BY <1>2, DustAssumption DEF IsOffer, IsCoin, TermsSet
<1>6. IsCoin(c1) /\ IsCoin(c2) /\ IsCoin(c3) /\ IsCoin(c4)
  BY <1>3, <1>5 DEF IsCoin, Coin, Nothing
<1>7. c1.key # "sender" /\ c2.key = "operator" /\ c3.key = "sender" /\ c4.key = "operator"
  BY <1>1, <1>2 DEF Coin
<1>9. /\ b2 \in BOOLEAN /\ b3 \in BOOLEAN /\ b4 \in BOOLEAN
  OBVIOUS
<1>8. tx.outs[1] = c1
  <2> HIDE DEF c1, c2, c3, c4, b2, b3, b4
  <2>. QED  BY <1>4, <1>9, FirstOfOutputs
<1>10. c3.sats = left /\ c3.held = change
  BY DEF Coin
<1>11. (~b3 => left = 0 /\ \A a \in Assets : change[a] = 0)
  BY <1>1, <1>3 DEF Nothing
<1>12. left = r.coin.sats + q.p.topup - (Dust + q.p.payment) - ExpectedSenderFare(r, q)
  BY DEF ExpectedSenderChange
<1>13. \A a \in Assets : change[a] = r.coin.held[a] - ExpectedFareUnits(q, a) - ExpectedUnits(r, q, a)
  BY DEF ExpectedAssetChange
<1> HIDE DEF tx, o, fare, merged, change, left, c1, c2, c3, c4, b2, b3, b4
<1>14. /\ SatsOf("sender", tx.outs) = left
       /\ \A a \in Assets : HeldOf("sender", tx.outs)[a] = change[a]
  <2>1. /\ SatsOf("sender", tx.outs) = SatsTo("sender", c1) + (IF b2 THEN SatsTo("sender", c2) ELSE 0)
             + (IF b3 THEN SatsTo("sender", c3) ELSE 0) + (IF b4 THEN SatsTo("sender", c4) ELSE 0)
        /\ \A a \in Assets :
              HeldOf("sender", tx.outs)[a] = HeldTo("sender", c1, a)
                 + (IF b2 THEN HeldTo("sender", c2, a) ELSE 0)
                 + (IF b3 THEN HeldTo("sender", c3, a) ELSE 0)
                 + (IF b4 THEN HeldTo("sender", c4, a) ELSE 0)
    <3> DEFINE s == <<c1>> \o Perhaps(b2, c2) \o Perhaps(b3, c3) \o Perhaps(b4, c4)
    <3>1. /\ SatsOf("sender", s) = SatsTo("sender", c1) + (IF b2 THEN SatsTo("sender", c2) ELSE 0)
               + (IF b3 THEN SatsTo("sender", c3) ELSE 0) + (IF b4 THEN SatsTo("sender", c4) ELSE 0)
          /\ \A a \in Assets :
                HeldOf("sender", s)[a] = HeldTo("sender", c1, a)
                   + (IF b2 THEN HeldTo("sender", c2, a) ELSE 0)
                   + (IF b3 THEN HeldTo("sender", c3, a) ELSE 0)
                   + (IF b4 THEN HeldTo("sender", c4, a) ELSE 0)
      BY <1>6, <1>9, SumsOfOutputs
    <3>2. tx.outs = s
      BY <1>4
    <3> HIDE DEF s
    <3>. QED  BY <3>1, <3>2
  <2>2. /\ SatsTo("sender", c1) = 0 /\ SatsTo("sender", c2) = 0 /\ SatsTo("sender", c4) = 0
        /\ SatsTo("sender", c3) = left
        /\ \A a \in Assets : /\ HeldTo("sender", c1, a) = 0 /\ HeldTo("sender", c2, a) = 0
                             /\ HeldTo("sender", c4, a) = 0 /\ HeldTo("sender", c3, a) = change[a]
    BY <1>7, <1>10 DEF SatsTo, HeldTo
  <2>. QED  BY <1>3, <1>9, <1>11, <2>1, <2>2
<1>15. /\ SatsOf("sender", tx.ins) = r.coin.sats
       /\ \A a \in Assets : HeldOf("sender", tx.ins)[a] = r.coin.held[a]
  <2>1. /\ SatsOf("sender", tx.ins) = SatsTo("sender", r.coin) + SatsTo("sender", o)
        /\ \A a \in Assets : HeldOf("sender", tx.ins)[a] = HeldTo("sender", r.coin, a) + HeldTo("sender", o, a)
    BY <1>1, <1>2, SumsOfInputs
  <2>2. /\ SatsTo("sender", r.coin) = r.coin.sats /\ SatsTo("sender", o) = 0
        /\ \A a \in Assets : HeldTo("sender", r.coin, a) = r.coin.held[a] /\ HeldTo("sender", o, a) = 0
    BY <1>1, <1>2 DEF SatsTo, HeldTo
  <2>. QED  BY <1>5, <2>1, <2>2
<1>16. SatsOut(tx, "sender") = Dust + q.p.payment - q.p.topup + ExpectedSenderFare(r, q)
  BY <1>3, <1>5, <1>12, <1>14, <1>15 DEF SatsOut
<1>17. \A a \in Assets : HeldOut(tx, "sender")[a] = ExpectedFareUnits(q, a) + ExpectedUnits(r, q, a)
  BY <1>3, <1>5, <1>13, <1>14, <1>15 DEF HeldOut, Without
<1>. QED  BY <1>8, <1>16, <1>17 DEF tx, c1
\* A sender that verified a quote signs what it asked for, at the price it authorised.
LEMMA SignedPays ==
    ASSUME ask \in TransferAsks, IsOffer(quote), Verifies(ask, quote) PROVE SignedPaysAsAsked
<1> DEFINE tx == quote.envelope.tx
           first == tx.outs[1]
           fare == IF ask.maxFare.currency = Sats THEN Nothing
                   ELSE Only(ask.maxFare.currency, ask.maxFare.units)
           extra == Without(HeldOut(tx, "sender"), Promised)
<1>1. /\ first = Coin(IF ask.kind = "lockup" THEN "covenant" ELSE quote.p.receiver,
                      Dust + quote.p.payment, ExpectedPaid(ask, quote))
      /\ SatsOut(tx, "sender") = Dust + quote.p.payment - quote.p.topup + ExpectedSenderFare(ask, quote)
      /\ \A a \in Assets : HeldOut(tx, "sender")[a] = ExpectedFareUnits(quote, a) + ExpectedUnits(ask, quote, a)
  BY SigningCosts
<1>2. /\ ask.kind \in {"lockup", "payment"} /\ ask.asset \in Currencies /\ ask.payment \in Nat
      /\ ask.units \in Nat /\ ask.coin.held \in [Assets -> Nat] /\ ask.coin.key = "sender"
      /\ ask.mode \in Modes /\ ask.maxFare.currency \in Currencies /\ ask.maxFare.units \in Nat
      /\ (ask.asset = Sats <=> ask.payment > 0)
  BY DEF TransferAsks, CoinsOf
<1>3. /\ quote.p.receiver = ask.receiver /\ quote.p.sender = "sender" /\ quote.p.asset = ask.asset
      /\ (ask.payment > 0 => quote.p.topup = Dust /\ quote.p.payment = ask.payment)
      /\ quote.fare.currency = ask.maxFare.currency /\ quote.fare.units <= ask.maxFare.units
      /\ (ask.kind = "lockup" =>
             /\ quote.p.locktime >= ask.minLocktime /\ quote.p.exitDelay >= ask.minExitDelay
             /\ (ask.mode # "either" => quote.p.mode = ask.mode)
             /\ ValidParams(quote.p) /\ tx.terms = quote.p)
      /\ (quote.envelope.payer # "none" => quote.fare.currency = Sats /\ quote.fare.units > 0)
  BY <1>2 DEF Verifies, VerifiesTerms, Validates
<1>4. /\ quote.p.topup \in Int /\ quote.p.payment \in Nat /\ quote.fare.units \in Nat /\ Dust \in Nat
  BY DustAssumption DEF IsOffer, TermsSet, Fares
<1>5. (ask.kind = "lockup" => quote.p.topup = Dust /\ (quote.p.payment > 0 => quote.p.asset = Sats))
  BY <1>3 DEF ValidParams
<1>6. SatsAgreed = quote.p.payment + (Dust - quote.p.topup)
  BY <1>2, <1>3, <1>4, <1>5 DEF SatsAgreed
<1>7. first.sats = quote.p.topup + SatsAgreed
  BY <1>1, <1>4, <1>6 DEF Coin
<1>8. ExpectedPaid(ask, quote) = Promised
  <2>1. CASE ask.asset = Sats
    BY <1>3, <2>1, AssetsAssumption DEF ExpectedPaid, Promised, ExpectedUnits, Nothing
  <2>2. CASE ask.asset # Sats
    <3>1. ask.asset \in Assets
      BY <1>2, <2>2 DEF Currencies
    <3> DEFINE n == IF ask.units > 0 THEN ask.units
                    ELSE ask.coin.held[ask.asset]
                         - (IF quote.fare.currency = ask.asset THEN quote.fare.units ELSE 0)
    <3>2. \A a \in Assets : ExpectedUnits(ask, quote, a) = IF a = ask.asset THEN n ELSE 0
      BY <1>3 DEF ExpectedUnits, ExpectedFareUnits
    <3>3. Promised = Only(ask.asset, n)
      BY <2>2 DEF Promised
    <3> HIDE DEF n
    <3>4. Only(ask.asset, n) = [a \in Assets |-> IF a = ask.asset THEN n ELSE 0]
      BY <3>1 DEF Only, Nothing
    <3>. QED  BY <3>2, <3>3, <3>4 DEF ExpectedPaid
  <2>. QED  BY <2>1, <2>2
<1>9. first.held = Promised
  BY <1>1, <1>8 DEF Coin
<1>10. /\ SatsOut(tx, "sender") >= SatsAgreed
       /\ SatsOut(tx, "sender") <= SatsAgreed + (IF ask.maxFare.currency = Sats
                                                  THEN ask.maxFare.units ELSE 0)
  <2>1. /\ ExpectedSenderFare(ask, quote) \in Nat
        /\ ExpectedSenderFare(ask, quote) <= (IF ask.maxFare.currency = Sats THEN ask.maxFare.units ELSE 0)
    <3>1. CASE quote.envelope.payer = "none"
      BY <1>2, <3>1 DEF ExpectedSenderFare
    <3>2. CASE quote.envelope.payer # "none"
      <4>1. quote.fare.currency = Sats /\ quote.fare.units > 0 /\ quote.fare.units \in Nat
        BY <1>3, <1>4, <3>2
      <4>2. ExpectedFare(ask, quote) = quote.fare.units
        BY <4>1 DEF ExpectedFare
      <4>3. ExpectedSenderFare(ask, quote) = quote.fare.units
        BY <3>2, <4>2 DEF ExpectedSenderFare
      <4>. QED  BY <1>2, <1>3, <4>1, <4>3
    <3>. QED  BY <3>1, <3>2
  <2>. QED  BY <1>1, <1>2, <1>4, <1>6, <2>1
<1>11. ASSUME NEW a \in Assets PROVE extra[a] >= 0 /\ extra[a] <= fare[a]
  <2>1. ExpectedUnits(ask, quote, a) = Promised[a] /\ ExpectedUnits(ask, quote, a) \in Int
    <3>1. ExpectedPaid(ask, quote)[a] = ExpectedUnits(ask, quote, a)
      BY DEF ExpectedPaid
    <3>2. ExpectedUnits(ask, quote, a) \in Int
      BY <1>2, <1>4 DEF ExpectedUnits, ExpectedFareUnits
    <3>. QED  BY <1>8, <3>1, <3>2
  <2>2. ExpectedFareUnits(quote, a) \in Nat
    BY <1>4 DEF ExpectedFareUnits
  <2>3. extra[a] = ExpectedFareUnits(quote, a)
    BY <1>1, <2>1, <2>2 DEF Without
  <2>4. ExpectedFareUnits(quote, a) <= fare[a]
    <3>1. CASE ask.maxFare.currency = Sats
      BY <1>3, <3>1, AssetsAssumption DEF ExpectedFareUnits, Nothing
    <3>2. CASE ask.maxFare.currency # Sats
      <4>1. ask.maxFare.currency \in Assets
        BY <1>2, <3>2 DEF Currencies
      <4>2. fare[a] = IF a = ask.maxFare.currency THEN ask.maxFare.units ELSE 0
        BY <3>2, <4>1 DEF Only, Nothing
      <4>. QED  BY <1>2, <1>3, <1>4, <4>2 DEF ExpectedFareUnits
    <3>. QED  BY <3>1, <3>2
  <2>. QED  BY <2>2, <2>3, <2>4
<1>12. IF ask.kind = "payment" THEN first.key = ask.receiver
       ELSE /\ first.key = "covenant" /\ tx.terms.receiver = ask.receiver
            /\ tx.terms.sender = "sender" /\ tx.terms.asset = ask.asset
            /\ tx.terms.payment = ask.payment /\ tx.terms.locktime >= ask.minLocktime
            /\ tx.terms.exitDelay >= ask.minExitDelay
            /\ ask.mode \in {"either", tx.terms.mode}
  <2>1. CASE ask.kind = "payment"
    BY <1>1, <1>3, <2>1 DEF Coin
  <2>2. CASE ask.kind = "lockup"
    <3>1. quote.p.payment = ask.payment
      BY <1>2, <1>3, <1>4, <1>5, <2>2
    <3>2. first.key = "covenant"
      BY <1>1, <2>2 DEF Coin
    <3>. QED  BY <1>2, <1>3, <2>2, <3>1, <3>2
  <2>. QED  BY <1>2, <2>1, <2>2
<1> HIDE DEF tx, first, fare, extra
<1>. QED  BY <1>7, <1>9, <1>10, <1>11, <1>12 DEF SignedPaysAsAsked, tx, first, fare, extra
-----------------------------------------------------------------------------
(* What the service and a service that lies may quote. *)

RequestSet ==
    {r \in [kind : {"lockup", "payment"}, coin : CoinsOf({"sender"}),
            operator : CoinsOf({"operator", "other"}), units : Nat, fare : Fares,
            payer : {"none", "sender"}, p : TermsSet] : r.p.fareIn = "none"}

\* A fare of the policy is a currency and a whole number that is not negative.
LEMMA FareIsWhole ==
    ASSUME NEW rule \in Rules, NEW asset \in Currencies, NEW units \in Nat,
           Resolvable(rule.fare, asset, units)
    PROVE  ResolveFare(rule.fare, asset, units) \in Fares
<1> DEFINE o == rule.fare
<1>1. /\ o.currency \in Currencies \cup {"same"} /\ o.bps \in Int /\ o.least \in Int /\ o.most \in Int
  BY AsksAssumption DEF Policies
<1>2. ValidOption(o) /\ (o.currency = "same" => asset # Sats)
  BY DEF Resolvable
<1>3. (IF o.currency = "same" THEN asset ELSE o.currency) \in Currencies
  BY <1>1
<1>4. (FareBase(o, units) * o.bps) \div Parts \in Int
  <2>1. FareBase(o, units) \in Int
    BY DustAssumption DEF FareBase
  <2>2. FareBase(o, units) * o.bps \in Int
    BY <1>1, <2>1
  <2>. QED  BY <2>2 DEF Parts
<1>5. (IF o.bps < 0 THEN o.least
       ELSE Clamp((FareBase(o, units) * o.bps) \div Parts, o.least, o.most)) \in Nat
  BY <1>1, <1>2, <1>4 DEF ValidOption, Clamp
<1>. QED  BY <1>3, <1>5 DEF ResolveFare, Fares

\* The request the service builds for an ask it admits.
LEMMA BuiltIsRequest ==
    ASSUME NEW r \in TransferAsks, NEW rule \in Rules, NEW operator \in OperatorCoins,
           Admitted(r, rule)
    PROVE  BuildRequest(r, rule, operator) \in RequestSet
<1> DEFINE fare == ResolveFare(rule.fare, r.asset, r.units)
           p == [receiver |-> r.receiver, sender |-> r.coin.key, operator |-> "operator",
                signer |-> "signer", topup |-> Dust, payment |-> PaymentSats(r),
                asset |-> r.asset, locktime |-> 2, exitDelay |-> 2,
                mode |-> ClaimMode(rule.claim, r.mode), recovery |-> "sender",
                fareIn |-> "none", fareUnits |-> 0]
<1>1. /\ r.kind \in {"lockup", "payment"} /\ r.receiver \in Strangers /\ r.asset \in Currencies
      /\ r.payment \in Nat /\ r.units \in Nat /\ r.coin \in CoinsOf({"sender"})
      /\ r.coin.sats \in Nat /\ r.coin.key = "sender" /\ r.mode \in Modes
  BY DEF TransferAsks, CoinsOf
<1>2. fare \in Fares
  BY <1>1, FareIsWhole DEF Admitted
<1>3. p \in TermsSet /\ p.fareIn = "none"
  <2>1. PaymentSats(r) \in Nat
    BY <1>1 DEF PaymentSats
  <2>2. ClaimMode(rule.claim, r.mode) \in Modes
    BY <1>1, AsksAssumption DEF ClaimMode, Policies, Modes
  <2>. QED  BY <1>1, <2>1, <2>2, DustAssumption DEF TermsSet
<1>4. operator \in CoinsOf({"operator", "other"})
  BY OperatorCoinsAssumption DEF CoinsOf, Nothing
<1>5. BuildRequest(r, rule, operator) =
        [kind |-> r.kind, coin |-> r.coin, operator |-> operator, units |-> r.units, fare |-> fare,
         payer |-> IF fare.currency = Sats /\ fare.units > 0 THEN "sender" ELSE "none", p |-> p]
  BY DEF BuildRequest
<1> HIDE DEF fare, p
<1>. QED  BY <1>1, <1>2, <1>3, <1>4, <1>5 DEF RequestSet

\* Terms that are off in one respect are terms.
LEMMA OthersAreTerms ==
    ASSUME NEW p \in TermsSet, NEW t \in OtherTerms(p)
    PROVE  t \in TermsSet /\ t.fareIn = p.fareIn
BY DEF OtherTerms, TermsSet, Strangers, Modes, Currencies

\* A row that differs in one field from a stored one is a row as well.
LEMMA OthersAreRequests ==
    ASSUME NEW r \in RequestSet, NEW s \in OtherRequests(r)
    PROVE  s \in RequestSet
<1>1. CASE s \in {[r EXCEPT !.p = p] : p \in OtherTerms(r.p)}
  BY <1>1, OthersAreTerms DEF RequestSet
<1>2. CASE s = [r EXCEPT !.operator.key = "other"]
  BY <1>2 DEF RequestSet, CoinsOf
<1>3. CASE s = [r EXCEPT !.coin.sats = @ + 1]
  BY <1>3 DEF RequestSet, CoinsOf
<1>4. CASE s = [r EXCEPT !.fare.units = @ + 1]
  BY <1>4 DEF RequestSet, Fares
<1>5. CASE s \in {[r EXCEPT !.fare.currency = c] : c \in Assets \cup {Sats}}
  BY <1>5 DEF RequestSet, Fares, Currencies
<1>6. CASE \/ s = [r EXCEPT !.payer = IF @ = "none" THEN "sender" ELSE "none"]
           \/ s = [r EXCEPT !.units = @ + 1]
  BY <1>6 DEF RequestSet
<1>. QED  BY <1>1, <1>2, <1>3, <1>4, <1>5, <1>6 DEF OtherRequests

\* Whatever is built from a request is an offer.
LEMMA QuotesAreOffers ==
    ASSUME NEW r \in RequestSet PROVE IsOffer(QuoteOf(r))
<1>1. r.p \in TermsSet /\ r.p.fareIn = "none" /\ r.fare \in Fares /\ IsCoin(r.operator)
  BY DEF RequestSet, IsCoin, CoinsOf
<1>2. /\ QuoteOf(r).p = r.p /\ QuoteOf(r).fare = r.fare
      /\ QuoteOf(r).envelope.tx.ins = <<r.coin, r.operator>>
  BY DEF QuoteOf, Envelope
<1>. QED  BY <1>1, <1>2 DEF IsOffer

\* So is a quote that says one thing and carries another.
LEMMA MislabelledAreOffers ==
    ASSUME NEW r \in RequestSet, NEW q \in Mislabelled(QuoteOf(r)) PROVE IsOffer(q)
<1> DEFINE h == QuoteOf(r)
<1>1. IsOffer(h)
  BY QuotesAreOffers
<1>2. /\ DOMAIN h = {"p", "fare", "address", "envelope", "live"}
      /\ h.p = r.p /\ h.fare = r.fare /\ DOMAIN h.envelope = {"tx", "payer", "units"}
      /\ DOMAIN h.envelope.tx = {"ins", "outs", "terms"}
      /\ h = [p |-> h.p, fare |-> h.fare, address |-> h.address, envelope |-> h.envelope, live |-> h.live]
      /\ h.envelope = [tx |-> h.envelope.tx, payer |-> h.envelope.payer, units |-> h.envelope.units]
      /\ h.envelope.tx = [ins |-> h.envelope.tx.ins, outs |-> h.envelope.tx.outs, terms |-> h.envelope.tx.terms]
  BY DEF QuoteOf, Envelope
<1> HIDE DEF h
<1>3. CASE q \in {[h EXCEPT !.p = p] : p \in OtherTerms(h.p)}
  BY <1>1, <1>2, <1>3, OthersAreTerms DEF IsOffer
<1>4. CASE q \in {[h EXCEPT !.p = p, !.address = p] : p \in OtherTerms(h.p)}
  BY <1>1, <1>2, <1>4, OthersAreTerms DEF IsOffer
<1>5. CASE q = [h EXCEPT !.fare.units = @ + 1]
  <2>1. q.p = h.p /\ q.envelope = h.envelope /\ q.fare = [h.fare EXCEPT !.units = @ + 1]
    BY <1>2, <1>5
  <2>2. q.fare \in Fares
    BY <1>1, <2>1 DEF IsOffer, Fares
  <2>. QED  BY <1>1, <2>1, <2>2 DEF IsOffer
<1>6. CASE q = [h EXCEPT !.live = FALSE]
  BY <1>1, <1>2, <1>6 DEF IsOffer
<1>7. CASE q = [h EXCEPT !.envelope.units = @ + 1]
  BY <1>1, <1>2, <1>7 DEF IsOffer
<1>8. CASE q = [h EXCEPT !.envelope.tx.outs = Tail(@)]
  BY <1>1, <1>2, <1>8 DEF IsOffer
<1>9. CASE q \in {[h EXCEPT !.envelope.tx.outs[1].sats = @ - 1, !.envelope.tx.outs[i].sats = @ + 1] :
                     i \in DOMAIN h.envelope.tx.outs}
  <2> PICK i : q = [h EXCEPT !.envelope.tx.outs[1].sats = @ - 1, !.envelope.tx.outs[i].sats = @ + 1]
    BY <1>9
  <2>1. q.p = h.p /\ q.fare = h.fare
    BY <1>2
  <2>2. q.envelope.tx.ins = h.envelope.tx.ins
    BY <1>2
  <2>. QED  BY <1>1, <2>1, <2>2 DEF IsOffer
<1>10. CASE q \in {[h EXCEPT !.envelope.tx.outs[i].key = "other"] : i \in DOMAIN h.envelope.tx.outs}
  BY <1>1, <1>2, <1>10 DEF IsOffer
<1>. QED  BY <1>3, <1>4, <1>5, <1>6, <1>7, <1>8, <1>9, <1>10 DEF Mislabelled, h

-----------------------------------------------------------------------------
(* The maker. *)

\* A quote for a carrier, whatever it says: its fare is in the covenant exactly where
\* the receiver was asked to pay.
IsCarrier(q) == q.p \in TermsSet /\ (ask.payer = "receiver" => q.p.fareIn # "none")

\* The terms a carrier is offered are terms of a covenant (quoteReceive).
LEMMA CarriersAreTerms ==
    ASSUME NEW r \in CarrierAsks, NEW rule \in Rules, ReceiveOffered(r, rule)
    PROVE  /\ ReceiveParams(r, rule) \in TermsSet
           /\ ReceiveParams(r, rule).fareIn = "none" <=> r.payer = "sender"
<1>1. r.receiver \in Strangers /\ r.asset \in Currencies /\ r.payer \in {"sender", "receiver"}
  BY DEF CarrierAsks, Currencies
<1>2. ResolveFare(rule.fare, r.asset, 0) \in Fares
  BY <1>1, FareIsWhole DEF ReceiveOffered
<1> DEFINE fare == ResolveFare(rule.fare, r.asset, 0)
<1>3. ReceiveParams(r, rule) =
        [receiver |-> r.receiver, sender |-> "maker", operator |-> "operator", signer |-> "signer",
         topup |-> Dust, payment |-> 0, asset |-> r.asset, locktime |-> 2, exitDelay |-> 2,
         mode |-> "recycle", recovery |-> "receiver",
         fareIn |-> IF r.payer = "sender" THEN "none" ELSE IF fare.currency = Sats THEN "sats" ELSE "asset",
         fareUnits |-> IF r.payer = "sender" THEN 0 ELSE fare.units]
  BY DEF ReceiveParams
<1> HIDE DEF fare
<1>. QED  BY <1>1, <1>2, <1>3, DustAssumption DEF TermsSet, Fares, Modes, fare

\* A carrier that passed the maker's check is what the maker asked for.
LEMMA CarrierPasses ==
    ASSUME ask \in CarrierAsks, IsCarrier(quote), NEW rule \in Rules, VerifiesReceive(ask, quote, rule)
    PROVE  CarrierIsAsAsked
<1> DEFINE p == quote.p
           due == IF p.fareIn = "none" THEN 0 ELSE OperatorSats(p) - LoanSats(p) + AssetFare(p)
<1>1. /\ p.payment \in Nat /\ p.topup \in Int /\ p.fareUnits \in Nat
      /\ p.fareIn \in {"none", "sats", "asset"} /\ (ask.payer = "receiver" => p.fareIn # "none")
  BY DEF IsCarrier, TermsSet
<1>2. ask.asset \in Assets /\ ask.payer \in {"sender", "receiver"} /\ ask.asset # Sats
  BY AssetsAssumption DEF CarrierAsks
<1>3. /\ p.receiver = ask.receiver /\ p.asset = ask.asset /\ p.topup = Dust /\ p.mode = "recycle"
      /\ quote.payer = ask.payer /\ p.locktime >= ask.minLocktime
      /\ p.exitDelay >= ask.minExitDelay
      /\ (p.payment > 0 => p.asset = Sats)
  BY DEF VerifiesReceive, ValidParams
<1>4. p.payment = 0
  BY <1>1, <1>2, <1>3
<1>5. LockupSats(p) = Dust /\ LoanSats(p) = Dust /\ Disabled(p, "purchase")
  BY <1>3, <1>4, DustAssumption DEF LockupSats, LoanSats, Disabled
<1>6. CASE ask.payer = "sender"
  <2>1. quote.fareUnits <= ask.maxFare
    BY <1>3, <1>6 DEF VerifiesReceive
  <2>. QED  BY <1>3, <1>5, <1>6, <2>1 DEF CarrierIsAsAsked
<1>7. CASE ask.payer = "receiver"
  <2>1. quote.fareUnits = 0 /\ p.fareUnits = AdvertisedFare(rule.fare)
    BY <1>3, <1>7 DEF VerifiesReceive, AgreesWithPolicy, ReceiverFare
  <2>2. due = p.fareUnits
    BY <1>1, <1>7 DEF OperatorSats, LoanSats, AssetFare
  <2>. QED  BY <1>3, <1>5, <1>7, <2>1, <2>2 DEF CarrierIsAsAsked
<1>. QED  BY <1>2, <1>6, <1>7

-----------------------------------------------------------------------------
(* The invariant. *)

IsReading(r) == r \in [read : Rules, reused : BOOLEAN, now : Rules]

ValueInv ==
    /\ stage = "planning" => ask \in PlannedPayments
    /\ stage = "planned" => ask \in TransferAsks
    /\ stage \in {"asking", "quoted", "signed", "ready"} => ask \in TransferAsks \cup CarrierAsks
    /\ stage \in {"asking", "quoted"} /\ ask.kind = "fill" => IsReading(policy)
    /\ stage = "quoted" => IF ask.kind = "fill" THEN IsCarrier(quote) ELSE IsOffer(quote)
    /\ stage = "signed" => ask \in TransferAsks /\ IsOffer(quote) /\ Verifies(ask, quote)
    /\ stage = "ready" =>
          /\ ask \in CarrierAsks /\ IsCarrier(quote)
          /\ \E rule \in Rules : VerifiesReceive(ask, quote, rule)

\* A transfer, a carrier and a payment are told apart by their kind.
LEMMA KindsOfAsks ==
    /\ \A r \in TransferAsks : r.kind # "fill" /\ r.kind # "plan"
    /\ \A r \in CarrierAsks : r.kind = "fill"
    /\ \A r \in PlannedPayments : r.kind = "plan"
BY PaymentsAssumption DEF TransferAsks, CarrierAsks

\* The wallet begins with nothing signed.
LEMMA ValueStarts == Init => ValueInv
<1> SUFFICES ASSUME Init PROVE ValueInv
  OBVIOUS
<1>1. CASE stage = "planning" /\ ask \in PlannedPayments
  BY <1>1 DEF ValueInv
<1>2. CASE stage = "asking" /\ ask \in Asks
  <2>1. ask \in TransferAsks
    BY <1>2, AsksAssumption
  <2>. QED  BY <1>2, <2>1, KindsOfAsks DEF ValueInv
<1>3. CASE /\ stage = "asking" /\ ask \in ReceiveAsks
           /\ policy \in {[read |-> r, reused |-> b, now |-> n] : r, n \in Rules, b \in BOOLEAN}
  <2>1. ask \in CarrierAsks
    BY <1>3, AsksAssumption
  <2>2. IsReading(policy)
    BY <1>3 DEF IsReading
  <2>. QED  BY <1>3, <2>1, <2>2 DEF ValueInv
<1>. QED  BY <1>1, <1>2, <1>3 DEF Init

\* Every step keeps what the wallet knows of the ask and of the quote.
LEMMA ValueSteps == ValueInv /\ [Next]_vars => ValueInv'
<1> SUFFICES ASSUME ValueInv, [Next]_vars PROVE ValueInv'
  OBVIOUS
<1>1. ASSUME NEW rule \in Rules, Plan(rule) PROVE ValueInv'
  <2>1. ask' \in TransferAsks /\ stage' = "planned"
    BY <1>1, PlansAreAsks DEF Plan, ValueInv
  <2>. QED  BY <2>1 DEF ValueInv
<1>2. CASE AskForQuote
  <2>1. ask' \in TransferAsks /\ stage' = "asking"
    BY <1>2 DEF AskForQuote, ValueInv
  <2>. QED  BY <2>1, KindsOfAsks DEF ValueInv
<1>3. ASSUME NEW rule \in Rules, NEW operator \in OperatorCoins, Quote(rule, operator)
      PROVE  ValueInv'
  <2>1. /\ ask \in TransferAsks /\ ask' = ask /\ stage' = "quoted" /\ ask.kind # "fill"
        /\ Admitted(ask, rule) /\ quote' = QuoteOf(BuildRequest(ask, rule, operator))
    BY <1>3, KindsOfAsks DEF Quote, Answerable, ValueInv
  <2>2. IsOffer(quote')
    BY <2>1, BuiltIsRequest, QuotesAreOffers
  <2>3. IsOffer(quote)'
    BY <2>2 DEF IsOffer, IsCoin
  <2>. QED  BY <2>1, <2>3 DEF ValueInv
<1>4. ASSUME NEW rule \in Rules, NEW operator \in OperatorCoins, Misquote(rule, operator)
      PROVE  ValueInv'
  <2> DEFINE r == BuildRequest(ask, rule, operator)
  <2>1. /\ ask \in TransferAsks /\ ask' = ask /\ stage' = "quoted" /\ ask.kind # "fill"
        /\ Admitted(ask, rule)
        /\ quote' \in {QuoteOf(s) : s \in OtherRequests(r)} \cup Mislabelled(QuoteOf(r))
    BY <1>4, KindsOfAsks DEF Misquote, ValueInv
  <2>2. r \in RequestSet
    BY <2>1, BuiltIsRequest
  <2> HIDE DEF r
  <2>3. CASE quote' \in {QuoteOf(s) : s \in OtherRequests(r)}
    <3>1. PICK s \in OtherRequests(r) : quote' = QuoteOf(s)
      BY <2>3
    <3>2. IsOffer(quote')
      BY <2>2, <3>1, OthersAreRequests, QuotesAreOffers
    <3>3. IsOffer(quote)'
      BY <3>2 DEF IsOffer, IsCoin
    <3>. QED  BY <2>1, <3>3 DEF ValueInv
  <2>4. CASE quote' \in Mislabelled(QuoteOf(r))
    <3>1. IsOffer(quote')
      BY <2>2, <2>4, MislabelledAreOffers
    <3>2. IsOffer(quote)'
      BY <3>1 DEF IsOffer, IsCoin
    <3>. QED  BY <2>1, <3>2 DEF ValueInv
  <2>. QED  BY <2>1, <2>3, <2>4
<1>5. CASE Verify
  <2>1. /\ ask \in TransferAsks /\ IsOffer(quote) /\ ask' = ask /\ quote' = quote
        /\ stage' = IF Verifies(ask, quote) THEN "signed" ELSE "refused"
    BY <1>5, KindsOfAsks DEF Verify, ValueInv
  <2>2. IsOffer(quote)' /\ (Verifies(ask, quote) <=> Verifies(ask', quote'))
    BY <2>1
  <2>. QED  BY <2>1, <2>2, KindsOfAsks DEF ValueInv
<1>6. CASE Land
  BY <1>6 DEF Land, ValueInv
<1>7. ASSUME NEW e, Post(e) PROVE ValueInv'
  BY <1>7 DEF Post, ValueInv
<1>8. ASSUME NEW operator \in OperatorCoins, QuoteReceive(operator) PROVE ValueInv'
  <2>1. /\ ask \in CarrierAsks /\ ask' = ask /\ policy' = policy /\ stage' = "quoted"
        /\ IsReading(policy) /\ ReceiveOffered(ask, policy.now)
        /\ quote'.p = ReceiveParams(ask, policy.now)
    BY <1>8, KindsOfAsks DEF QuoteReceive, ReceiveQuote, ValueInv
  <2>2. policy.now \in Rules
    BY <2>1 DEF IsReading
  <2>3. IsCarrier(quote)'
    BY <2>1, <2>2, CarriersAreTerms DEF IsCarrier
  <2>. QED  BY <2>1, <2>3, KindsOfAsks DEF ValueInv, IsReading
<1>9. ASSUME NEW operator \in OperatorCoins, MisquoteReceive(operator) PROVE ValueInv'
  <2> DEFINE q == ReceiveQuote(ask, policy.now, operator)
  <2>1. /\ ask \in CarrierAsks /\ ask' = ask /\ policy' = policy /\ stage' = "quoted"
        /\ IsReading(policy) /\ ReceiveOffered(ask, policy.now)
        /\ quote' \in {[q EXCEPT !.p = p] : p \in OtherTerms(q.p)}
                       \cup {[q EXCEPT !.p = p, !.address = p] : p \in OtherTerms(q.p)}
                       \cup {[q EXCEPT !.fareUnits = @ + 1], [q EXCEPT !.receiverFare.units = @ + 1],
                             [q EXCEPT !.payer = IF @ = "sender" THEN "receiver" ELSE "sender"],
                             [q EXCEPT !.live = FALSE]}
    BY <1>9, KindsOfAsks DEF MisquoteReceive, ValueInv
  <2>2. policy.now \in Rules
    BY <2>1 DEF IsReading
  <2>3. q.p \in TermsSet /\ (ask.payer = "receiver" => q.p.fareIn # "none")
    BY <2>1, <2>2, CarriersAreTerms DEF ReceiveQuote, CarrierAsks
  <2>4. DOMAIN q = {"p", "payer", "fareUnits", "fareIn", "receiverFare", "address", "operator", "live"}
    BY DEF ReceiveQuote
  <2> HIDE DEF q
  <2>5. quote'.p = q.p \/ quote'.p \in OtherTerms(q.p)
    <3>1. CASE \E p \in OtherTerms(q.p) : quote' = [q EXCEPT !.p = p] \/ quote' = [q EXCEPT !.p = p, !.address = p]
      BY <2>4, <3>1
    <3>2. CASE quote' \in {[q EXCEPT !.fareUnits = @ + 1], [q EXCEPT !.receiverFare.units = @ + 1],
                           [q EXCEPT !.payer = IF @ = "sender" THEN "receiver" ELSE "sender"],
                           [q EXCEPT !.live = FALSE]}
      BY <2>4, <3>2
    <3>. QED  BY <2>1, <3>1, <3>2
  <2>6. IsCarrier(quote)'
    BY <2>1, <2>3, <2>5, OthersAreTerms DEF IsCarrier
  <2>. QED  BY <2>1, <2>6, KindsOfAsks DEF ValueInv, IsReading
<1>10. ASSUME NEW rule \in Rules, SetPolicy(rule) PROVE ValueInv'
  <2>1. /\ ask \in CarrierAsks /\ UNCHANGED <<ask, stage, quote>> /\ stage \in {"asking", "quoted"}
        /\ policy' = [policy EXCEPT !.now = rule] /\ IsReading(policy)
        /\ (stage = "quoted" => IsCarrier(quote))
    BY <1>10, KindsOfAsks DEF SetPolicy, ValueInv
  <2>2. IsReading(policy')
    BY <2>1 DEF IsReading
  <2>3. IsReading(policy)' /\ (stage' = "quoted" => IsCarrier(quote)')
    BY <2>1, <2>2 DEF IsReading, IsCarrier
  <2>. QED  BY <2>1, <2>3, KindsOfAsks DEF ValueInv
<1>11. CASE VerifyReceive
  <2>1. /\ ask \in CarrierAsks /\ UNCHANGED <<ask, quote>> /\ IsCarrier(quote) /\ IsReading(policy)
        /\ IF Accepts(quote) THEN stage' = "ready" ELSE stage' = "refused"
    BY <1>11, KindsOfAsks DEF VerifyReceive, ValueInv
  <2>2. policy.read \in Rules /\ policy.now \in Rules
    BY <2>1 DEF IsReading
  <2>3. CASE Accepts(quote)
    <3>1. PICK rule \in Rules : VerifiesReceive(ask, quote, rule)
      BY <2>2, <2>3 DEF Accepts
    <3>2. VerifiesReceive(ask', quote', rule) /\ IsCarrier(quote)'
      BY <2>1, <3>1 DEF IsCarrier
    <3>. QED  BY <2>1, <2>3, <3>2 DEF ValueInv
  <2>4. CASE ~Accepts(quote)
    BY <2>1, <2>4 DEF ValueInv
  <2>. QED  BY <2>3, <2>4
<1>12. ASSUME NEW g, Fill(g) PROVE ValueInv'
  BY <1>12 DEF Fill, ValueInv
<1>13. ASSUME NEW leaf, NEW tx, NEW by, SpendBy(leaf, tx, by) PROVE ValueInv'
  BY <1>13 DEF SpendBy, ValueInv
<1>14. CASE Purchase \/ Reclaim
  BY <1>13, <1>14 DEF Purchase, Reclaim
<1>15. ASSUME NEW fund, Recycle(fund) \/ Refund(fund) PROVE ValueInv'
  BY <1>13, <1>15 DEF Recycle, Refund
<1>16. ASSUME NEW leaf, NEW fund, OtherSpend(leaf, fund) PROVE ValueInv'
  BY <1>13, <1>16 DEF OtherSpend
<1>17. CASE UNCHANGED vars
  BY <1>17 DEF vars, ValueInv, IsReading, IsCarrier, IsOffer, IsCoin
<1>. QED
  BY <1>1, <1>2, <1>3, <1>4, <1>5, <1>6, <1>7, <1>8, <1>9, <1>10, <1>11, <1>12, <1>14, <1>15,
     <1>16, <1>17 DEF Next

\* Whatever the service quoted, what a sender signs and a maker passes on is what it asked
\* for and authorised, in sats and in every asset.
THEOREM SignedAlwaysAuthorised == Spec => []SignedIsAuthorised
<1>1. ValueInv => SignedIsAuthorised
  <2>1. CASE stage = "signed"
    BY <2>1, SignedPays DEF ValueInv, SignedIsAuthorised, CarrierIsAsAsked
  <2>2. CASE stage = "ready"
    BY <2>2, CarrierPasses DEF ValueInv, SignedIsAuthorised, SignedPaysAsAsked
  <2>3. CASE stage # "signed" /\ stage # "ready"
    BY <2>3 DEF SignedIsAuthorised, CarrierIsAsAsked, SignedPaysAsAsked
  <2>. QED  BY <2>1, <2>2, <2>3
<1>. QED  BY <1>1, ValueStarts, ValueSteps, PTL DEF Spec


-----------------------------------------------------------------------------
(* Honest answers: the sender rebuilds what the service planned, the maker agrees. *)

\* The sender rebuilds from an honest quote the transaction the service planned.
LEMMA RebuildsTheSame ==
    ASSUME NEW r \in TransferAsks, NEW b \in RequestSet,
           b.kind = r.kind, b.coin = r.coin, b.units = r.units, b.p.asset = r.asset,
           b.p.operator = "operator", b.payer = "sender" => b.fare.currency = Sats /\ b.fare.units > 0
    PROVE  LET q == QuoteOf(b)
               a == Amounts(b) IN
           /\ OperatorCoin(q) = b.operator
           /\ ExpectedSenderChange(r, q) = a.senderChange
           /\ ExpectedOperatorChange(r, q) = a.operatorChange
           /\ ExpectedAssetChange(r, q) = AssetChange(b)
           /\ RebuiltOuts(r, q) = PlanOuts(b)
           /\ r.asset # Sats => ExpectedUnits(r, q, r.asset) = a.paid
<1> DEFINE q == QuoteOf(b)
           a == Amounts(b)
<1>1. /\ q.p = b.p /\ q.fare = b.fare /\ q.envelope.payer = b.payer
      /\ q.envelope.tx.ins = <<b.coin, b.operator>>
  BY DEF QuoteOf, Envelope
<1>2. OperatorCoin(q) = b.operator
  BY <1>1 DEF OperatorCoin
<1> HIDE DEF q
<1>3. /\ b.payer \in {"none", "sender"} /\ b.fare.units \in Nat /\ b.fare.currency \in Currencies
      /\ b.p.topup \in Int /\ b.p.payment \in Nat /\ b.p.asset \in Currencies
      /\ r.coin.sats \in Nat /\ r.coin.held \in [Assets -> Nat] /\ r.units \in Nat
      /\ b.operator.sats \in Nat /\ b.kind \in {"lockup", "payment"}
      /\ Dust \in Nat /\ VtxoMin \in Nat
  BY DustAssumption DEF RequestSet, Fares, TermsSet, TransferAsks, CoinsOf
<1> DEFINE hosting == Hosting(b.kind, b.fare)
           senderFare == IF b.payer = "sender" THEN hosting ELSE 0
           change == b.operator.sats - b.p.topup - (hosting - senderFare)
           first == First(b.kind, b.p)
<1>4. /\ a.first = first /\ a.hosting = hosting /\ a.operatorChange = change
      /\ a.senderChange = b.coin.sats + b.p.topup - first.sats - senderFare
      /\ a.payout = OperatorPayoutSats(hosting, change, b.p.operator, b.operator.key)
      /\ a.paid = PaidUnits(b.p, b.fare, b.coin.held, b.units)
  BY DEF Amounts
<1>5. first = Coin(IF r.kind = "lockup" THEN "covenant" ELSE b.p.receiver, Dust + b.p.payment, Nothing)
  BY DEF First
<1>6. first.sats = Dust + b.p.payment
  BY <1>5 DEF Coin
<1> HIDE DEF a, first
<1>7. ExpectedFare(r, q) = hosting /\ hosting \in Nat
  BY <1>1, <1>3 DEF ExpectedFare, Hosting
<1>8. ExpectedSenderFare(r, q) = senderFare /\ senderFare \in Nat
  BY <1>1, <1>3, <1>7 DEF ExpectedSenderFare
<1> HIDE DEF hosting, senderFare
<1>9. ExpectedSenderChange(r, q) = a.senderChange
  BY <1>1, <1>3, <1>4, <1>6, <1>8 DEF ExpectedSenderChange
<1>10. ExpectedOperatorChange(r, q) = change
  BY <1>1, <1>2, <1>7, <1>8 DEF ExpectedOperatorChange
<1>a. change \in Int
  BY <1>3, <1>7, <1>8
<1>11. r.asset # Sats => ExpectedUnits(r, q, r.asset) = a.paid
  BY <1>1, <1>4 DEF ExpectedUnits, ExpectedFareUnits, PaidUnits, Bitcoin
<1>12. ExpectedPaid(r, q) = PaidHeld(b.p, a.paid)
  <2>1. CASE r.asset = Sats
    BY <1>1, <2>1, AssetsAssumption DEF ExpectedPaid, ExpectedUnits, PaidHeld, Bitcoin, Nothing
  <2>2. CASE r.asset # Sats
    <3>1. r.asset \in Assets
      BY <1>3, <2>2 DEF Currencies
    <3>2. PaidHeld(b.p, a.paid) = [x \in Assets |-> IF x = r.asset THEN a.paid ELSE 0]
      BY <2>2, <3>1 DEF PaidHeld, Bitcoin, Only, Nothing
    <3>3. \A x \in Assets : ExpectedUnits(r, q, x) = IF x = r.asset THEN a.paid ELSE 0
      BY <1>1, <1>11, <2>2 DEF ExpectedUnits
    <3>. QED  BY <3>2, <3>3 DEF ExpectedPaid
  <2>. QED  BY <2>1, <2>2
<1>13. ExpectedFareHeld(q) = FareHeld(b.fare)
  <2>1. CASE b.fare.currency = Sats
    BY <1>1, <2>1, AssetsAssumption DEF ExpectedFareHeld, ExpectedFareUnits, FareHeld, Nothing
  <2>2. CASE b.fare.currency # Sats
    <3>1. b.fare.currency \in Assets
      BY <1>3, <2>2 DEF Currencies
    <3>2. FareHeld(b.fare) = [x \in Assets |-> IF x = b.fare.currency THEN b.fare.units ELSE 0]
      BY <2>2, <3>1 DEF FareHeld, Only, Nothing
    <3>3. \A x \in Assets : ExpectedFareUnits(q, x) = IF x = b.fare.currency THEN b.fare.units ELSE 0
      BY <1>1 DEF ExpectedFareUnits
    <3>. QED  BY <3>2, <3>3 DEF ExpectedFareHeld
  <2>. QED  BY <2>1, <2>2
<1>14. ExpectedAssetChange(r, q) = AssetChange(b)
  <2>1. \A x \in Assets : /\ ExpectedFareUnits(q, x) = FareHeld(b.fare)[x]
                          /\ ExpectedUnits(r, q, x) = PaidHeld(b.p, a.paid)[x]
    <3>1. \A x \in Assets : /\ ExpectedFareHeld(q)[x] = ExpectedFareUnits(q, x)
                            /\ ExpectedPaid(r, q)[x] = ExpectedUnits(r, q, x)
      BY DEF ExpectedFareHeld, ExpectedPaid
    <3>. QED  BY <1>12, <1>13, <3>1
  <2>. QED  BY <2>1 DEF ExpectedAssetChange, AssetChange, Without, a
<1> DEFINE merged == IF MergesChange(r, q) THEN ExpectedOperatorChange(r, q) ELSE 0
<1>15. /\ hosting + merged = a.payout
       /\ change > 0 => (merged = 0 <=> a.payout = hosting)
  BY <1>1, <1>2, <1>4, <1>7, <1>10, <1>a DEF MergesChange, OperatorPayoutSats
<1>16. RebuiltOuts(r, q) = PlanOuts(b)
  <2>1. [a.first EXCEPT !.held = PaidHeld(b.p, a.paid)]
           = Coin(IF r.kind = "lockup" THEN "covenant" ELSE q.p.receiver, Dust + q.p.payment, ExpectedPaid(r, q))
    BY <1>1, <1>4, <1>5, <1>12 DEF Coin
  <2>2. Coin("operator", ExpectedFare(r, q) + merged, ExpectedFareHeld(q))
           = Coin(b.p.operator, a.payout, FareHeld(b.fare))
    BY <1>7, <1>13, <1>15
  <2>3. Coin(r.coin.key, ExpectedSenderChange(r, q), ExpectedAssetChange(r, q))
           = Coin(b.coin.key, a.senderChange, AssetChange(b))
    BY <1>9, <1>14
  <2>4. Coin(OperatorCoin(q).key, ExpectedOperatorChange(r, q), Nothing)
           = Coin(b.operator.key, a.operatorChange, Nothing)
    BY <1>2, <1>4, <1>10
  <2>5. /\ ExpectedFare(r, q) > 0 <=> a.hosting > 0
        /\ (ExpectedSenderChange(r, q) > 0 \/ ExpectedAssetChange(r, q) # Nothing)
              <=> (a.senderChange > 0 \/ AssetChange(b) # Nothing)
        /\ (ExpectedOperatorChange(r, q) > 0 /\ merged = 0)
              <=> (a.operatorChange > 0 /\ a.payout = a.hosting)
    BY <1>4, <1>7, <1>9, <1>10, <1>14, <1>15
  <2> DEFINE c1 == [a.first EXCEPT !.held = PaidHeld(b.p, a.paid)]
             c2 == Coin(b.p.operator, a.payout, FareHeld(b.fare))
             c3 == Coin(b.coin.key, a.senderChange, AssetChange(b))
             c4 == Coin(b.operator.key, a.operatorChange, Nothing)
  <2>6. PlanOuts(b) = <<c1>> \o (IF a.hosting > 0 THEN <<c2>> ELSE <<>>)
           \o (IF a.senderChange > 0 \/ AssetChange(b) # Nothing THEN <<c3>> ELSE <<>>)
           \o (IF a.operatorChange > 0 /\ a.payout = a.hosting THEN <<c4>> ELSE <<>>)
    BY DEF PlanOuts, a
  <2>7. RebuiltOuts(r, q) = <<c1>> \o (IF a.hosting > 0 THEN <<c2>> ELSE <<>>)
           \o (IF a.senderChange > 0 \/ AssetChange(b) # Nothing THEN <<c3>> ELSE <<>>)
           \o (IF a.operatorChange > 0 /\ a.payout = a.hosting THEN <<c4>> ELSE <<>>)
    <3>1. RebuiltOuts(r, q) =
             <<Coin(IF r.kind = "lockup" THEN "covenant" ELSE q.p.receiver, Dust + q.p.payment, ExpectedPaid(r, q))>>
             \o (IF ExpectedFare(r, q) > 0
                 THEN <<Coin("operator", ExpectedFare(r, q) + merged, ExpectedFareHeld(q))>> ELSE <<>>)
             \o (IF ExpectedSenderChange(r, q) > 0 \/ ExpectedAssetChange(r, q) # Nothing
                 THEN <<Coin(r.coin.key, ExpectedSenderChange(r, q), ExpectedAssetChange(r, q))>> ELSE <<>>)
             \o (IF ExpectedOperatorChange(r, q) > 0 /\ merged = 0
                 THEN <<Coin(OperatorCoin(q).key, ExpectedOperatorChange(r, q), Nothing)>> ELSE <<>>)
      BY DEF RebuiltOuts
    <3> HIDE DEF merged
    <3>. QED  BY <2>1, <2>2, <2>3, <2>4, <2>5, <3>1
  <2>. QED  BY <2>6, <2>7
<1>17. ExpectedOperatorChange(r, q) = a.operatorChange
  BY <1>4, <1>10
<1>. QED  BY <1>2, <1>9, <1>11, <1>14, <1>16, <1>17 DEF q, a

\* Two coins have their sats and their units together.
LEMMA TotalsOfTwo ==
    ASSUME NEW x, NEW y, IsCoin(x), IsCoin(y)
    PROVE  TotalSats(<<x, y>>) = x.sats + y.sats /\ TotalHeld(<<x, y>>) = Both(x.held, y.held)
<1> DEFINE S == {x, y}
           one == <<x>>
           two == <<y>>
<1>1. x \in S /\ y \in S /\ one \in Seq(S) /\ two \in Seq(S)
  OBVIOUS
<1>2. \A c \in S : c.sats \in Int /\ c.held \in [Assets -> Int]
  BY DEF IsCoin
<1>3. <<x, y>> = one \o two
  BY TwoInARow
<1>4. ASSUME NEW w \in [S -> Int] PROVE Total(Weighed(w, <<x, y>>)) = w[x] + w[y]
  <2>1. Total(Weighed(w, one)) = w[x] /\ Total(Weighed(w, two)) = w[y]
    BY <1>1, WeighedFew
  <2> HIDE DEF one, two
  <2>2. Total(Weighed(w, one \o two)) = Total(Weighed(w, one)) + Total(Weighed(w, two))
    BY <1>1, WeighedAdds
  <2>. QED  BY <1>3, <2>1, <2>2
<1>5. <<x, y>>[1] = x /\ <<x, y>>[2] = y /\ DOMAIN <<x, y>> = {1, 2}
  OBVIOUS
<1> DEFINE xy == <<x, y>>
<1>6. xy[1] = x /\ xy[2] = y /\ DOMAIN xy = {1, 2}
  BY <1>5
<1> HIDE DEF S, xy
<1>7. TotalSats(xy) = x.sats + y.sats
  <2> DEFINE w == [c \in S |-> c.sats]
  <2>1. w \in [S -> Int] /\ w[x] = x.sats /\ w[y] = y.sats
    BY <1>1, <1>2
  <2>2. Weighed(w, xy) = [i \in DOMAIN xy |-> xy[i].sats]
    BY <1>1, <1>6 DEF Weighed
  <2> HIDE DEF w
  <2>. QED  BY <1>4, <2>1, <2>2 DEF TotalSats, xy
<1>8. ASSUME NEW a \in Assets PROVE TotalHeld(xy)[a] = x.held[a] + y.held[a]
  <2> DEFINE w == [c \in S |-> c.held[a]]
  <2>1. w \in [S -> Int] /\ w[x] = x.held[a] /\ w[y] = y.held[a]
    BY <1>1, <1>2
  <2>2. Weighed(w, xy) = [i \in DOMAIN xy |-> xy[i].held[a]]
    BY <1>1, <1>6 DEF Weighed
  <2> HIDE DEF w
  <2>3. Total([i \in DOMAIN xy |-> xy[i].held[a]]) = w[x] + w[y]
    BY <1>4, <2>1, <2>2 DEF xy
  <2>. QED  BY <2>1, <2>3 DEF TotalHeld
<1>9. TotalHeld(xy) = Both(x.held, y.held)
  BY <1>8 DEF TotalHeld, Both
<1>. QED  BY <1>7, <1>9 DEF xy

\* The sender signs the transaction of an honest quote within its authorisation.
LEMMA HonestIsVerified ==
    ASSUME NEW r \in TransferAsks, NEW rule \in Rules, NEW operator \in OperatorCoins,
           Admitted(r, rule), Plannable(BuildRequest(r, rule, operator)),
           ResolveFare(rule.fare, r.asset, r.units).currency = r.maxFare.currency,
           ResolveFare(rule.fare, r.asset, r.units).units <= r.maxFare.units
    PROVE  Verifies(r, QuoteOf(BuildRequest(r, rule, operator)))
<1> DEFINE b == BuildRequest(r, rule, operator)
           q == QuoteOf(b)
           a == Amounts(b)
           fare == ResolveFare(rule.fare, r.asset, r.units)
<1>1. /\ r.kind \in {"lockup", "payment"} /\ r.payment \in Nat /\ r.units \in Nat
      /\ r.coin.sats \in Nat /\ r.coin.key = "sender" /\ r.mode \in Modes /\ IsCoin(r.coin)
      /\ r.recovery \in {"any", "sender"} /\ r.minLocktime \in 0 .. 2
      /\ r.minExitDelay \in 0 .. 2 /\ r.asset \in Currencies
      /\ (r.asset = Sats <=> r.payment > 0) /\ (r.asset = Sats => r.units = 0)
  BY DEF TransferAsks, CoinsOf, IsCoin
<1>2. operator.key = "operator" /\ IsCoin(operator)
  BY OperatorCoinsAssumption DEF IsCoin, Nothing
<1>3. b \in RequestSet
  BY BuiltIsRequest
<1>4. /\ b.kind = r.kind /\ b.coin = r.coin /\ b.units = r.units /\ b.operator = operator
      /\ b.fare = fare
      /\ (b.payer = "sender" => b.fare.currency = Sats /\ b.fare.units > 0)
      /\ b.p.asset = r.asset /\ b.p.operator = "operator" /\ b.p.receiver = r.receiver
      /\ b.p.sender = r.coin.key /\ b.p.topup = Dust /\ b.p.payment = PaymentSats(r)
      /\ b.p.locktime = 2 /\ b.p.exitDelay = 2 /\ b.p.recovery = "sender"
      /\ b.p.mode = ClaimMode(rule.claim, r.mode)
  BY DEF BuildRequest
<1>5. Plannable(b)
  OBVIOUS
<1> HIDE DEF b, fare
<1>6. /\ q.p = b.p /\ q.fare = b.fare /\ q.address = b.p /\ q.live /\ q.envelope.payer = b.payer
      /\ q.envelope.units = a.paid /\ q.envelope.tx.ins = <<r.coin, operator>>
      /\ q.envelope.tx.outs = PlanOuts(b)
      /\ q.envelope.tx.terms = IF r.kind = "lockup" THEN b.p ELSE NoTerms
  BY <1>4 DEF QuoteOf, Envelope
<1>7. /\ OperatorCoin(q) = b.operator
      /\ ExpectedSenderChange(r, q) = a.senderChange
      /\ ExpectedOperatorChange(r, q) = a.operatorChange
      /\ ExpectedAssetChange(r, q) = AssetChange(b)
      /\ RebuiltOuts(r, q) = PlanOuts(b)
      /\ r.asset # Sats => ExpectedUnits(r, q, r.asset) = a.paid
  BY <1>3, <1>4, RebuildsTheSame
<1> HIDE DEF q
<1>8. /\ b.payer \in {"none", "sender"} /\ b.fare.units \in Nat
  BY <1>3 DEF RequestSet, Fares
<1>9. VerifiesTerms(r, q)
  <2>1. r.payment > 0 => PaymentSats(r) = r.payment
    BY <1>1 DEF PaymentSats
  <2>2. r.mode # "either" => ClaimMode(rule.claim, r.mode) = r.mode
    BY DEF ClaimMode
  <2>3. Dust <= MaxTopup
    BY DEF Admitted
  <2>4. r.kind = "lockup" => ValidParams(b.p)
    BY <1>4, <1>5 DEF Plannable
  <2>5. 2 >= r.minLocktime /\ 2 >= r.minExitDelay
    BY <1>1
  <2>. QED  BY <1>1, <1>4, <1>6, <2>1, <2>2, <2>3, <2>4, <2>5 DEF VerifiesTerms, fare
<1>10. /\ a.senderChange >= 0 /\ a.operatorChange >= 0
       /\ (r.asset # Sats => r.coin.held[r.asset] > 0 /\ a.paid > 0)
       /\ \A asset \in Assets : AssetChange(b)[asset] >= 0
       /\ (AssetChange(b) # Nothing => a.senderChange >= VtxoMin)
       /\ \A i \in DOMAIN PlanOuts(b) : PlanOuts(b)[i].sats >= Floor(r.kind)
       /\ DistinctScripts(PlanOuts(b))
       /\ TotalSats(PlanOuts(b)) = TotalSats(<<r.coin, operator>>)
       /\ TotalHeld(PlanOuts(b)) = TotalHeld(<<r.coin, operator>>)
  BY <1>4, <1>5 DEF Plannable, Bitcoin
<1>11. /\ TotalSats(<<r.coin, operator>>) = r.coin.sats + operator.sats
       /\ TotalHeld(<<r.coin, operator>>) = Both(r.coin.held, operator.held)
  BY <1>1, <1>2, TotalsOfTwo
<1>12. a.paid = IF r.asset = Sats THEN r.units ELSE ExpectedUnits(r, q, r.asset)
  <2>1. r.asset = Sats => a.paid = 0
    BY <1>4 DEF Amounts, PaidUnits, Bitcoin
  <2>. QED  BY <1>1, <1>7, <2>1
<1> DEFINE outs == PlanOuts(b)
           change == AssetChange(b)
<1> HIDE DEF a, outs, change
<1>13. Validates(r, q)
  <2>1. /\ Len(q.envelope.tx.ins) = 2 /\ q.envelope.tx.ins[1] = r.coin
        /\ r.coin.key = q.p.sender /\ OperatorCoin(q).key = "operator"
        /\ (q.envelope.payer # "none" => q.fare.currency = Sats /\ q.fare.units > 0)
        /\ ExpectedSenderChange(r, q) >= 0 /\ ExpectedOperatorChange(r, q) >= 0
        /\ (q.p.asset # Sats => r.coin.held[q.p.asset] > 0)
    BY <1>2, <1>4, <1>6, <1>7, <1>8, <1>10
  <2>2. /\ q.envelope.units = (IF q.p.asset = Sats THEN r.units ELSE ExpectedUnits(r, q, q.p.asset))
        /\ (q.p.asset # Sats => ExpectedUnits(r, q, q.p.asset) > 0)
    BY <1>4, <1>6, <1>7, <1>10, <1>12
  <2>3. /\ ExpectedAssetChange(r, q) = change /\ RebuiltOuts(r, q) = outs
        /\ \A asset \in Assets : change[asset] >= 0
        /\ (change # Nothing => ExpectedSenderChange(r, q) >= VtxoMin)
        /\ \A i \in DOMAIN outs : outs[i].sats >= (IF r.kind = "lockup" THEN Dust ELSE VtxoMin)
        /\ DistinctScripts(outs)
        /\ TotalSats(outs) = r.coin.sats + OperatorCoin(q).sats
        /\ TotalHeld(outs) = Both(r.coin.held, OperatorCoin(q).held)
        /\ q.envelope.tx.outs = outs
        /\ q.envelope.tx.terms = (IF r.kind = "lockup" THEN q.p ELSE NoTerms)
    BY <1>4, <1>6, <1>7, <1>10, <1>11 DEF outs, change, Floor
  <2>. QED  BY <2>1, <2>2, <2>3 DEF Validates
<1>. QED  BY <1>6, <1>9, <1>13 DEF Verifies, q, b

\* The maker passes on an honest carrier whose policy it reads, within its ceiling.
LEMMA HonestCarrierIsVerified ==
    ASSUME NEW r \in CarrierAsks, NEW rule \in Rules, NEW operator \in OperatorCoins,
           ReceiveOffered(r, rule), ReceiveCovers(operator, ServiceFare(r, rule)),
           r.payer = "sender" => ServiceFare(r, rule) <= r.maxFare
    PROVE  VerifiesReceive(r, ReceiveQuote(r, rule, operator), rule)
<1> DEFINE q == ReceiveQuote(r, rule, operator)
           p == ReceiveParams(r, rule)
           fare == ResolveFare(rule.fare, r.asset, 0)
           o == rule.fare
<1>1. /\ r.receiver \in Strangers /\ r.asset \in Assets /\ r.payer \in {"sender", "receiver"}
      /\ r.maxFare \in Nat /\ r.minLocktime \in 0 .. 2 /\ r.minExitDelay \in 0 .. 2
      /\ r.asset # Sats
  BY AssetsAssumption DEF CarrierAsks
<1>2. fare \in Fares
  BY <1>1, FareIsWhole DEF ReceiveOffered, Currencies
<1>3. /\ ~rule.paused /\ rule.claim \in {"recycle", "either"} /\ Dust <= MaxTopup
      /\ IF r.payer = "receiver" THEN o.currency \in {Sats, "same"} ELSE o.currency = Sats
      /\ ValidOption(o) /\ (o.currency = "same" => o.bps < 0)
  <2>1. o.bps \in Int
    BY AsksAssumption DEF Policies
  <2>. QED  BY <2>1 DEF ReceiveOffered, ModeAllowed, ClaimMode, Resolvable
<1>4. o.currency \in {Sats, "same"}
  BY <1>1, <1>3
<1>5. fare.units = AdvertisedFare(o)
  BY <1>3, <1>4 DEF ResolveFare, AdvertisedFare, FareBase, Sats
<1>6. fare.currency = IF o.currency = "same" THEN r.asset ELSE Sats
  BY <1>4 DEF ResolveFare
<1>7. /\ p.receiver = r.receiver /\ p.sender = "maker" /\ p.operator = "operator" /\ p.signer = "signer"
      /\ p.topup = Dust /\ p.payment = 0 /\ p.asset = r.asset /\ p.locktime = 2 /\ p.exitDelay = 2
      /\ p.mode = "recycle" /\ p.recovery = "receiver"
      /\ p.fareIn = (IF r.payer = "sender" THEN "none" ELSE IF fare.currency = Sats THEN "sats" ELSE "asset")
      /\ p.fareUnits = (IF r.payer = "sender" THEN 0 ELSE fare.units)
  BY DEF ReceiveParams
<1>8. /\ q.p = p /\ q.payer = r.payer /\ q.fareUnits = ServiceFare(r, rule) /\ q.fareIn = Sats
      /\ q.receiverFare = ReceiverFare(p) /\ q.address = p /\ q.operator = operator /\ q.live
  BY DEF ReceiveQuote
<1> HIDE DEF q, p, fare
<1>9. ValidParams(p)
  <2>1. p.fareUnits >= 0
    BY <1>2, <1>7 DEF Fares
  <2>2. \A k, l \in {"receiver", "sender", "operator"} : k # l => p[k] # p[l]
    BY <1>1, <1>7 DEF Strangers
  <2>3. p.sender # p.signer /\ p.receiver # p.signer
    BY <1>1, <1>7 DEF Strangers
  <2>. QED  BY <1>1, <1>7, <2>1, <2>2, <2>3, DustAssumption DEF ValidParams
<1>10. operator.sats > 0
  <2>1. operator.sats \in Nat /\ ServiceFare(r, rule) \in Int
    <3>1. fare.units \in Nat
      BY <1>2 DEF Fares
    <3>. QED  BY <3>1, OperatorCoinsAssumption DEF ServiceFare, fare
  <2>. QED  BY <2>1, DustAssumption DEF ReceiveCovers
<1>11. AgreesWithPolicy(q, rule)
  <2>1. CASE r.payer = "receiver"
    <3>1. /\ q.receiverFare.units = AdvertisedFare(o)
          /\ q.receiverFare.currency = IF o.currency = "same" THEN r.asset ELSE Sats
      BY <1>1, <1>5, <1>6, <1>7, <1>8, <2>1 DEF ReceiverFare
    <3>2. ReceiveAsset([asset |-> q.p.asset], o.currency) = IF o.currency = "same" THEN r.asset ELSE Sats
      BY <1>4, <1>7, <1>8 DEF ReceiveAsset, Sats
    <3>. QED  BY <1>3, <1>8, <2>1, <3>1, <3>2 DEF AgreesWithPolicy
  <2>2. CASE r.payer = "sender"
    <3>1. q.fareUnits = AdvertisedFare(o)
      BY <1>5, <1>8, <2>2 DEF ServiceFare, fare
    <3>. QED  BY <1>3, <1>8, <2>2, <3>1 DEF AgreesWithPolicy
  <2>. QED  BY <1>1, <2>1, <2>2
<1>12. IF q.payer = "receiver"
       THEN q.fareUnits = 0 /\ q.fareIn = Sats /\ q.receiverFare = ReceiverFare(q.p)
       ELSE q.fareIn = Sats /\ q.fareUnits <= r.maxFare
  BY <1>1, <1>8 DEF ServiceFare
<1>. QED  BY <1>1, <1>3, <1>7, <1>8, <1>9, <1>10, <1>11, <1>12 DEF VerifiesReceive, q

\* A quote that is stored is the service's own, under a policy it had when it quoted.
HonestOffer ==
    \E rule \in Rules, operator \in OperatorCoins :
       /\ Admitted(ask, rule) /\ Plannable(BuildRequest(ask, rule, operator))
       /\ quote = QuoteOf(BuildRequest(ask, rule, operator))
HonestCarrier ==
    /\ row.rule \in Rules
    /\ \E operator \in OperatorCoins :
          /\ ReceiveOffered(ask, row.rule) /\ ReceiveCovers(operator, ServiceFare(ask, row.rule))
          /\ quote = ReceiveQuote(ask, row.rule, operator)

HonestInv ==
    /\ stage \in {"planning", "planned", "asking"} => row = None
    /\ stage = "quoted" /\ row # None => IF ask.kind = "fill" THEN HonestCarrier ELSE HonestOffer
    /\ AnswerIsSigned

\* A refused answer to an honest quote is refused for its fare, or for a policy that changed.
LEMMA RefusedForItsFare ==
    ASSUME ValueInv, HonestInv, Verify \/ VerifyReceive
    PROVE  AnswerIsSigned'
<1> SUFFICES ASSUME stage' = "refused", row' # None PROVE AnswerIsSigned'
  BY DEF AnswerIsSigned
<1>1. CASE Verify
  <2>1. /\ ask \in TransferAsks /\ ask.kind # "fill" /\ UNCHANGED <<ask, policy, row, quote>>
        /\ ~Verifies(ask, quote) /\ HonestOffer
    BY <1>1, KindsOfAsks DEF Verify, ValueInv, HonestInv
  <2>2. PICK rule \in Rules, operator \in OperatorCoins :
           /\ Admitted(ask, rule) /\ Plannable(BuildRequest(ask, rule, operator))
           /\ quote = QuoteOf(BuildRequest(ask, rule, operator))
    BY <2>1 DEF HonestOffer
  <2>3. quote.fare = ResolveFare(rule.fare, ask.asset, ask.units)
    BY <2>2 DEF QuoteOf, BuildRequest
  <2>4. ~(quote.fare.currency = ask.maxFare.currency /\ quote.fare.units <= ask.maxFare.units)
    BY <2>1, <2>2, <2>3, HonestIsVerified
  <2>5. quote.fare.units \in Nat /\ ask.maxFare.units \in Nat
    BY <1>1, <2>1 DEF Verify, ValueInv, IsOffer, Fares, TransferAsks
  <2>. QED  BY <2>1, <2>4, <2>5 DEF AnswerIsSigned
<1>2. CASE VerifyReceive
  <2>1. /\ ask \in CarrierAsks /\ ask.kind = "fill" /\ UNCHANGED <<ask, policy, row, quote>>
        /\ ~Accepts(quote) /\ HonestCarrier
    BY <1>2, KindsOfAsks DEF VerifyReceive, ValueInv, HonestInv
  <2>2. PICK operator \in OperatorCoins :
           /\ row.rule \in Rules
           /\ ReceiveOffered(ask, row.rule) /\ ReceiveCovers(operator, ServiceFare(ask, row.rule))
           /\ quote = ReceiveQuote(ask, row.rule, operator)
    BY <2>1 DEF HonestCarrier
  <2>3. quote.fareUnits = ServiceFare(ask, row.rule)
    BY <2>2 DEF ReceiveQuote
  <2>4. (ask.payer = "sender" => quote.fareUnits <= ask.maxFare) => VerifiesReceive(ask, quote, row.rule)
    BY <2>1, <2>2, <2>3, HonestCarrierIsVerified
  <2>5. ask.maxFare \in Nat /\ quote.fareUnits \in Nat
    <3>1. ResolveFare(row.rule.fare, ask.asset, 0) \in Fares
      BY <2>1, <2>2, FareIsWhole DEF ReceiveOffered, CarrierAsks, Currencies
    <3>. QED  BY <2>1, <2>3, <3>1 DEF ServiceFare, Fares, CarrierAsks
  <2>6. VerifiesReceive(ask, quote, row.rule) =>
           policy.now # row.rule \/ (~policy.reused /\ policy.read # row.rule)
    BY <2>1 DEF Accepts
  <2>. QED  BY <2>1, <2>4, <2>5, <2>6 DEF AnswerIsSigned
<1>. QED  BY <1>1, <1>2

\* Every step keeps a stored quote an honest one.
LEMMA HonestSteps == ValueInv /\ HonestInv /\ [Next]_vars => HonestInv'
<1> SUFFICES ASSUME ValueInv, HonestInv, [Next]_vars PROVE HonestInv'
  OBVIOUS
<1>0. stage' \notin {"planning", "planned", "asking", "quoted", "refused"} => HonestInv'
  BY DEF HonestInv, AnswerIsSigned
<1>1. CASE AskForQuote \/ \E rule \in Rules : Plan(rule)
  BY <1>1 DEF AskForQuote, Plan, HonestInv, AnswerIsSigned
<1>2. ASSUME NEW rule \in Rules, NEW operator \in OperatorCoins, Quote(rule, operator)
      PROVE  HonestInv'
  <2>1. /\ ask' = ask /\ stage' = "quoted" /\ ask.kind # "fill" /\ Answerable(rule, operator)
        /\ quote' = QuoteOf(BuildRequest(ask, rule, operator))
    BY <1>2 DEF Quote
  <2>2. Admitted(ask, rule) /\ Plannable(BuildRequest(ask, rule, operator))
    BY <2>1 DEF Answerable, Parses
  <2>3. HonestOffer'
    BY <2>1, <2>2 DEF HonestOffer
  <2>. QED  BY <2>1, <2>3 DEF HonestInv, AnswerIsSigned
<1>3. ASSUME NEW rule \in Rules, NEW operator \in OperatorCoins, Misquote(rule, operator)
      PROVE  HonestInv'
  BY <1>3 DEF Misquote, HonestInv, AnswerIsSigned
<1>4. CASE Verify \/ VerifyReceive
  <2>1. stage' \in {"signed", "ready", "refused"}
    BY <1>4 DEF Verify, VerifyReceive
  <2>. QED  BY <1>4, <2>1, RefusedForItsFare DEF HonestInv
<1>5. ASSUME NEW operator \in OperatorCoins, QuoteReceive(operator) PROVE HonestInv'
  <2>1. /\ ask' = ask /\ stage' = "quoted" /\ ask.kind = "fill" /\ ReceiveOffered(ask, policy.now)
        /\ quote' = ReceiveQuote(ask, policy.now, operator) /\ row'.rule = policy.now
        /\ ReceiveCovers(operator, ServiceFare(ask, policy.now)) /\ stage = "asking"
    BY <1>5 DEF QuoteReceive, ReceiveQuote, ReceiveRow
  <2>2. policy.now \in Rules
    BY <2>1 DEF ValueInv, IsReading
  <2>3. HonestCarrier'
    BY <2>1, <2>2 DEF HonestCarrier
  <2>. QED  BY <2>1, <2>3 DEF HonestInv, AnswerIsSigned
<1>6. ASSUME NEW operator \in OperatorCoins, MisquoteReceive(operator) PROVE HonestInv'
  BY <1>6 DEF MisquoteReceive, HonestInv, AnswerIsSigned
<1>7. ASSUME NEW rule \in Rules, SetPolicy(rule) PROVE HonestInv'
  <2>1. /\ UNCHANGED <<stage, ask, row, quote>> /\ ask.kind = "fill" /\ stage \in {"asking", "quoted"}
    BY <1>7 DEF SetPolicy
  <2>2. HonestCarrier => HonestCarrier'
    BY <2>1 DEF HonestCarrier
  <2>. QED  BY <2>1, <2>2 DEF HonestInv, AnswerIsSigned
<1>8. CASE Land \/ \E e : Post(e)
  BY <1>0, <1>8 DEF Land, Post
<1>9. CASE \E g : Fill(g)
  BY <1>0, <1>9 DEF Fill
<1>10. ASSUME NEW leaf, NEW tx, NEW by, SpendBy(leaf, tx, by) PROVE HonestInv'
  BY <1>0, <1>10 DEF SpendBy
<1>11. CASE Purchase \/ Reclaim
  BY <1>10, <1>11 DEF Purchase, Reclaim
<1>12. ASSUME NEW fund, Recycle(fund) \/ Refund(fund) PROVE HonestInv'
  BY <1>10, <1>12 DEF Recycle, Refund
<1>13. ASSUME NEW leaf, NEW fund, OtherSpend(leaf, fund) PROVE HonestInv'
  BY <1>10, <1>13 DEF OtherSpend
<1>14. CASE UNCHANGED vars
  <2>1. /\ UNCHANGED <<stage, ask, policy, row, quote>>
        /\ (HonestOffer => HonestOffer') /\ (HonestCarrier => HonestCarrier')
    BY <1>14 DEF vars, HonestOffer, HonestCarrier
  <2>. QED  BY <2>1 DEF HonestInv, AnswerIsSigned
<1>. QED
  BY <1>1, <1>2, <1>3, <1>4, <1>5, <1>6, <1>7, <1>8, <1>9, <1>11, <1>12, <1>13, <1>14 DEF Next

\* A sum of nothings is nothing.
LEMMA TotalOfZeros ==
    ASSUME NEW s \in Seq(Int), \A k \in 1 .. Len(s) : s[k] = 0 PROVE Total(s) = 0
<1> DEFINE g == [n \in 0 .. Len(s) |-> 0]
<1>1. Len(s) \in Nat
  OBVIOUS
<1>2. g[0] = 0 /\ g[Len(s)] = 0 /\ \A k \in 1 .. Len(s) : g[k] = g[k - 1] + s[k]
  BY <1>1
<1> HIDE DEF g
<1>. QED  BY <1>2, TotalDetermined

\* A sum of amounts that are not negative is no less than the first of them.
LEMMA TotalAtLeastFirst ==
    ASSUME NEW s \in Seq(Nat), s # <<>> PROVE Total(s) >= s[1]
<1>1. /\ s \in Seq(Int) /\ Len(s) \in Nat /\ Len(s) # 0 /\ \A k \in 1 .. Len(s) : s[k] \in Nat
  OBVIOUS
<1>2. PICK f \in [0 .. Len(s) -> Int] :
          /\ f[0] = 0 /\ Total(s) = f[Len(s)]
          /\ \A k \in 1 .. Len(s) : f[k] = f[k - 1] + s[k]
  BY <1>1, TotalIsLast
<1> DEFINE Below == {n \in 1 .. Len(s) : ~(f[n] >= s[1])}
<1>3. Below = {}
  <2> SUFFICES ASSUME Below # {} PROVE FALSE
    OBVIOUS
  <2>0. Below \in SUBSET Nat
    BY <1>1
  <2>1. PICK n \in Below : \A m \in Below : n <= m
    <3> HIDE DEF Below
    <3>. QED  BY <2>0, LeastNumber
  <2>2. n # 1
    <3>1. 1 \in 1 .. Len(s)
      BY <1>1
    <3>2. f[1] = f[0] + s[1]
      BY <1>2, <3>1
    <3>3. f[1] = s[1]
      BY <1>1, <1>2, <3>1, <3>2
    <3>. QED  BY <1>1, <2>1, <3>1, <3>3
  <2>3. n \in 1 .. Len(s) /\ ~(f[n] >= s[1])
    BY <2>1
  <2>4. n - 1 \in 1 .. Len(s) /\ n - 1 \in 0 .. Len(s) /\ n - 1 < n
    BY <1>1, <2>2, <2>3
  <2>5. n - 1 \notin Below
    BY <2>1, <2>3, <2>4
  <2>6. f[n - 1] >= s[1]
    BY <2>4, <2>5
  <2>7. s[n] \in Nat /\ f[n] = f[n - 1] + s[n]
    BY <1>1, <1>2, <2>3
  <2>8. f[n - 1] \in Int
    BY <2>4
  <2>9. s[1] \in Nat
    BY <1>1
  <2>. QED  BY <2>3, <2>6, <2>7, <2>8, <2>9
<1>4. Len(s) \in 1 .. Len(s)
  BY <1>1
<1>5. f[Len(s)] >= s[1]
  BY <1>3, <1>4
<1>. QED  BY <1>2, <1>5

\* Coins put together have their sats and their units together.
LEMMA TotalsAdd ==
    ASSUME NEW S, \A c \in S : IsCoin(c), NEW s \in Seq(S), NEW t \in Seq(S)
    PROVE  /\ TotalSats(s \o t) = TotalSats(s) + TotalSats(t)
           /\ TotalHeld(s \o t) = Both(TotalHeld(s), TotalHeld(t))
<1>1. s \o t \in Seq(S)
  OBVIOUS
<1>2. \A u \in Seq(S) : \A i \in DOMAIN u : u[i] \in S
  OBVIOUS
<1>3. TotalSats(s \o t) = TotalSats(s) + TotalSats(t)
  <2> DEFINE w == [c \in S |-> c.sats]
  <2>1. w \in [S -> Int]
    BY DEF IsCoin
  <2>2. ASSUME NEW u \in Seq(S) PROVE TotalSats(u) = Total(Weighed(w, u))
    <3>1. Weighed(w, u) = [i \in DOMAIN u |-> u[i].sats]
      BY <1>2 DEF Weighed
    <3>. QED  BY <3>1 DEF TotalSats
  <2> HIDE DEF w
  <2>3. Total(Weighed(w, s \o t)) = Total(Weighed(w, s)) + Total(Weighed(w, t))
    BY <2>1, WeighedAdds
  <2>4. /\ TotalSats(s \o t) = Total(Weighed(w, s \o t))
        /\ TotalSats(s) = Total(Weighed(w, s)) /\ TotalSats(t) = Total(Weighed(w, t))
    BY <1>1, <2>2
  <2>. QED  BY <2>3, <2>4
<1>4. ASSUME NEW a \in Assets PROVE TotalHeld(s \o t)[a] = TotalHeld(s)[a] + TotalHeld(t)[a]
  <2> DEFINE w == [c \in S |-> c.held[a]]
  <2>1. w \in [S -> Int]
    BY DEF IsCoin
  <2>2. ASSUME NEW u \in Seq(S) PROVE TotalHeld(u)[a] = Total(Weighed(w, u))
    <3>1. Weighed(w, u) = [i \in DOMAIN u |-> u[i].held[a]]
      BY <1>2 DEF Weighed
    <3>. QED  BY <3>1 DEF TotalHeld
  <2> HIDE DEF w
  <2>3. Total(Weighed(w, s \o t)) = Total(Weighed(w, s)) + Total(Weighed(w, t))
    BY <2>1, WeighedAdds
  <2>4. /\ TotalHeld(s \o t)[a] = Total(Weighed(w, s \o t))
        /\ TotalHeld(s)[a] = Total(Weighed(w, s)) /\ TotalHeld(t)[a] = Total(Weighed(w, t))
    BY <1>1, <2>2
  <2>. QED  BY <2>3, <2>4
<1>. QED  BY <1>3, <1>4 DEF TotalHeld, Both

\* What one coin and what no coin has.
LEMMA TotalsOfFew ==
    /\ TotalSats(<<>>) = 0 /\ TotalHeld(<<>>) = Nothing
    /\ \A c : IsCoin(c) => TotalSats(<<c>>) = c.sats /\ TotalHeld(<<c>>) = c.held
<1>1. TotalSats(<<>>) = 0 /\ TotalHeld(<<>>) = Nothing
  <2>1. [i \in DOMAIN <<>> |-> <<>>[i].sats] = <<>>
        /\ \A a \in Assets : [i \in DOMAIN <<>> |-> <<>>[i].held[a]] = <<>>
    OBVIOUS
  <2>. QED  BY <2>1, TotalOfFew DEF TotalSats, TotalHeld, Nothing
<1>2. ASSUME NEW c, IsCoin(c) PROVE TotalSats(<<c>>) = c.sats /\ TotalHeld(<<c>>) = c.held
  <2>1. [i \in DOMAIN <<c>> |-> <<c>>[i].sats] = <<c.sats>>
        /\ \A a \in Assets : [i \in DOMAIN <<c>> |-> <<c>>[i].held[a]] = <<c.held[a]>>
    OBVIOUS
  <2>2. c.sats \in Int /\ c.held \in [Assets -> Int]
    BY <1>2 DEF IsCoin
  <2>3. TotalSats(<<c>>) = c.sats
    BY <2>1, <2>2, TotalOfFew DEF TotalSats
  <2>4. \A a \in Assets : Total([i \in DOMAIN <<c>> |-> <<c>>[i].held[a]]) = c.held[a]
    BY <2>1, <2>2, TotalOfFew
  <2>. QED  BY <2>2, <2>3, <2>4 DEF TotalHeld
<1>. QED  BY <1>1, <1>2

\* Coins without units hold none together.
LEMMA PlainHoldNothing ==
    ASSUME NEW S, \A c \in S : c.held = Nothing, NEW s \in Seq(S) PROVE TotalHeld(s) = Nothing
<1>1. \A i \in DOMAIN s : s[i] \in S
  OBVIOUS
<1>2. ASSUME NEW a \in Assets PROVE Total([i \in DOMAIN s |-> s[i].held[a]]) = 0
  <2> DEFINE z == [i \in DOMAIN s |-> s[i].held[a]]
  <2>1. DOMAIN s = 1 .. Len(s) /\ Len(s) \in Nat
    OBVIOUS
  <2>2. \A i \in DOMAIN s : z[i] = 0
    BY <1>1 DEF Nothing
  <2>3. z \in Seq(Int) /\ Len(z) = Len(s)
    BY <2>1, <2>2
  <2> HIDE DEF z
  <2>4. Total(z) = 0
    BY <2>1, <2>2, <2>3, TotalOfZeros
  <2>. QED  BY <2>4 DEF z
<1>. QED  BY <1>2 DEF TotalHeld, Nothing

\* The fewest coins have one of the sums asked for.
LEMMA FewestSuffice ==
    ASSUME NEW s, NEW sums, Takes(s, sums) # {} PROVE TotalSats(Fewest(s, sums)) \in sums
<1>1. Takes(s, sums) \in SUBSET Nat
  BY DEF Takes
<1>2. Least(Takes(s, sums)) \in Takes(s, sums)
  BY <1>1, LeastIsOne
<1>. QED  BY <1>2 DEF Takes, Fewest


-----------------------------------------------------------------------------
(* Plans: what the wallet picks is what the service can build from. *)

\* The wallet and the service price a fare alike, from the base each of them takes.
LEMMA FareAsPriced ==
    ASSUME NEW rule \in Rules, NEW asset, NEW units,
           rule.fare.currency \in {Sats, "same"}
    PROVE  LET o == rule.fare
               fare == ResolveFare(o, asset, units)
           IN  /\ fare.units = PriceFare(o, IF o.currency = Sats THEN Dust ELSE units)
               /\ fare.currency = IF o.currency = Sats THEN Sats ELSE asset
<1> DEFINE o == rule.fare
           base == IF o.currency = Sats THEN Dust ELSE units
           rate == (base * o.bps) \div Parts
           clamped == Clamp(rate, o.least, o.most)
<1>1. o.bps \in Int /\ ValidOption(o)
  BY AsksAssumption DEF Policies
<1>2. ~(o.bps < 0) => ~(o.bps > Parts)
  BY <1>1 DEF ValidOption, Parts
<1>3. FareBase(o, units) = base
  BY DEF FareBase, Sats
<1>4. PriceFare(o, base) = IF o.bps < 0 THEN o.least ELSE clamped
  <2>1. PriceFare(o, base) = CASE o.bps < 0 -> o.least [] o.bps > Parts -> -1 [] OTHER -> clamped
    BY DEF PriceFare
  <2> HIDE DEF clamped
  <2>2. CASE o.bps < 0
    <3>1. ~(o.bps > Parts)
      BY <1>1, <2>2 DEF Parts
    <3>. QED  BY <2>1, <2>2, <3>1
  <2>3. CASE ~(o.bps < 0)
    BY <1>2, <2>1, <2>3
  <2>. QED  BY <2>2, <2>3
<1>5. ResolveFare(o, asset, units).units = IF o.bps < 0 THEN o.least ELSE clamped
  BY <1>3 DEF ResolveFare
<1>6. ResolveFare(o, asset, units).currency = IF o.currency = Sats THEN Sats ELSE asset
  BY DEF ResolveFare, Sats
<1>. QED  BY <1>4, <1>5, <1>6

\* The coins in order, of some of the wallet's coins, are coins of the wallet.
LEMMA SomeInOrder ==
    ASSUME NEW coins, IsFiniteSet(coins), \A c \in coins : c.sats \in Nat, NEW S \in SUBSET coins
    PROVE  ByValue(S) \in Seq(S) /\ ByValue(S) \in Seq(coins)
<1>1. IsFiniteSet(S)
  BY FS_Subset
<1>2. ByValue(S) \in Seq(S)
  BY <1>1, ByValueIsSeq
<1>. QED  BY <1>2

\* What the wallet selects is the amount, or leaves change that may stand, and leaves a
\* dust unit wherever it takes coins that hold units.
LEMMA SelectedSuffice ==
    ASSUME NEW coins, IsFiniteSet(coins),
           \A c \in coins : c.sats \in Nat /\ c.held \in [Assets -> Nat],
           NEW required \in Nat, Len(SelectSats(coins, required)) > 0
    PROVE  LET picked == SelectSats(coins, required) IN
           /\ TotalSats(picked) = required \/ TotalSats(picked) >= required + VtxoMin
           /\ TotalHeld(picked) = Nothing \/ TotalSats(picked) >= required + Dust
<1> DEFINE covered == {required} \cup AtLeast(required + VtxoMin)
           bare == {c \in coins : c.held = Nothing}
           plain == Plain(coins)
           laden == Laden(coins)
           hosts == AtLeast(Spared(required) - TotalSats(plain))
           single == {n \in DOMAIN laden : laden[n].sats \in hosts}
           picked == SelectSats(coins, required)
<1>0. /\ Dust \in Nat /\ VtxoMin \in Nat /\ VtxoMin <= Dust
      /\ Spared(required) \in Nat /\ Spared(required) >= required + Dust
  BY DustAssumption DEF Spared, Larger
<1>1. plain \in Seq(bare) /\ plain \in Seq(coins) /\ laden \in Seq(coins)
  BY SomeInOrder DEF Plain, Laden
<1>2. TotalSats(plain) \in Nat
  BY <1>1, TotalsOfCoins
<1>3. \A c \in coins : IsCoin(c)
  BY DEF IsCoin
<1>4. \A c \in bare : c.held = Nothing
  OBVIOUS
<1>5. picked = IF Takes(plain, covered) # {} THEN Fewest(plain, covered)
               ELSE IF single # {} THEN Append(plain, laden[Least(single)])
               ELSE IF Takes(laden, hosts) # {} THEN plain \o Fewest(laden, hosts)
               ELSE <<>>
  BY DEF SelectSats
<1>a. \A n : n \in covered => n = required \/ n >= required + VtxoMin
  BY DEF AtLeast
<1>b. \A n : n \in hosts => n \in Nat /\ n >= Spared(required) - TotalSats(plain)
  BY DEF AtLeast
<1>c. Len(picked) > 0
  OBVIOUS
<1>d. single \in SUBSET Nat /\ \A n \in single : laden[n] \in coins /\ laden[n].sats \in hosts
  BY <1>1
<1> HIDE DEF covered, plain, laden, hosts, bare, single, picked
<1>6. CASE Takes(plain, covered) # {}
  <2>1. TotalSats(picked) \in covered
    BY <1>5, <1>6, FewestSuffice
  <2>2. picked \in Seq(bare)
    BY <1>1, <1>5, <1>6, FewestIsSeq
  <2>3. TotalHeld(picked) = Nothing
    BY <1>4, <2>2, PlainHoldNothing
  <2>. QED  BY <1>a, <2>1, <2>3 DEF picked
<1>7. CASE Takes(plain, covered) = {} /\ single # {}
  <2> DEFINE c == laden[Least(single)]
  <2>1. c \in coins /\ c.sats \in hosts
    <3>1. Least(single) \in single
      BY <1>7, <1>d, LeastIsOne
    <3>. QED  BY <1>d, <3>1
  <2> HIDE DEF c
  <2>2. picked = plain \o <<c>> /\ <<c>> \in Seq(coins)
    <3>1. picked = Append(plain, c)
      BY <1>5, <1>7 DEF c
    <3>. QED  BY <1>1, <2>1, <3>1
  <2>3. TotalSats(picked) = TotalSats(plain) + TotalSats(<<c>>)
    BY <1>1, <1>3, <2>2, TotalsAdd
  <2>4. TotalSats(<<c>>) = c.sats
    BY <1>3, <2>1, TotalsOfFew
  <2>5. TotalSats(picked) >= Spared(required)
    BY <1>0, <1>2, <1>b, <2>1, <2>3, <2>4
  <2>6. TotalSats(picked) \in Nat
    BY <1>2, <1>b, <2>1, <2>3, <2>4
  <2>. QED  BY <1>0, <2>5, <2>6 DEF picked
<1>8. CASE Takes(plain, covered) = {} /\ single = {} /\ Takes(laden, hosts) # {}
  <2> DEFINE few == Fewest(laden, hosts)
  <2>1. few \in Seq(coins) /\ TotalSats(few) \in hosts
    BY <1>1, <1>8, FewestIsSeq, FewestSuffice
  <2>2. picked = plain \o few
    BY <1>5, <1>8
  <2> HIDE DEF few
  <2>3. TotalSats(picked) = TotalSats(plain) + TotalSats(few)
    BY <1>1, <1>3, <2>1, <2>2, TotalsAdd
  <2>5. TotalSats(picked) >= Spared(required) /\ TotalSats(picked) \in Nat
    BY <1>0, <1>2, <1>b, <2>1, <2>3
  <2>. QED  BY <1>0, <2>5 DEF picked
<1>9. CASE Takes(plain, covered) = {} /\ single = {} /\ Takes(laden, hosts) = {}
  BY <1>5, <1>9, <1>c
<1>. QED  BY <1>6, <1>7, <1>8, <1>9

\* What coins of the wallet come to is no less than the least a coin may be.
LEMMA SomeSatsWithUnits ==
    ASSUME NEW coins, IsFiniteSet(coins), \A c \in coins : c.sats \in Nat /\ c.sats >= VtxoMin,
           NEW asset, NEW required, NEW S \in CoinsWithAsset(coins, asset, required)
    PROVE  /\ ByValue(S) \in Seq(coins) /\ TotalHeld(ByValue(S))[asset] >= required
           /\ TotalSats(ByValue(S)) >= VtxoMin
<1> DEFINE picked == ByValue(S)
           sums == [i \in DOMAIN picked |-> picked[i].sats]
<1>1. S \in SUBSET coins /\ S # {} /\ TotalHeld(picked)[asset] >= required
  BY DEF CoinsWithAsset
<1>2. picked \in Seq(coins)
  BY <1>1, SomeInOrder
<1>3. picked # <<>>
  <2>1. IsFiniteSet(S)
    BY <1>1, FS_Subset
  <2>2. Sorts(picked, S)
    BY <1>1, <2>1, CoinsCanBeSorted DEF ByValue
  <2>3. S = {picked[i] : i \in DOMAIN picked}
    BY <2>2 DEF Sorts
  <2>. QED  BY <1>1, <2>3
<1> HIDE DEF picked
<1>4. Len(picked) \in Nat /\ Len(picked) # 0 /\ DOMAIN picked = 1 .. Len(picked)
      /\ \A i \in DOMAIN picked : picked[i] \in coins
  BY <1>2, <1>3
<1>5. 1 \in DOMAIN picked
  BY <1>4
<1>6. sums \in Seq(Nat) /\ sums # <<>> /\ sums[1] = picked[1].sats
  BY <1>4, <1>5
<1> HIDE DEF sums
<1>7. Total(sums) >= sums[1]
  BY <1>6, TotalAtLeastFirst
<1>8. TotalSats(picked) = Total(sums)
  BY DEF TotalSats, sums
<1>9. sums[1] \in Nat /\ sums[1] >= VtxoMin
  BY <1>4, <1>5, <1>6
<1>10. Total(sums) \in Nat
  BY <1>6, TotalIsNatural
<1>. QED  BY <1>1, <1>2, <1>7, <1>8, <1>9, <1>10, DustAssumption DEF picked

\* The sats a request leaves of its coin, and the units.
FareInSats(r) == IF r.maxFare.currency = Sats THEN r.maxFare.units ELSE 0
LeftSats(r) == r.coin.sats - r.payment - FareInSats(r)
LeftHeld(r) ==
    Without(Without(r.coin.held, FareHeld(r.maxFare)),
            IF r.asset = Sats THEN Nothing ELSE Only(r.asset, r.units))

\* A request the service admits at the fare it names, whose coin covers all that moves
\* and hosts the units it keeps.
Sendable(r, rule) ==
    /\ Admitted(r, rule) /\ ResolveFare(rule.fare, r.asset, r.units) = r.maxFare
    /\ r.asset = Sats => r.kind = "lockup" /\ r.maxFare.units = 0
    /\ r.asset # Sats => r.units > 0
    /\ r.kind = "payment" => r.maxFare.currency # Sats /\ LeftSats(r) >= VtxoMin
    /\ LeftSats(r) >= 0
    /\ \A a \in Assets : LeftHeld(r)[a] >= 0
    /\ LeftHeld(r) # Nothing => LeftSats(r) >= Dust

\* What the wallet plans in bitcoin can be sent (vetBitcoinTaxi, bitcoinPlan).
LEMMA BitcoinIsSendable ==
    ASSUME NEW payment \in PlannedPayments, NEW rule \in Rules, payment.asset = Sats, ~rule.paused,
           NEW r \in BitcoinPlans(payment, rule)
    PROVE  Sendable(r, rule)
<1> DEFINE picked == SelectSats(payment.coins, payment.amount)
           o == rule.fare
<1>1. /\ payment.amount \in Nat /\ payment.amount > 0 /\ IsFiniteSet(payment.coins)
      /\ \A c \in payment.coins : c.sats \in Nat /\ c.held \in [Assets -> Nat]
      /\ Dust \in Nat /\ VtxoMin \in Nat /\ VtxoMin > 0 /\ VtxoMin <= Dust
  BY PaymentsAssumption, DustAssumption DEF CoinsOf
<1>2. /\ payment.delivery = "recycle" /\ VetsBitcoin(payment, rule) /\ Len(picked) > 0
      /\ r = Request(payment, picked, "lockup", [currency |-> Sats, units |-> 0])
  BY DEF BitcoinPlans
<1>3. /\ payment.amount >= VtxoMin /\ payment.amount < Dust /\ Dust <= MaxTopup
      /\ o.currency = Sats /\ PriceFare(o, Dust) = 0 /\ rule.claim # "purchase"
  BY <1>2 DEF VetsBitcoin
<1>4. /\ TotalSats(picked) = payment.amount \/ TotalSats(picked) >= payment.amount + VtxoMin
      /\ TotalHeld(picked) = Nothing \/ TotalSats(picked) >= payment.amount + Dust
  BY <1>1, <1>2, SelectedSuffice
<1>5. TotalSats(picked) \in Nat /\ TotalHeld(picked) \in [Assets -> Nat]
  BY <1>1, SelectedAreOwn, TotalsOfCoins
<1> HIDE DEF picked
<1>6. /\ r.kind = "lockup" /\ r.asset = Sats /\ r.payment = payment.amount /\ r.units = 0
      /\ r.coin.sats = TotalSats(picked) /\ r.coin.held = TotalHeld(picked)
      /\ r.mode = "recycle" /\ r.maxFare = [currency |-> Sats, units |-> 0]
  BY <1>2 DEF Request, Coin
<1>7. ResolveFare(o, r.asset, r.units) = r.maxFare
  <2>1. ResolveFare(o, r.asset, r.units).units = 0 /\ ResolveFare(o, r.asset, r.units).currency = Sats
    BY <1>3, FareAsPriced
  <2>2. ResolveFare(o, r.asset, r.units) =
           [currency |-> ResolveFare(o, r.asset, r.units).currency,
            units |-> ResolveFare(o, r.asset, r.units).units]
    BY DEF ResolveFare
  <2>. QED  BY <1>6, <2>1, <2>2
<1>8. Admitted(r, rule)
  <2>1. ValidOption(o) /\ rule.claim \in Modes
    BY AsksAssumption DEF Policies
  <2>2. Resolvable(o, r.asset, r.units)
    BY <1>3, <2>1 DEF Resolvable, Sats
  <2>3. ModeAllowed(rule.claim, r.mode)
    BY <1>3, <1>6, <2>1 DEF ModeAllowed, ClaimMode, Modes
  <2>4. PaymentSats(r) = payment.amount /\ PaymentSats(r) <= r.coin.sats
    BY <1>1, <1>4, <1>5, <1>6 DEF PaymentSats
  <2>. QED  BY <1>3, <1>6, <2>2, <2>3, <2>4 DEF Admitted
<1>9. FareInSats(r) = 0 /\ LeftSats(r) = TotalSats(picked) - payment.amount
  BY <1>1, <1>5, <1>6 DEF FareInSats, LeftSats
<1>10. LeftHeld(r) = TotalHeld(picked)
  <2>1. FareHeld(r.maxFare) = Nothing
    BY <1>6 DEF FareHeld
  <2>. QED  BY <1>5, <1>6, <2>1 DEF LeftHeld, Without, Nothing
<1>11. LeftSats(r) >= 0 /\ (LeftHeld(r) # Nothing => LeftSats(r) >= Dust)
  BY <1>1, <1>4, <1>5, <1>9, <1>10
<1>. QED  BY <1>5, <1>6, <1>7, <1>8, <1>10, <1>11 DEF Sendable

\* What the wallet plans in an asset can be sent (assetPlan).
LEMMA AssetIsSendable ==
    ASSUME NEW payment \in PlannedPayments, NEW rule \in Rules, payment.asset # Sats, ~rule.paused,
           NEW r \in AssetPlans(payment, rule)
    PROVE  Sendable(r, rule)
<1> DEFINE o == rule.fare
           inSats == payment.delivery = "recycle"
           fare == PriceFare(o, IF inSats THEN Dust ELSE payment.amount)
           units == payment.amount + (IF inSats THEN 0 ELSE fare)
           maxFare == [currency |-> IF inSats THEN Sats ELSE payment.asset, units |-> fare]
           kind == IF payment.delivery = "sponsored" THEN "payment" ELSE "lockup"
           plain == Plain(payment.coins)
<1>1. /\ payment.amount \in Nat /\ payment.amount > 0 /\ IsFiniteSet(payment.coins)
      /\ payment.asset \in Assets /\ payment.delivery \in {"recycle", "purchase", "sponsored"}
      /\ \A c \in payment.coins : c.sats \in Nat /\ c.held \in [Assets -> Nat] /\ c.sats >= VtxoMin
      /\ \A c \in payment.coins : IsCoin(c)
      /\ Dust \in Nat /\ VtxoMin \in Nat /\ VtxoMin > 0 /\ VtxoMin <= Dust /\ Dust <= MaxTopup
      /\ Larger(Dust, VtxoMin) = Dust
  BY PaymentsAssumption, DustAssumption, FundingAssumption DEF CoinsOf, Currencies, IsCoin, Larger
<1>2. /\ payment.delivery # "sponsored" => rule.claim \in {"either", payment.delivery}
      /\ o.currency = (IF inSats THEN Sats ELSE "same") /\ fare >= 0
  BY DEF AssetPlans
<1>3. fare \in Nat
  <2>1. fare \in Int
    BY <1>1, PriceIsWhole
  <2>. QED  BY <1>2, <2>1
<1>4. PICK s, host :
         /\ s \in CoinsWithAsset(payment.coins, payment.asset, units)
         /\ host = IF TotalHeld(ByValue(s)) = Only(payment.asset, units) THEN 0 ELSE Dust
         /\ LET fills == AtLeast((IF inSats THEN fare ELSE 0) + host - TotalSats(ByValue(s))) IN
            /\ Takes(plain, fills) # {}
            /\ r = Request(payment, ByValue(s) \o Fewest(plain, fills), kind, maxFare)
  BY <1>1 DEF AssetPlans
<1> DEFINE picked == ByValue(s)
           fills == AtLeast((IF inSats THEN fare ELSE 0) + host - TotalSats(picked))
           few == Fewest(plain, fills)
           all == picked \o few
<1>5. picked \in Seq(payment.coins) /\ TotalHeld(picked)[payment.asset] >= units
      /\ TotalSats(picked) >= VtxoMin
  BY <1>1, <1>4, SomeSatsWithUnits
<1>6. few \in Seq(payment.coins) /\ TotalHeld(few) = Nothing /\ TotalSats(few) \in fills
  <2> DEFINE bare == {c \in payment.coins : c.held = Nothing}
  <2>1. plain \in Seq(bare) /\ Takes(plain, fills) # {}
    BY <1>1, <1>4, SomeInOrder DEF Plain
  <2> HIDE DEF plain, fills
  <2>2. few \in Seq(bare)
    BY <2>1, FewestIsSeq
  <2>3. TotalHeld(few) = Nothing
    <3>1. \A c \in bare : c.held = Nothing
      OBVIOUS
    <3> HIDE DEF bare, few
    <3>. QED  BY <2>2, <3>1, PlainHoldNothing
  <2>. QED  BY <2>1, <2>2, <2>3, FewestSuffice
<1>7. TotalSats(picked) \in Nat /\ TotalHeld(picked) \in [Assets -> Nat]
  BY <1>1, <1>5, TotalsOfCoins
<1>8. r = Request(payment, all, kind, maxFare)
  BY <1>4
<1> HIDE DEF picked, few, plain, maxFare, fare, kind
<1>9. TotalSats(all) = TotalSats(picked) + TotalSats(few)
      /\ TotalHeld(all) = Both(TotalHeld(picked), TotalHeld(few))
  BY <1>1, <1>5, <1>6, TotalsAdd
<1>10. TotalHeld(all) = TotalHeld(picked)
  BY <1>6, <1>7, <1>9 DEF Both, Nothing
<1>11. /\ TotalSats(few) \in Nat /\ host \in {0, Dust}
       /\ TotalSats(few) >= (IF inSats THEN fare ELSE 0) + host - TotalSats(picked)
  BY <1>4, <1>6 DEF AtLeast
<1>12. /\ TotalSats(all) >= (IF inSats THEN fare ELSE 0) + host /\ TotalSats(all) >= VtxoMin
       /\ TotalSats(all) \in Nat
  BY <1>1, <1>3, <1>5, <1>7, <1>9, <1>11
<1> HIDE DEF all, fills
<1>13. /\ r.kind = kind /\ r.asset = payment.asset /\ r.payment = 0 /\ r.units = payment.amount
       /\ r.coin.sats = TotalSats(all) /\ r.coin.held = TotalHeld(picked)
       /\ r.mode = (IF kind = "lockup" THEN payment.delivery ELSE "recycle") /\ r.maxFare = maxFare
  BY <1>8, <1>10 DEF Request, Coin
<1>14. maxFare.currency = (IF inSats THEN Sats ELSE payment.asset) /\ maxFare.units = fare
  BY DEF maxFare
<1>15. ResolveFare(o, r.asset, r.units) = r.maxFare
  <2>0. "same" # Sats
    BY DEF Sats
  <2>1. /\ ResolveFare(o, r.asset, r.units).units = fare
        /\ ResolveFare(o, r.asset, r.units).currency = IF inSats THEN Sats ELSE payment.asset
    BY <1>2, <1>13, <2>0, FareAsPriced DEF fare
  <2>2. ResolveFare(o, r.asset, r.units) =
           [currency |-> ResolveFare(o, r.asset, r.units).currency,
            units |-> ResolveFare(o, r.asset, r.units).units]
    BY DEF ResolveFare
  <2>. QED  BY <1>13, <2>1, <2>2 DEF maxFare
<1>16. Admitted(r, rule)
  <2>1. ValidOption(o) /\ rule.claim \in Modes
    BY AsksAssumption DEF Policies
  <2>2. Resolvable(o, r.asset, r.units)
    BY <1>1, <1>13, <2>1 DEF Resolvable
  <2>3. r.kind = "lockup" => ModeAllowed(rule.claim, r.mode)
    BY <1>1, <1>2, <1>13 DEF ModeAllowed, ClaimMode, kind
  <2>4. PaymentSats(r) = 0
    BY <1>13 DEF PaymentSats
  <2>. QED  BY <1>1, <1>13, <2>2, <2>3, <2>4 DEF Admitted
<1>17. FareInSats(r) = (IF inSats THEN fare ELSE 0) /\ LeftSats(r) = TotalSats(all) - FareInSats(r)
  BY <1>3, <1>12, <1>13, <1>14, AssetsAssumption DEF FareInSats, LeftSats
<1>18. /\ LeftSats(r) >= 0 /\ LeftSats(r) >= host
       /\ (r.kind = "payment" => r.maxFare.currency # Sats /\ LeftSats(r) >= VtxoMin)
  <2>1. r.kind = "payment" => ~inSats
    BY <1>13 DEF kind
  <2>. QED  BY <1>1, <1>3, <1>11, <1>12, <1>13, <1>14, <1>17, <2>1
<1>19. /\ \A a \in Assets : LeftHeld(r)[a] = TotalHeld(picked)[a] - (IF a = payment.asset THEN units ELSE 0)
       /\ LeftHeld(r) \in [Assets -> Int]
  <2>1. \A a \in Assets : FareHeld(r.maxFare)[a] = IF a = payment.asset /\ ~inSats THEN fare ELSE 0
    BY <1>1, <1>13, <1>14, AssetsAssumption DEF FareHeld, Nothing, Only
  <2>2. \A a \in Assets : Only(payment.asset, payment.amount)[a] = IF a = payment.asset THEN payment.amount ELSE 0
    BY <1>1 DEF Only, Nothing
  <2>3. \A a \in Assets : LeftHeld(r)[a] = (TotalHeld(picked)[a] - FareHeld(r.maxFare)[a])
                                            - Only(payment.asset, payment.amount)[a]
    BY <1>13 DEF LeftHeld, Without
  <2>4. DOMAIN LeftHeld(r) = Assets /\ LeftHeld(r) = [a \in Assets |-> LeftHeld(r)[a]]
    BY DEF LeftHeld, Without
  <2>5. ASSUME NEW a \in Assets
        PROVE  LeftHeld(r)[a] = TotalHeld(picked)[a] - (IF a = payment.asset THEN units ELSE 0)
               /\ LeftHeld(r)[a] \in Int
    <3>1. TotalHeld(picked)[a] \in Nat
      BY <1>7
    <3>. QED  BY <1>1, <1>3, <2>1, <2>2, <2>3, <3>1
  <2>. QED  BY <2>4, <2>5
<1>20. \A a \in Assets : LeftHeld(r)[a] >= 0
  <2>1. \A a \in Assets : TotalHeld(picked)[a] \in Nat
    BY <1>7
  <2>2. units \in Nat
    BY <1>1, <1>3
  <2>. QED  BY <1>5, <1>19, <2>1, <2>2
<1>21. LeftHeld(r) # Nothing => host = Dust
  <2> SUFFICES ASSUME host # Dust PROVE LeftHeld(r) = Nothing
    OBVIOUS
  <2>1. TotalHeld(picked) = Only(payment.asset, units)
    BY <1>4 DEF picked
  <2>2. units \in Nat
    BY <1>1, <1>3
  <2>3. \A a \in Assets : TotalHeld(picked)[a] = IF a = payment.asset THEN units ELSE 0
    BY <1>1, <2>1 DEF Only, Nothing
  <2>4. \A a \in Assets : LeftHeld(r)[a] = 0
    BY <1>19, <2>2, <2>3
  <2>5. LeftHeld(r) = [a \in Assets |-> LeftHeld(r)[a]]
    BY <1>19
  <2>. QED  BY <2>4, <2>5 DEF Nothing
<1>22. LeftHeld(r) # Nothing => LeftSats(r) >= Dust
  BY <1>1, <1>18, <1>21
<1>. QED  BY <1>1, <1>13, <1>15, <1>16, <1>18, <1>20, <1>22 DEF Sendable

\* Whatever the wallet plans can be sent.
LEMMA PlansAreSendable ==
    ASSUME NEW payment \in PlannedPayments, NEW rule \in Rules, NEW r \in PlansOf(payment, rule)
    PROVE  r \in TransferAsks /\ Sendable(r, rule)
BY PlansAreAsks, BitcoinIsSendable, AssetIsSendable DEF PlansOf

\* What four outputs come to, of which three may be absent.
LEMMA TotalsOfOutputs ==
    ASSUME NEW c1, NEW c2, NEW c3, NEW c4, IsCoin(c1), IsCoin(c2), IsCoin(c3), IsCoin(c4),
           NEW b2 \in BOOLEAN, NEW b3 \in BOOLEAN, NEW b4 \in BOOLEAN
    PROVE  LET outs == <<c1>> \o Perhaps(b2, c2) \o Perhaps(b3, c3) \o Perhaps(b4, c4) IN
           /\ TotalSats(outs) = c1.sats + (IF b2 THEN c2.sats ELSE 0)
                 + (IF b3 THEN c3.sats ELSE 0) + (IF b4 THEN c4.sats ELSE 0)
           /\ TotalHeld(outs) =
                 [a \in Assets |-> c1.held[a] + (IF b2 THEN c2.held[a] ELSE 0)
                    + (IF b3 THEN c3.held[a] ELSE 0) + (IF b4 THEN c4.held[a] ELSE 0)]
<1> DEFINE S == {c1, c2, c3, c4}
           s1 == <<c1>>
           s2 == Perhaps(b2, c2)
           s3 == Perhaps(b3, c3)
           s4 == Perhaps(b4, c4)
<1>1. s1 \in Seq(S) /\ s2 \in Seq(S) /\ s3 \in Seq(S) /\ s4 \in Seq(S)
  <2>1. c1 \in S /\ c2 \in S /\ c3 \in S /\ c4 \in S
    OBVIOUS
  <2>2. s1 \in Seq(S)
    OBVIOUS
  <2> HIDE DEF S
  <2>. QED  BY <2>1, <2>2, PerhapsIsSeq
<1>2. \A c \in S : IsCoin(c)
  OBVIOUS
<1>3. ASSUME NEW c, IsCoin(c), NEW b \in BOOLEAN
      PROVE  /\ TotalSats(Perhaps(b, c)) = IF b THEN c.sats ELSE 0
             /\ \A a \in Assets : TotalHeld(Perhaps(b, c))[a] = IF b THEN c.held[a] ELSE 0
  BY <1>3, TotalsOfFew DEF Perhaps, Nothing
<1>4. TotalSats(s1) = c1.sats /\ TotalHeld(s1) = c1.held
  BY TotalsOfFew
<1>5. /\ TotalSats(s2) = (IF b2 THEN c2.sats ELSE 0)
      /\ \A a \in Assets : TotalHeld(s2)[a] = IF b2 THEN c2.held[a] ELSE 0
  BY <1>3
<1>6. /\ TotalSats(s3) = (IF b3 THEN c3.sats ELSE 0)
      /\ \A a \in Assets : TotalHeld(s3)[a] = IF b3 THEN c3.held[a] ELSE 0
  BY <1>3
<1>7. /\ TotalSats(s4) = (IF b4 THEN c4.sats ELSE 0)
      /\ \A a \in Assets : TotalHeld(s4)[a] = IF b4 THEN c4.held[a] ELSE 0
  BY <1>3
<1> HIDE DEF S, s1, s2, s3, s4
<1>8. \A u, v \in Seq(S) : u \o v \in Seq(S)
  OBVIOUS
<1>9. s1 \o s2 \in Seq(S) /\ (s1 \o s2) \o s3 \in Seq(S)
  BY <1>1, <1>8
<1>10. /\ TotalSats(s1 \o s2) = TotalSats(s1) + TotalSats(s2)
       /\ TotalHeld(s1 \o s2) = Both(TotalHeld(s1), TotalHeld(s2))
  BY <1>1, <1>2, TotalsAdd
<1>11. /\ TotalSats((s1 \o s2) \o s3) = TotalSats(s1 \o s2) + TotalSats(s3)
       /\ TotalHeld((s1 \o s2) \o s3) = Both(TotalHeld(s1 \o s2), TotalHeld(s3))
  BY <1>1, <1>2, <1>9, TotalsAdd
<1>12. /\ TotalSats(((s1 \o s2) \o s3) \o s4) = TotalSats((s1 \o s2) \o s3) + TotalSats(s4)
       /\ TotalHeld(((s1 \o s2) \o s3) \o s4) = Both(TotalHeld((s1 \o s2) \o s3), TotalHeld(s4))
  BY <1>1, <1>2, <1>9, TotalsAdd
<1>13. TotalSats(((s1 \o s2) \o s3) \o s4) = c1.sats + (IF b2 THEN c2.sats ELSE 0)
                 + (IF b3 THEN c3.sats ELSE 0) + (IF b4 THEN c4.sats ELSE 0)
  BY <1>4, <1>5, <1>6, <1>7, <1>10, <1>11, <1>12
<1>14. TotalHeld(((s1 \o s2) \o s3) \o s4) =
                 [a \in Assets |-> c1.held[a] + (IF b2 THEN c2.held[a] ELSE 0)
                    + (IF b3 THEN c3.held[a] ELSE 0) + (IF b4 THEN c4.held[a] ELSE 0)]
  BY <1>4, <1>5, <1>6, <1>7, <1>10, <1>11, <1>12 DEF Both
<1>. QED  BY <1>13, <1>14 DEF s1, s2, s3, s4

\* An output that may be absent adds itself only, and no script twice where none repeats it.
LEMMA OneMoreOutput ==
    ASSUME NEW S, NEW s \in Seq(S), NEW c \in S, NEW b \in BOOLEAN
    PROVE  /\ s \o Perhaps(b, c) \in Seq(S)
           /\ ToSet(s \o Perhaps(b, c)) = ToSet(s) \cup (IF b THEN {c} ELSE {})
           /\ (/\ DistinctScripts(s)
               /\ b => \A d \in ToSet(s) : Script(d.key, d.sats) # Script(c.key, c.sats))
              => DistinctScripts(s \o Perhaps(b, c))
<1>1. CASE ~b
  <2>1. Perhaps(b, c) = <<>>
    BY <1>1 DEF Perhaps
  <2>2. s \o <<>> = s
    OBVIOUS
  <2>. QED  BY <1>1, <2>1, <2>2
<1>2. CASE b
  <2> DEFINE t == s \o <<c>>
  <2>1. /\ Perhaps(b, c) = <<c>> /\ Len(s) \in Nat /\ DOMAIN s = 1 .. Len(s)
        /\ t \in Seq(S) /\ Len(t) = Len(s) + 1 /\ DOMAIN t = 1 .. Len(s) + 1
        /\ t[Len(s) + 1] = c /\ \A i \in 1 .. Len(s) : t[i] = s[i]
    BY <1>2 DEF Perhaps
  <2> HIDE DEF t
  <2>2. DOMAIN t = DOMAIN s \cup {Len(s) + 1}
    BY <2>1
  <2>3. ToSet(t) = ToSet(s) \cup {c}
    BY <2>1, <2>2 DEF ToSet
  <2>4. ASSUME DistinctScripts(s), \A d \in ToSet(s) : Script(d.key, d.sats) # Script(c.key, c.sats)
        PROVE  DistinctScripts(t)
    <3> SUFFICES ASSUME NEW i \in DOMAIN t, NEW j \in DOMAIN t, i # j
                 PROVE  Script(t[i].key, t[i].sats) # Script(t[j].key, t[j].sats)
      BY DEF DistinctScripts
    <3>1. \A k \in DOMAIN s : s[k] \in ToSet(s)
      BY DEF ToSet
    <3>2. CASE i \in DOMAIN s /\ j \in DOMAIN s
      BY <2>1, <2>4, <3>2 DEF DistinctScripts
    <3>3. CASE i = Len(s) + 1
      BY <2>1, <2>2, <2>4, <3>1, <3>3
    <3>4. CASE j = Len(s) + 1
      BY <2>1, <2>2, <2>4, <3>1, <3>4
    <3>. QED  BY <2>2, <3>2, <3>3, <3>4
  <2>. QED  BY <1>2, <2>1, <2>3, <2>4 DEF t
<1>. QED  BY <1>1, <1>2

\* The outputs of a graph are those that are there.
LEMMA MembersOfOutputs ==
    ASSUME NEW c1, NEW c2, NEW c3, NEW c4,
           NEW b2 \in BOOLEAN, NEW b3 \in BOOLEAN, NEW b4 \in BOOLEAN
    PROVE  LET outs == <<c1>> \o Perhaps(b2, c2) \o Perhaps(b3, c3) \o Perhaps(b4, c4) IN
           \A c \in ToSet(outs) : c # c1 => (b2 /\ c = c2) \/ (b3 /\ c = c3) \/ (b4 /\ c = c4)
<1> DEFINE S == {c1, c2, c3, c4}
           s1 == <<c1>>
           s2 == s1 \o Perhaps(b2, c2)
           s3 == s2 \o Perhaps(b3, c3)
           s4 == s3 \o Perhaps(b4, c4)
<1>1. s1 \in Seq(S) /\ ToSet(s1) = {c1} /\ c1 \in S /\ c2 \in S /\ c3 \in S /\ c4 \in S
  BY DEF ToSet
<1> HIDE DEF S, s1
<1>2. s2 \in Seq(S) /\ ToSet(s2) = ToSet(s1) \cup (IF b2 THEN {c2} ELSE {})
  BY <1>1, OneMoreOutput
<1> HIDE DEF s2
<1>3. s3 \in Seq(S) /\ ToSet(s3) = ToSet(s2) \cup (IF b3 THEN {c3} ELSE {})
  <2>1. c3 \in S /\ s2 \in Seq(S)
    BY <1>1, <1>2
  <2>. QED  BY <2>1, OneMoreOutput
<1> HIDE DEF s3
<1>4. ToSet(s4) = ToSet(s3) \cup (IF b4 THEN {c4} ELSE {})
  <2>1. c4 \in S /\ s3 \in Seq(S)
    BY <1>1, <1>3
  <2>. QED  BY <2>1, OneMoreOutput
<1> HIDE DEF s4
<1>5. \A c \in ToSet(s4) : c # c1 => (b2 /\ c = c2) \/ (b3 /\ c = c3) \/ (b4 /\ c = c4)
  BY <1>1, <1>2, <1>3, <1>4
<1>. QED  BY <1>5 DEF s1, s2, s3, s4

\* Each output that is there has its own script if no two that are there share one.
LEMMA ScriptsOfOutputs ==
    ASSUME NEW c1, NEW c2, NEW c3, NEW c4,
           NEW b2 \in BOOLEAN, NEW b3 \in BOOLEAN, NEW b4 \in BOOLEAN,
           b2 => Script(c1.key, c1.sats) # Script(c2.key, c2.sats),
           b3 => Script(c1.key, c1.sats) # Script(c3.key, c3.sats),
           b4 => Script(c1.key, c1.sats) # Script(c4.key, c4.sats),
           b2 /\ b3 => Script(c2.key, c2.sats) # Script(c3.key, c3.sats),
           b2 /\ b4 => Script(c2.key, c2.sats) # Script(c4.key, c4.sats),
           b3 /\ b4 => Script(c3.key, c3.sats) # Script(c4.key, c4.sats)
    PROVE  DistinctScripts(<<c1>> \o Perhaps(b2, c2) \o Perhaps(b3, c3) \o Perhaps(b4, c4))
<1> DEFINE S == {c1, c2, c3, c4}
           s1 == <<c1>>
           s2 == s1 \o Perhaps(b2, c2)
           s3 == s2 \o Perhaps(b3, c3)
           s4 == s3 \o Perhaps(b4, c4)
<1>1. s1 \in Seq(S) /\ ToSet(s1) = {c1} /\ DistinctScripts(s1)
      /\ c1 \in S /\ c2 \in S /\ c3 \in S /\ c4 \in S
  BY DEF ToSet, DistinctScripts
<1> HIDE DEF S, s1
<1>2. s2 \in Seq(S) /\ ToSet(s2) = {c1} \cup (IF b2 THEN {c2} ELSE {}) /\ DistinctScripts(s2)
  BY <1>1, OneMoreOutput
<1> HIDE DEF s2
<1>3. s3 \in Seq(S) /\ ToSet(s3) = ToSet(s2) \cup (IF b3 THEN {c3} ELSE {}) /\ DistinctScripts(s3)
  <2>1. b3 => \A d \in ToSet(s2) : Script(d.key, d.sats) # Script(c3.key, c3.sats)
    BY <1>2
  <2>2. s3 \in Seq(S) /\ ToSet(s3) = ToSet(s2) \cup (IF b3 THEN {c3} ELSE {})
    <3>1. c3 \in S /\ s2 \in Seq(S)
      BY <1>1, <1>2
    <3>. QED  BY <3>1, OneMoreOutput
  <2>3. DistinctScripts(s3)
    <3>1. c3 \in S /\ s2 \in Seq(S) /\ DistinctScripts(s2)
      BY <1>1, <1>2
    <3>. QED  BY <2>1, <3>1, OneMoreOutput
  <2>. QED  BY <2>2, <2>3
<1> HIDE DEF s3
<1>4. DistinctScripts(s4)
  <2>1. b4 => \A d \in ToSet(s3) : Script(d.key, d.sats) # Script(c4.key, c4.sats)
    BY <1>2, <1>3
  <2>. QED  BY <1>1, <1>3, <2>1, OneMoreOutput
<1>. QED  BY <1>4 DEF s1, s2, s3, s4

\* The service can plan, with any coin of three dust units, whatever can be sent that has
\* no fare and no change below dust in a covenant transfer, and no change below dust beside
\* a hosted fare below dust in a payment; it answers it, and the sender signs the answer
\* (createQuote and createSponsoredQuote against verifyQuote).
LEMMA SendableIsServed ==
    ASSUME NEW r \in TransferAsks, NEW rule \in Rules, Sendable(r, rule),
           r.kind = "lockup" => FareInSats(r) \notin 1 .. (Dust - 1) /\ LeftSats(r) \notin 1 .. (Dust - 1),
           r.kind = "payment" =>
              ~(r.maxFare.units > 0 /\ VtxoMin < Dust /\ LeftSats(r) \in 1 .. (Dust - 1)),
           NEW operator \in OperatorCoins, operator.sats >= 3 * Dust
    PROVE  LET b == BuildRequest(r, rule, operator) IN
           /\ FarePayable(r, b.fare) /\ Covers(operator, b) /\ Plannable(b)
           /\ Parses(b, Envelope(b)) /\ Verifies(r, QuoteOf(b))
<1> DEFINE b == BuildRequest(r, rule, operator)
           a == Amounts(b)
           left == LeftSats(r)
           sats == FareInSats(r)
           change == LeftHeld(r)
           fare == r.maxFare
<1>1. /\ r.kind \in {"lockup", "payment"} /\ r.payment \in Nat /\ r.units \in Nat
      /\ r.coin.sats \in Nat /\ r.coin.key = "sender" /\ r.coin.held \in [Assets -> Nat]
      /\ r.asset \in Currencies /\ r.receiver \in Strangers
      /\ (r.asset = Sats <=> r.payment > 0) /\ (r.asset = Sats => r.units = 0)
      /\ fare.currency \in Currencies /\ fare.units \in Nat
  BY DEF TransferAsks, CoinsOf
<1>2. operator.key = "operator" /\ operator.sats \in Nat /\ operator.held = Nothing
  BY OperatorCoinsAssumption
<1>3. Dust \in Nat /\ Dust > 0 /\ VtxoMin \in Nat /\ VtxoMin > 0 /\ VtxoMin <= Dust
  BY DustAssumption
<1>4. /\ Admitted(r, rule) /\ ResolveFare(rule.fare, r.asset, r.units) = fare
      /\ (r.asset = Sats => r.kind = "lockup" /\ fare.units = 0)
      /\ (r.asset # Sats => r.units > 0)
      /\ (r.kind = "payment" => fare.currency # Sats /\ left >= VtxoMin)
      /\ left >= 0
      /\ \A x \in Assets : change[x] >= 0
      /\ (change # Nothing => left >= Dust)
  BY DEF Sendable
<1>5. sats = (IF fare.currency = Sats THEN fare.units ELSE 0) /\ sats \in Nat
      /\ left = r.coin.sats - r.payment - sats /\ left \in Nat
  BY <1>1, <1>4 DEF FareInSats, LeftSats
<1>6. PaymentSats(r) = r.payment
  BY <1>1 DEF PaymentSats
<1>7. /\ b.kind = r.kind /\ b.coin = r.coin /\ b.units = r.units /\ b.operator = operator
      /\ b.fare = fare /\ b.p.asset = r.asset /\ b.p.operator = "operator" /\ b.p.receiver = r.receiver
      /\ b.payer = (IF fare.currency = Sats /\ fare.units > 0 THEN "sender" ELSE "none")
      /\ b.p.sender = "sender" /\ b.p.signer = "signer" /\ b.p.topup = Dust /\ b.p.payment = r.payment
      /\ b.p.locktime = 2 /\ b.p.exitDelay = 2 /\ b.p.recovery = "sender" /\ b.p.fareIn = "none"
  BY <1>1, <1>4, <1>6 DEF BuildRequest
<1> DEFINE hosting == Hosting(b.kind, b.fare)
           oc == operator.sats - Dust - (hosting - sats)
<1>8. /\ hosting = (IF fare.currency = Sats \/ fare.units = 0 THEN fare.units
                    ELSE IF r.kind = "lockup" THEN Dust ELSE VtxoMin)
      /\ hosting \in Nat
  BY <1>1, <1>3, <1>7 DEF Hosting
<1>9. (IF b.payer = "sender" THEN hosting ELSE 0) = sats
  BY <1>1, <1>5, <1>7, <1>8
<1>10. hosting = sats \/ (sats = 0 /\ hosting <= Dust)
  BY <1>1, <1>3, <1>5, <1>8
<1>11. oc \in Nat /\ oc >= Dust
  BY <1>2, <1>3, <1>5, <1>8, <1>10
<1> DEFINE first == First(b.kind, b.p)
<1>12. /\ first.sats = Dust + r.payment /\ first.held = Nothing
       /\ first.key = IF r.kind = "lockup" THEN "covenant" ELSE r.receiver
  BY <1>7 DEF First, Coin
<1>13. /\ a.first = first /\ a.hosting = hosting /\ a.operatorChange = oc
       /\ a.payout = OperatorPayoutSats(hosting, oc, "operator", "operator")
  BY <1>2, <1>7, <1>9 DEF Amounts
<1>14. a.senderChange = left
  <2>1. a.senderChange = r.coin.sats + Dust - first.sats - sats
    BY <1>7, <1>9 DEF Amounts
  <2>. QED  BY <1>1, <1>3, <1>5, <1>12, <2>1
<1>15. a.paid = (IF r.asset = Sats THEN 0 ELSE r.units)
  BY <1>4, <1>7 DEF Amounts, PaidUnits, Bitcoin
<1> DEFINE paid == PaidHeld(b.p, a.paid)
<1>16. paid = (IF r.asset = Sats THEN Nothing ELSE Only(r.asset, r.units))
  BY <1>7, <1>15 DEF PaidHeld, Bitcoin
<1>17. AssetChange(b) = change
  BY <1>7, <1>16 DEF AssetChange, LeftHeld
<1> HIDE DEF b, a, hosting, first, paid, left, sats, change, fare, oc
<1>18. /\ hosting = 0 => a.payout = 0
       /\ hosting > 0 /\ hosting < Dust => a.payout = hosting
       /\ hosting >= Dust => a.payout = hosting + oc
  BY <1>3, <1>8, <1>11, <1>13 DEF OperatorPayoutSats, Script
<1>19. /\ FareHeld(fare) \in [Assets -> Nat] /\ paid \in [Assets -> Nat] /\ change \in [Assets -> Int]
       /\ \A x \in Assets : change[x] = (r.coin.held[x] - FareHeld(fare)[x]) - paid[x]
       /\ (hosting = 0 => FareHeld(fare) = Nothing)
  <2>1. FareHeld(fare) \in [Assets -> Nat]
    BY <1>1 DEF FareHeld, Only, Nothing
  <2>2. paid \in [Assets -> Nat]
    BY <1>1, <1>16 DEF Only, Nothing
  <2>3. \A x \in Assets : change[x] = (r.coin.held[x] - FareHeld(fare)[x]) - paid[x]
    BY <1>16 DEF change, LeftHeld, Without, fare
  <2>4. change = [x \in Assets |-> change[x]]
    BY DEF change, LeftHeld, Without
  <2>5. change \in [Assets -> Int]
    <3>1. \A x \in Assets : change[x] \in Int
      BY <1>1, <2>1, <2>2, <2>3
    <3>. QED  BY <2>4, <3>1
  <2>6. hosting = 0 => FareHeld(fare) = Nothing
    <3>1. hosting = 0 => fare.units = 0
      BY <1>1, <1>3, <1>8
    <3>. QED  BY <1>1, <3>1 DEF FareHeld, Only, Nothing
  <2>. QED  BY <2>1, <2>2, <2>3, <2>5, <2>6
<1> DEFINE c1 == [a.first EXCEPT !.held = paid]
           c2 == Coin("operator", a.payout, FareHeld(fare))
           c3 == Coin("sender", left, change)
           c4 == Coin("operator", oc, Nothing)
<1>24. PICK b2 \in BOOLEAN, b3 \in BOOLEAN, b4 \in BOOLEAN :
          /\ b2 <=> hosting > 0
          /\ b3 <=> (left > 0 \/ change # Nothing)
          /\ b4 <=> (oc > 0 /\ a.payout = hosting)
  OBVIOUS
<1> DEFINE outs == <<c1>> \o Perhaps(b2, c2) \o Perhaps(b3, c3) \o Perhaps(b4, c4)
<1>20. PlanOuts(b) = outs
  BY <1>1, <1>2, <1>7, <1>13, <1>14, <1>17, <1>24 DEF PlanOuts, Perhaps, a, paid
<1>21. /\ c1.key = first.key /\ c1.sats = Dust + r.payment /\ c1.held = paid
       /\ c2.key = "operator" /\ c2.sats = a.payout /\ c2.held = FareHeld(fare)
       /\ c3.key = "sender" /\ c3.sats = left /\ c3.held = change
       /\ c4.key = "operator" /\ c4.sats = oc /\ c4.held = Nothing
  BY <1>12, <1>13 DEF Coin, First, first
<1>22. a.payout \in Nat /\ a.payout >= hosting
  BY <1>3, <1>8, <1>11, <1>18
<1>23. IsCoin(c1) /\ IsCoin(c2) /\ IsCoin(c3) /\ IsCoin(c4)
  BY <1>1, <1>3, <1>5, <1>11, <1>19, <1>21, <1>22 DEF IsCoin, Nothing
<1>26. b2 /\ b4 => hosting < Dust
  BY <1>3, <1>8, <1>11, <1>18, <1>24
<1> HIDE DEF c1, c2, c3, c4
<1>27. /\ DistinctScripts(outs)
       /\ \A c \in ToSet(outs) : c # c1 => (b2 /\ c = c2) \/ (b3 /\ c = c3) \/ (b4 /\ c = c4)
       /\ \A i \in DOMAIN outs : outs[i] \in ToSet(outs)
  <2>1. first.key \notin {"operator", "sender"}
    BY <1>1, <1>12 DEF Strangers
  <2>2. /\ Script(c1.key, c1.sats) # Script(c2.key, c2.sats)
        /\ Script(c1.key, c1.sats) # Script(c3.key, c3.sats)
        /\ Script(c1.key, c1.sats) # Script(c4.key, c4.sats)
        /\ Script(c2.key, c2.sats) # Script(c3.key, c3.sats)
        /\ Script(c3.key, c3.sats) # Script(c4.key, c4.sats)
    BY <1>21, <2>1 DEF Script
  <2>3. b2 /\ b4 => Script(c2.key, c2.sats) # Script(c4.key, c4.sats)
    <3>1. b2 /\ b4 => ~(c2.sats >= Dust)
      BY <1>3, <1>8, <1>21, <1>24, <1>26
    <3>2. c4.sats >= Dust
      BY <1>11, <1>21
    <3>. QED  BY <3>1, <3>2 DEF Script
  <2>4. /\ b2 => Script(c1.key, c1.sats) # Script(c2.key, c2.sats)
        /\ b3 => Script(c1.key, c1.sats) # Script(c3.key, c3.sats)
        /\ b4 => Script(c1.key, c1.sats) # Script(c4.key, c4.sats)
        /\ b2 /\ b3 => Script(c2.key, c2.sats) # Script(c3.key, c3.sats)
        /\ b2 /\ b4 => Script(c2.key, c2.sats) # Script(c4.key, c4.sats)
        /\ b3 /\ b4 => Script(c3.key, c3.sats) # Script(c4.key, c4.sats)
    BY <2>2, <2>3
  <2>5. DistinctScripts(outs)
    BY ONLY <2>4, ScriptsOfOutputs, b2 \in BOOLEAN, b3 \in BOOLEAN, b4 \in BOOLEAN
  <2>6. \A c \in ToSet(outs) : c # c1 => (b2 /\ c = c2) \/ (b3 /\ c = c3) \/ (b4 /\ c = c4)
    BY ONLY MembersOfOutputs, b2 \in BOOLEAN, b3 \in BOOLEAN, b4 \in BOOLEAN
  <2>7. \A i \in DOMAIN outs : outs[i] \in ToSet(outs)
    BY DEF ToSet
  <2> HIDE DEF outs
  <2>. QED  BY <2>5, <2>6, <2>7
<1>28. /\ TotalSats(outs) = c1.sats + (IF b2 THEN c2.sats ELSE 0)
              + (IF b3 THEN c3.sats ELSE 0) + (IF b4 THEN c4.sats ELSE 0)
       /\ TotalHeld(outs) = [x \in Assets |-> c1.held[x] + (IF b2 THEN c2.held[x] ELSE 0)
              + (IF b3 THEN c3.held[x] ELSE 0) + (IF b4 THEN c4.held[x] ELSE 0)]
  BY <1>23, TotalsOfOutputs
<1> HIDE DEF outs
<1>29. TotalSats(outs) = r.coin.sats + operator.sats
  <2>1. (IF b3 THEN c3.sats ELSE 0) = left
    BY <1>5, <1>21, <1>24
  <2>2. (IF b2 THEN c2.sats ELSE 0) + (IF b4 THEN c4.sats ELSE 0) = hosting + oc
    <3>1. CASE hosting = 0
      BY <1>3, <1>11, <1>18, <1>21, <1>24, <3>1
    <3>2. CASE hosting > 0 /\ hosting < Dust
      BY <1>3, <1>8, <1>11, <1>18, <1>21, <1>24, <3>2
    <3>3. CASE hosting >= Dust
      BY <1>3, <1>8, <1>11, <1>18, <1>21, <1>24, <3>3
    <3>. QED  BY <1>3, <1>8, <3>1, <3>2, <3>3
  <2>3. oc = operator.sats - Dust - (hosting - sats)
    BY DEF oc
  <2>4. (IF b2 THEN c2.sats ELSE 0) \in Nat /\ (IF b4 THEN c4.sats ELSE 0) \in Nat
    BY <1>11, <1>21, <1>22
  <2> DEFINE x2 == IF b2 THEN c2.sats ELSE 0
             x4 == IF b4 THEN c4.sats ELSE 0
  <2>5. TotalSats(outs) = (Dust + r.payment) + x2 + left + x4 /\ x2 + x4 = hosting + oc
        /\ x2 \in Nat /\ x4 \in Nat
    BY <1>21, <1>28, <2>1, <2>2, <2>4
  <2> HIDE DEF x2, x4
  <2>6. TotalSats(outs) = Dust + r.payment + left + hosting + oc
    BY <1>1, <1>3, <1>5, <1>8, <1>11, <2>5
  <2>7. left = r.coin.sats - r.payment - sats
    BY <1>5
  <2>8. /\ r.coin.sats \in Int /\ r.payment \in Int /\ operator.sats \in Int /\ Dust \in Int
        /\ sats \in Int /\ hosting \in Int /\ left \in Int /\ oc \in Int
    BY <1>1, <1>2, <1>3, <1>5, <1>8, <1>11
  <2>. QED  BY ONLY <2>3, <2>6, <2>7, <2>8
<1>30. TotalHeld(outs) = Both(r.coin.held, operator.held)
  <2>1. \A x \in Assets : (IF b2 THEN c2.held[x] ELSE 0) = FareHeld(fare)[x]
    BY <1>8, <1>19, <1>21, <1>24 DEF Nothing
  <2>2. \A x \in Assets : (IF b3 THEN c3.held[x] ELSE 0) = change[x]
    BY <1>19, <1>21, <1>24 DEF Nothing
  <2>3. \A x \in Assets : (IF b4 THEN c4.held[x] ELSE 0) = 0
    BY <1>21 DEF Nothing
  <2>4. ASSUME NEW x \in Assets PROVE TotalHeld(outs)[x] = r.coin.held[x]
    <3>1. TotalHeld(outs)[x] = c1.held[x] + FareHeld(fare)[x] + change[x] + 0
      BY <1>28, <2>1, <2>2, <2>3
    <3>2. c1.held[x] = paid[x] /\ change[x] = (r.coin.held[x] - FareHeld(fare)[x]) - paid[x]
      BY <1>19, <1>21
    <3>3. paid[x] \in Int /\ FareHeld(fare)[x] \in Int /\ r.coin.held[x] \in Int
      BY <1>1, <1>19
    <3>. QED  BY <3>1, <3>2, <3>3
  <2>5. TotalHeld(outs) = [x \in Assets |-> TotalHeld(outs)[x]]
    BY DEF TotalHeld
  <2>6. \A x \in Assets : Both(r.coin.held, operator.held)[x] = r.coin.held[x]
    BY <1>1, <1>2 DEF Both, Nothing
  <2>7. Both(r.coin.held, operator.held) = [x \in Assets |-> Both(r.coin.held, operator.held)[x]]
    BY DEF Both
  <2>. QED  BY <2>4, <2>5, <2>6, <2>7
<1>31. /\ TotalSats(<<r.coin, operator>>) = r.coin.sats + operator.sats
       /\ TotalHeld(<<r.coin, operator>>) = Both(r.coin.held, operator.held)
  <2>1. IsCoin(r.coin) /\ IsCoin(operator)
    BY <1>1, <1>2 DEF IsCoin, Nothing
  <2>. QED  BY <2>1, TotalsOfTwo
<1>32. \A i \in DOMAIN outs : outs[i].sats >= Floor(r.kind)
  <2>1. c1.sats >= Floor(r.kind) /\ c4.sats >= Floor(r.kind)
    BY <1>1, <1>3, <1>11, <1>21 DEF Floor
  <2>2. b2 => c2.sats >= Floor(r.kind)
    <3>1. r.kind = "lockup" /\ b2 => hosting >= Dust
      <4>1. r.kind = "lockup" => sats \notin 1 .. (Dust - 1)
        BY DEF sats
      <4>. QED  BY <1>1, <1>3, <1>5, <1>8, <1>24, <4>1
    <3>2. r.kind = "payment" /\ b2 => hosting >= VtxoMin
      BY <1>1, <1>3, <1>4, <1>8, <1>24
    <3>. QED  BY <1>1, <1>3, <1>8, <1>21, <1>22, <3>1, <3>2 DEF Floor
  <2>3. b3 => c3.sats >= Floor(r.kind)
    <3>1. r.kind = "lockup" => left \notin 1 .. (Dust - 1)
      BY DEF left
    <3>2. r.kind = "lockup" /\ b3 => left >= Dust
      BY <1>3, <1>4, <1>5, <1>24, <3>1
    <3>. QED  BY <1>1, <1>4, <1>21, <3>2 DEF Floor
  <2>. QED  BY <1>27, <2>1, <2>2, <2>3
<1>33. r.kind = "lockup" => ValidParams(b.p)
  <2>1. \A k, l \in {"receiver", "sender", "operator"} : k # l => b.p[k] # b.p[l]
    BY <1>1, <1>7 DEF Strangers
  <2>2. b.p.sender # b.p.signer /\ b.p.receiver # b.p.signer
    BY <1>1, <1>7 DEF Strangers
  <2>. QED  BY <1>1, <1>3, <1>7, <2>1, <2>2 DEF ValidParams
<1>39. TwoReturnsAtMost(b)
  <2>1. c1.sats >= Dust /\ c4.sats >= Dust
    BY <1>1, <1>3, <1>11, <1>21
  <2>2. r.kind = "payment" => ~(fare.units > 0 /\ VtxoMin < Dust /\ left \in 1 .. (Dust - 1))
    BY DEF fare, left
  <2>3. b2 /\ b3 => ~(c2.sats < Dust /\ c3.sats < Dust)
    <3>1. CASE r.kind = "lockup"
      <4>1. b2 => c2.sats >= Dust
        <5>1. sats \notin 1 .. (Dust - 1)
          BY <3>1 DEF sats
        <5>. QED  BY <1>1, <1>3, <1>5, <1>8, <1>21, <1>22, <1>24, <3>1, <5>1
      <4>. QED  BY <1>3, <1>21, <1>22, <4>1
    <3>2. ASSUME r.kind = "payment", b2, b3, c2.sats < Dust, c3.sats < Dust PROVE FALSE
      <4>1. fare.currency # Sats /\ left >= VtxoMin
        BY <1>4, <3>2
      <4>2. hosting > 0 /\ hosting < Dust
        BY <1>3, <1>8, <1>21, <1>22, <1>24, <3>2
      <4>3. fare.units > 0 /\ VtxoMin < Dust
        BY <1>1, <1>8, <3>2, <4>1, <4>2
      <4>4. left \in 1 .. (Dust - 1)
        BY <1>3, <1>5, <1>21, <3>2, <4>1
      <4>. QED  BY <2>2, <3>2, <4>3, <4>4
    <3>. QED  BY <1>1, <3>1, <3>2
  <2>4. ASSUME NEW i \in DOMAIN outs, NEW j \in DOMAIN outs,
               outs[i].sats < Dust, outs[j].sats < Dust
        PROVE  i = j
    <3>1. /\ (b2 /\ outs[i] = c2) \/ (b3 /\ outs[i] = c3)
          /\ (b2 /\ outs[j] = c2) \/ (b3 /\ outs[j] = c3)
      <4>1. c1.sats \in Int /\ c4.sats \in Int /\ Dust \in Int
        BY <1>3, <1>23 DEF IsCoin
      <4>2. outs[i] # c1 /\ outs[i] # c4 /\ outs[j] # c1 /\ outs[j] # c4
        BY <2>1, <2>4, <4>1
      <4>3. outs[i] \in ToSet(outs) /\ outs[j] \in ToSet(outs)
        BY <1>27
      <4>. QED  BY ONLY <1>27, <4>2, <4>3
    <3>2. outs[i] = outs[j]
      BY <2>3, <2>4, <3>1
    <3>. QED  BY <1>27, <3>2 DEF DistinctScripts
  <2>. QED  BY <1>20, <2>4 DEF TwoReturnsAtMost
<1>34. Plannable(b)
  <2>1. /\ ~Bitcoin(b.p) => b.coin.held[b.p.asset] > 0 /\ a.paid > 0
        /\ b.fare.currency # Sats /\ b.fare.units > 0 => b.coin.held[b.fare.currency] > 0
    <3>1. \A x \in Assets : /\ change[x] = (r.coin.held[x] - FareHeld(fare)[x]) - paid[x]
                            /\ change[x] >= 0 /\ r.coin.held[x] \in Nat
                            /\ FareHeld(fare)[x] \in Nat /\ paid[x] \in Nat
      BY <1>1, <1>4, <1>19
    <3>2. \A x \in Assets : r.coin.held[x] >= FareHeld(fare)[x] /\ r.coin.held[x] >= paid[x]
      BY <3>1
    <3>3. r.asset # Sats => r.asset \in Assets /\ paid[r.asset] = r.units
      BY <1>1, <1>16 DEF Currencies, Only, Nothing
    <3>4. fare.currency # Sats => fare.currency \in Assets /\ FareHeld(fare)[fare.currency] = fare.units
      BY <1>1 DEF Currencies, FareHeld, Only, Nothing
    <3>5. r.asset # Sats => r.coin.held[r.asset] > 0 /\ a.paid > 0
      BY <1>1, <1>4, <1>15, <3>1, <3>2, <3>3
    <3>6. fare.currency # Sats /\ fare.units > 0 => r.coin.held[fare.currency] > 0
      BY <1>1, <3>1, <3>2, <3>4
    <3>. QED  BY <1>7, <3>5, <3>6 DEF Bitcoin
  <2>2. /\ b.p.operator = "operator"
        /\ (IF b.kind = "lockup" THEN ValidParams(b.p) ELSE b.p.topup >= VtxoMin /\ b.p.topup <= Dust)
        /\ b.fare.units >= 0
        /\ (b.payer = "sender" => b.fare.currency = Sats /\ b.fare.units > 0)
        /\ a.senderChange >= 0 /\ a.operatorChange >= 0
    BY <1>1, <1>3, <1>4, <1>7, <1>11, <1>13, <1>14, <1>33
  <2>3. /\ \A asset \in Assets : AssetChange(b)[asset] >= 0
        /\ (AssetChange(b) # Nothing => a.senderChange >= VtxoMin)
    BY <1>3, <1>4, <1>5, <1>14, <1>17
  <2>4. /\ \A i \in DOMAIN PlanOuts(b) : PlanOuts(b)[i].sats >= Floor(b.kind)
        /\ DistinctScripts(PlanOuts(b))
        /\ TotalSats(PlanOuts(b)) = TotalSats(<<b.coin, b.operator>>)
        /\ TotalHeld(PlanOuts(b)) = TotalHeld(<<b.coin, b.operator>>)
        /\ TwoReturnsAtMost(b)
    BY <1>7, <1>20, <1>27, <1>29, <1>30, <1>31, <1>32, <1>39
  <2> DEFINE planned == PlanOuts(b)
             kept == AssetChange(b)
  <2> HIDE DEF planned, kept
  <2>. QED  BY <2>1, <2>2, <2>3, <2>4 DEF Plannable, a, planned, kept
<1>35. Parses(b, Envelope(b))
  <2>1. Envelope(b).tx.outs = outs
    BY <1>20 DEF Envelope
  <2>2. Floor(r.kind) >= VtxoMin /\ Floor(r.kind) \in Nat
    BY <1>3 DEF Floor
  <2>3. \A i \in DOMAIN outs : outs[i].sats \in Int
    BY <1>23, <1>27 DEF IsCoin
  <2>4. \A i \in DOMAIN outs : outs[i].sats >= VtxoMin
    BY <1>3, <1>32, <2>2, <2>3
  <2>. QED  BY <1>34, <2>1, <2>4 DEF Parses
<1>36. FarePayable(r, b.fare)
  BY <1>1, <1>4, <1>5, <1>7 DEF FarePayable
<1>37. Covers(operator, b)
  BY <1>2, <1>3, <1>5, <1>7, <1>8, <1>10 DEF Covers, hosting
<1>38. Verifies(r, QuoteOf(b))
  <2>1. Plannable(BuildRequest(r, rule, operator))
    BY <1>34 DEF b
  <2>2. ResolveFare(rule.fare, r.asset, r.units).currency = r.maxFare.currency
        /\ ResolveFare(rule.fare, r.asset, r.units).units <= r.maxFare.units
    BY <1>1, <1>4 DEF fare
  <2>. QED  BY <1>4, <2>1, <2>2, HonestIsVerified DEF b
<1>. QED  BY <1>34, <1>35, <1>36, <1>37, <1>38 DEF b

\* What is planned is a plan of the wallet's, under the policy it was made from.
PlanInv ==
    stage = "planned" => policy \in Rules /\ \E payment \in PlannedPayments : ask \in PlansOf(payment, policy)

\* A plan is answered from every coin of three dust units and signed, but for a fare or
\* change below dust in a covenant transfer and for both below dust in a payment.
LEMMA PlannedIsServed == PlanInv => PlanIsServed
<1> SUFFICES ASSUME PlanInv, stage = "planned" PROVE PlanIsServed
  BY DEF PlanIsServed
<1>1. PICK payment \in PlannedPayments : policy \in Rules /\ ask \in PlansOf(payment, policy)
  BY DEF PlanInv
<1>2. ask \in TransferAsks /\ Sendable(ask, policy)
  BY <1>1, PlansAreSendable
<1> DEFINE low == ask.kind = "lockup" /\ {FareInSats(ask), LeftSats(ask)} \cap 1 .. (Dust - 1) # {}
           third == /\ ask.kind = "payment" /\ ask.maxFare.units > 0 /\ VtxoMin < Dust
                    /\ LeftSats(ask) \in 1 .. (Dust - 1)
<1>3. CASE low
  BY <1>3 DEF PlanIsServed, FareInSats, LeftSats
<1>4. CASE third
  BY <1>4 DEF PlanIsServed, FareInSats, LeftSats
<1>5. CASE ~low /\ ~third
  <2>1. ask.kind = "lockup" => /\ FareInSats(ask) \notin 1 .. (Dust - 1)
                               /\ LeftSats(ask) \notin 1 .. (Dust - 1)
    BY <1>5
  <2>2. ask.kind = "payment" =>
           ~(ask.maxFare.units > 0 /\ VtxoMin < Dust /\ LeftSats(ask) \in 1 .. (Dust - 1))
    BY <1>5
  <2>3. ASSUME NEW operator \in OperatorCoins, operator.sats >= 3 * Dust
        PROVE  Answerable(policy, operator) /\ Verifies(ask, QuoteOf(BuildRequest(ask, policy, operator)))
    <3> DEFINE b == BuildRequest(ask, policy, operator)
    <3>1. /\ FarePayable(ask, b.fare) /\ Covers(operator, b)
          /\ Parses(b, Envelope(b)) /\ Verifies(ask, QuoteOf(b))
      BY <1>1, <1>2, <2>1, <2>2, <2>3, SendableIsServed
    <3>2. Admitted(ask, policy)
      BY <1>2 DEF Sendable
    <3>3. Answerable(policy, operator)
      BY <3>1, <3>2 DEF Answerable
    <3>. QED  BY <3>1, <3>3
  <2>. QED  BY <2>3 DEF PlanIsServed
<1>. QED  BY <1>3, <1>4, <1>5

\* Every step keeps what is planned a plan.
LEMMA PlanSteps == ValueInv /\ PlanInv /\ [Next]_vars => PlanInv'
<1> SUFFICES ASSUME ValueInv, PlanInv, [Next]_vars, stage' = "planned" PROVE PlanInv'
  BY DEF PlanInv
<1>1. ASSUME NEW rule \in Rules, Plan(rule) PROVE PlanInv'
  <2>1. stage = "planning" /\ policy' = rule /\ ask' \in PlansOf(ask, rule)
    BY <1>1 DEF Plan
  <2>2. ask \in PlannedPayments
    BY <2>1 DEF ValueInv
  <2>. QED  BY <2>1, <2>2 DEF PlanInv
<1>2. ASSUME NEW rule, SetPolicy(rule) PROVE FALSE
  BY <1>2 DEF SetPolicy
<1>3. ASSUME AskForQuote \/ Verify \/ Land \/ VerifyReceive PROVE FALSE
  BY <1>3 DEF AskForQuote, Verify, Land, VerifyReceive
<1>4. ASSUME NEW rule, NEW operator, Quote(rule, operator) \/ Misquote(rule, operator) PROVE FALSE
  BY <1>4 DEF Quote, Misquote
<1>5. ASSUME NEW operator, QuoteReceive(operator) \/ MisquoteReceive(operator) PROVE FALSE
  BY <1>5 DEF QuoteReceive, MisquoteReceive
<1>6. ASSUME NEW e, Post(e) PROVE FALSE
  BY <1>6 DEF Post
<1>7. ASSUME NEW g, Fill(g) PROVE FALSE
  BY <1>7 DEF Fill
<1>8. ASSUME NEW leaf, NEW tx, NEW by, SpendBy(leaf, tx, by) PROVE FALSE
  BY <1>8 DEF SpendBy
<1>9. ASSUME Purchase \/ Reclaim PROVE FALSE
  BY <1>8, <1>9 DEF Purchase, Reclaim
<1>10. ASSUME NEW fund, Recycle(fund) \/ Refund(fund) PROVE FALSE
  BY <1>8, <1>10 DEF Recycle, Refund
<1>11. ASSUME NEW leaf, NEW fund, OtherSpend(leaf, fund) PROVE FALSE
  BY <1>8, <1>11 DEF OtherSpend
<1>12. CASE UNCHANGED vars
  BY <1>12 DEF vars, PlanInv
<1>. QED
  BY <1>1, <1>2, <1>3, <1>4, <1>5, <1>6, <1>7, <1>9, <1>10, <1>11, <1>12 DEF Next

\* The wallet begins with nothing quoted and nothing planned.
LEMMA HonestStarts == Init => HonestInv /\ PlanInv
BY DEF Init, HonestInv, AnswerIsSigned, PlanInv

\* What a wallet plans the service answers, and an honest answer within what was authorised
\* is signed, whatever the operator does to its policy in between.
THEOREM HonestQuotesAreSigned == Spec => []HonestQuoteIsSigned
<1>1. HonestInv /\ PlanInv => HonestQuoteIsSigned
  BY PlannedIsServed DEF HonestInv, HonestQuoteIsSigned
<1>. QED  BY <1>1, ValueStarts, ValueSteps, HonestStarts, HonestSteps, PlanSteps, PTL DEF Spec

-----------------------------------------------------------------------------
(* What is locked and how it is spent. *)

\* A locked covenant: its terms are valid, its coin is the lockup's, and where it carries
\* an asset its units exceed the fare its recycle owes.
IsLockup(p, c) ==
    /\ p \in TermsSet /\ ValidParams(p) /\ p.operator = "operator"
    /\ c.key = "covenant" /\ c.sats = LockupSats(p)
    /\ IF p.asset = Sats THEN c.held = Nothing
       ELSE \E n \in Int : n > AssetFare(p) /\ c.held = Only(p.asset, n)

\* One asset's units.
LEMMA OnlyHolds ==
    ASSUME NEW a, NEW n \in Int
    PROVE  /\ Only(a, n) \in [Assets -> Int]
           /\ a \in Assets => Only(a, n)[a] = n
           /\ \A b \in Assets : b # a => Only(a, n)[b] = 0
<1>1. CASE a \in Assets
  <2>1. Only(a, n) = [b \in Assets |-> IF b = a THEN n ELSE 0]
    BY <1>1 DEF Only, Nothing
  <2>. QED  BY <1>1, <2>1
<1>2. CASE a \notin Assets
  <2>1. Only(a, n) = [b \in Assets |-> 0]
    BY <1>2 DEF Only, Nothing
  <2>. QED  BY <1>2, <2>1
<1>. QED  BY <1>1, <1>2

\* The amounts of a locked covenant.
LEMMA LockupAmounts ==
    ASSUME NEW p, NEW c, IsLockup(p, c)
    PROVE  /\ IsCoin(c) /\ LoanSats(p) = Dust /\ AssetFare(p) \in Nat
           /\ OperatorSats(p) \in Int /\ OperatorSats(p) >= Dust
           /\ LockupSats(p) \in Nat /\ LockupSats(p) >= Dust /\ LockupSats(p) = Dust + p.payment
           /\ p.payment \in Nat /\ p.asset \in Currencies
           /\ p.receiver \in Strangers /\ p.operator = "operator" /\ p.sender # "operator"
           /\ p.asset = Sats => AssetFare(p) = 0
           /\ p.asset # Sats => p.asset \in Assets /\ c.held[p.asset] > AssetFare(p)
<1>1. /\ p \in TermsSet /\ ValidParams(p) /\ p.operator = "operator" /\ c.sats = LockupSats(p)
      /\ IF p.asset = Sats THEN c.held = Nothing
         ELSE \E n \in Int : n > AssetFare(p) /\ c.held = Only(p.asset, n)
  BY DEF IsLockup
<1>2. /\ p.topup = Dust /\ p.payment \in Nat /\ p.fareUnits \in Nat /\ p.asset \in Currencies
      /\ p.receiver \in Strangers /\ p.sender # "operator"
      /\ p.fareIn # "none" => p.asset # Sats
  BY <1>1 DEF ValidParams, TermsSet
<1>3. Dust \in Nat /\ Dust > 0
  BY DustAssumption
<1>4. /\ LoanSats(p) = Dust /\ AssetFare(p) \in Nat /\ OperatorSats(p) \in Int /\ OperatorSats(p) >= Dust
      /\ LockupSats(p) \in Nat /\ LockupSats(p) >= Dust /\ LockupSats(p) = Dust + p.payment
      /\ p.asset = Sats => AssetFare(p) = 0
  BY <1>2, <1>3 DEF LoanSats, AssetFare, OperatorSats, LockupSats
<1>5. p.asset # Sats => p.asset \in Assets
  BY <1>2 DEF Currencies
<1>6. c.held \in [Assets -> Int] /\ (p.asset # Sats => c.held[p.asset] > AssetFare(p))
  <2>1. CASE p.asset = Sats
    BY <1>1, <2>1 DEF Nothing
  <2>2. CASE p.asset # Sats
    <3>1. PICK n \in Int : n > AssetFare(p) /\ c.held = Only(p.asset, n)
      BY <1>1, <2>2
    <3>2. Only(p.asset, n) \in [Assets -> Int] /\ Only(p.asset, n)[p.asset] = n
      BY <1>5, <2>2, OnlyHolds
    <3>. QED  BY <3>1, <3>2
  <2>. QED  BY <2>1, <2>2
<1>. QED  BY <1>1, <1>2, <1>4, <1>5, <1>6 DEF IsCoin

\* All a covenant holds, alone and beside a claimant's coin.
LEMMA PacketOfOne ==
    ASSUME NEW p, NEW c, IsCoin(c) PROVE Packet(p, <<c>>, 0) = c.held
<1>1. TotalHeld(<<c>>) = c.held /\ c.held \in [Assets -> Int]
  BY TotalsOfFew DEF IsCoin
<1>2. Without(c.held, Nothing) = c.held
  BY <1>1 DEF Without, Nothing
<1>. QED  BY <1>1, <1>2 DEF Packet

LEMMA PacketOfTwo ==
    ASSUME NEW p, NEW c, NEW f, IsCoin(c), IsCoin(f), NEW fare \in Nat
    PROVE  /\ Packet(p, <<c, f>>, fare) \in [Assets -> Int]
           /\ TotalHeld(<<c, f>>) = Both(c.held, f.held)
           /\ p.asset \in Assets =>
                 Packet(p, <<c, f>>, fare)[p.asset] = c.held[p.asset] + f.held[p.asset] - fare
<1>1. TotalHeld(<<c, f>>) = Both(c.held, f.held)
  BY TotalsOfTwo
<1>2. Both(c.held, f.held) \in [Assets -> Int]
  BY DEF Both, IsCoin
<1>3. CASE fare > 0
  <2>1. Packet(p, <<c, f>>, fare) = Without(Both(c.held, f.held), Only(p.asset, fare))
    BY <1>1, <1>3 DEF Packet
  <2>2. Only(p.asset, fare) \in [Assets -> Int] /\ (p.asset \in Assets => Only(p.asset, fare)[p.asset] = fare)
    BY OnlyHolds
  <2>3. Without(Both(c.held, f.held), Only(p.asset, fare)) \in [Assets -> Int]
    BY <1>2, <2>2 DEF Without
  <2>4. ASSUME p.asset \in Assets
        PROVE  Without(Both(c.held, f.held), Only(p.asset, fare))[p.asset]
                  = c.held[p.asset] + f.held[p.asset] - fare
    <3>1. /\ Without(Both(c.held, f.held), Only(p.asset, fare))[p.asset]
                = Both(c.held, f.held)[p.asset] - Only(p.asset, fare)[p.asset]
          /\ Both(c.held, f.held)[p.asset] = c.held[p.asset] + f.held[p.asset]
      BY <2>4 DEF Without, Both
    <3>2. c.held[p.asset] \in Int /\ f.held[p.asset] \in Int
      BY <2>4 DEF IsCoin
    <3>. QED  BY <2>2, <2>4, <3>1, <3>2
  <2>. QED  BY <1>1, <2>1, <2>3, <2>4
<1>4. CASE ~(fare > 0)
  <2>1. Packet(p, <<c, f>>, fare) = Without(Both(c.held, f.held), Nothing) /\ fare = 0
    BY <1>1, <1>4 DEF Packet
  <2>. QED  BY <1>1, <1>2, <2>1 DEF Without, Both, IsCoin, Nothing
<1>. QED  BY <1>3, <1>4

\* The client's purchase passes its leaf and is told as one.
LEMMA PurchaseSettles ==
    ASSUME NEW p, NEW c, IsLockup(p, c), CanPurchase(p)
    PROVE  /\ Admits(p, "purchase", PurchaseTx(p, c))
           /\ Classify(p, "purchase", PurchaseTx(p, c), c.held, TRUE) = "purchased"
<1> DEFINE tx == PurchaseTx(p, c)
<1>1. /\ LockupSats(p) \in Nat /\ LockupSats(p) >= Dust /\ IsCoin(c) /\ Dust \in Nat /\ c.sats = LockupSats(p)
  BY LockupAmounts, DustAssumption DEF IsLockup
<1>2. Packet(p, <<c>>, 0) = c.held
  BY <1>1, PacketOfOne
<1>3. /\ tx.ins = <<c>> /\ Len(tx.ins) = 1 /\ tx.ins[1] = c /\ Len(tx.outs) = 1 /\ DOMAIN tx.outs = {1}
      /\ tx.outs[1].key = p.receiver /\ tx.outs[1].sats = LockupSats(p) /\ tx.outs[1].held = c.held
  BY <1>2 DEF PurchaseTx, Coin
<1> HIDE DEF tx
<1>4. Script(p.receiver, LockupSats(p)) = <<p.receiver, TRUE>>
  BY <1>1 DEF Script
<1>5. PurchaseLeaf(p, tx)
  <2>1. Carries(p, tx.outs[1], Units(p, tx.ins[1]))
    BY <1>3 DEF Carries, Units
  <2>. QED  BY <1>1, <1>3, <1>4, <2>1 DEF PurchaseLeaf, Pays
<1>6. ClassifyPurchase(p, tx)
  <2>1. ExactOutput(tx, 1, LockupSats(p), <<p.receiver, TRUE>>)
    BY <1>3, <1>4 DEF ExactOutput
  <2>2. ExactExtension(p, tx, <<c>>, 1, 0)
    BY <1>2, <1>3 DEF ExactExtension, Encodable
  <2>. QED  BY <1>3, <2>1, <2>2 DEF ClassifyPurchase, CanPurchase
<1>7. Admits(p, "purchase", tx)
  BY <1>5 DEF Admits, CanPurchase
<1>8. Classify(p, "purchase", tx, c.held, TRUE) = "purchased"
  BY <1>1, <1>3, <1>6 DEF Classify
<1>. QED  BY <1>7, <1>8 DEF tx

\* So does the client's recycle.
LEMMA RecycleSettles ==
    ASSUME NEW p, NEW c, NEW f, IsLockup(p, c), IsCoin(f), CanRecycle(p, c, f)
    PROVE  /\ Admits(p, "recycle", RecycleTx(p, c, f))
           /\ Classify(p, "recycle", RecycleTx(p, c, f), c.held, TRUE) = "recycled"
<1> DEFINE tx == RecycleTx(p, c, f)
           fare == AssetFare(p)
<1>1. /\ LockupSats(p) \in Nat /\ IsCoin(c) /\ Dust \in Nat /\ c.sats = LockupSats(p)
      /\ OperatorSats(p) \in Int /\ OperatorSats(p) >= Dust /\ fare \in Nat
      /\ p.asset # Sats => p.asset \in Assets
      /\ p.asset = Sats => fare = 0
  BY LockupAmounts, DustAssumption DEF IsLockup
<1>2. /\ ~Disabled(p, "recycle") /\ Fundable(f, p.receiver)
      /\ Merged(p, f) >= Dust /\ Merged(p, f) >= VtxoMin
      /\ Encodable(p, <<c, f>>, fare)
  BY DEF CanRecycle
<1>3. /\ tx.ins = <<c, f>> /\ Len(tx.ins) = 2 /\ tx.ins[1] = c /\ tx.ins[2] = f
      /\ Len(tx.outs) = 2 /\ DOMAIN tx.outs = {1, 2}
      /\ tx.outs[1].key = p.operator /\ tx.outs[1].sats = OperatorSats(p)
      /\ tx.outs[1].held = (IF fare > 0 THEN Only(p.asset, fare) ELSE Nothing)
      /\ tx.outs[2].key = p.receiver /\ tx.outs[2].sats = Merged(p, f)
      /\ tx.outs[2].held = Packet(p, <<c, f>>, fare)
  BY DEF RecycleTx, Coin
<1>4. p.asset \in Assets => Packet(p, <<c, f>>, fare)[p.asset] = c.held[p.asset] + f.held[p.asset] - fare
  BY <1>1, PacketOfTwo
<1>5. p.asset \in Assets => Only(p.asset, fare)[p.asset] = fare
  BY <1>1, OnlyHolds
<1> HIDE DEF tx, fare
<1>6. Merged(p, f) = c.sats + f.sats - OperatorSats(p)
  BY <1>1 DEF Merged
<1>7. /\ Script(p.operator, OperatorSats(p)) = <<p.operator, TRUE>>
      /\ Script(p.receiver, Merged(p, f)) = <<p.receiver, TRUE>>
  BY <1>1, <1>2 DEF Script
<1>8. RecycleLeaf(p, tx)
  <2>1. fare > 0 => Carries(p, tx.outs[1], fare)
    BY <1>1, <1>3, <1>5 DEF Carries
  <2>2. Carries(p, tx.outs[2], Units(p, tx.ins[1]) + Units(p, tx.ins[2]) - fare)
    BY <1>1, <1>3, <1>4 DEF Carries, Units
  <2>3. Pays(tx.ins[2], p.receiver)
    BY <1>2, <1>3 DEF Fundable
  <2>4. Pays(tx.outs[1], p.operator)
    BY <1>3, <1>7 DEF Pays
  <2>5. Pays(tx.outs[2], p.receiver)
    BY <1>3, <1>7 DEF Pays
  <2>6. tx.outs[2].sats = tx.ins[1].sats + tx.ins[2].sats - OperatorSats(p)
    BY <1>3, <1>6
  <2>. QED  BY <1>3, <2>1, <2>2, <2>3, <2>4, <2>5, <2>6 DEF RecycleLeaf, fare
<1>9. ClassifyRecycle(p, tx)
  <2>1. /\ ExactOutput(tx, 1, OperatorSats(p), Script(p.operator, OperatorSats(p)))
        /\ ExactOutput(tx, 2, Merged(p, tx.ins[2]), <<p.receiver, TRUE>>)
    BY <1>3, <1>7 DEF ExactOutput
  <2>2. ExactExtension(p, tx, tx.ins, 2, fare)
    BY <1>2, <1>3 DEF ExactExtension
  <2>. QED  BY <1>2, <1>3, <2>1, <2>2 DEF ClassifyRecycle, fare
<1>10. Admits(p, "recycle", tx)
  BY <1>2, <1>8 DEF Admits
<1>11. Classify(p, "recycle", tx, c.held, TRUE) = "recycled"
  BY <1>1, <1>3, <1>9 DEF Classify
<1>. QED  BY <1>10, <1>11 DEF tx

\* And its refund.
LEMMA RefundSettles ==
    ASSUME NEW p, NEW c, NEW f, IsLockup(p, c), IsCoin(f), CanRefund(p, f)
    PROVE  /\ Admits(p, "refund", RefundTx(p, c, f))
           /\ Classify(p, "refund", RefundTx(p, c, f), c.held, TRUE) = "refunded"
<1> DEFINE tx == RefundTx(p, c, f)
<1>1. /\ LockupSats(p) \in Nat /\ IsCoin(c) /\ Dust \in Nat /\ c.sats = LockupSats(p)
      /\ LoanSats(p) = Dust
      /\ p.asset # Sats => p.asset \in Assets
  BY LockupAmounts, DustAssumption DEF IsLockup
<1>2. Fundable(f, f.key) /\ Returned(p, f) >= Dust
  BY DEF CanRefund
<1>3. /\ tx.ins = <<c, f>> /\ Len(tx.ins) = 2 /\ tx.ins[1] = c /\ tx.ins[2] = f
      /\ Len(tx.outs) = 2 /\ DOMAIN tx.outs = {1, 2}
      /\ tx.outs[1].key = p.operator /\ tx.outs[1].sats = LoanSats(p) /\ tx.outs[1].held = Nothing
      /\ tx.outs[2].key = f.key /\ tx.outs[2].sats = Returned(p, f)
      /\ tx.outs[2].held = Packet(p, <<c, f>>, 0)
  BY DEF RefundTx, Coin
<1>4. p.asset \in Assets => Packet(p, <<c, f>>, 0)[p.asset] = c.held[p.asset] + f.held[p.asset]
  <2>1. p.asset \in Assets => Packet(p, <<c, f>>, 0)[p.asset] = c.held[p.asset] + f.held[p.asset] - 0
    <3>1. 0 \in Nat
      OBVIOUS
    <3>. QED  BY <1>1, <3>1, PacketOfTwo
  <2>2. p.asset \in Assets => c.held[p.asset] \in Int /\ f.held[p.asset] \in Int
    BY <1>1 DEF IsCoin
  <2>. QED  BY <2>1, <2>2
<1> HIDE DEF tx
<1>5. Returned(p, f) = c.sats + f.sats - LoanSats(p)
  BY <1>1 DEF Returned
<1>6. /\ Script(p.operator, LoanSats(p)) = <<p.operator, TRUE>>
      /\ Script(f.key, Returned(p, f)) = <<f.key, TRUE>>
      /\ Script(f.key, f.sats) = <<f.key, TRUE>>
  <2>1. Returned(p, f) \in Int
    BY <1>1 DEF Returned, IsCoin
  <2>2. Script(p.operator, LoanSats(p)) = <<p.operator, TRUE>>
    <3>1. LoanSats(p) \in Int /\ LoanSats(p) >= Dust
      BY <1>1
    <3>. QED  BY <3>1 DEF Script
  <2>3. Script(f.key, Returned(p, f)) = <<f.key, TRUE>>
    BY <1>1, <1>2, <2>1 DEF Script
  <2>4. Script(f.key, f.sats) = <<f.key, TRUE>>
    BY <1>2 DEF Fundable, Pays
  <2>. QED  BY <2>2, <2>3, <2>4
<1>7. RefundLeaf(p, tx)
  <2>1. Carries(p, tx.outs[2], Units(p, tx.ins[1]) + Units(p, tx.ins[2]))
    BY <1>1, <1>3, <1>4 DEF Carries, Units
  <2>2. Pays(tx.ins[2], tx.ins[2].key)
    BY <1>3, <1>6 DEF Pays
  <2>3. Pays(tx.outs[1], p.operator)
    BY <1>3, <1>6 DEF Pays
  <2>4. Pays(tx.outs[2], tx.ins[2].key)
    BY <1>3, <1>6 DEF Pays
  <2>5. tx.outs[2].sats = tx.ins[1].sats + tx.ins[2].sats - LoanSats(p)
    BY <1>3, <1>5
  <2>. QED  BY <1>3, <2>1, <2>2, <2>3, <2>4, <2>5 DEF RefundLeaf
<1>8. ClassifyRefund(p, tx)
  <2>1. /\ ExactOutput(tx, 1, LoanSats(p), Script(p.operator, LoanSats(p)))
        /\ ExactOutput(tx, 2, Returned(p, tx.ins[2]), Script(tx.ins[2].key, tx.ins[2].sats))
    <3>1. 1 <= Len(tx.outs) /\ 2 <= Len(tx.outs)
      BY <1>3
    <3>2. Script(tx.outs[1].key, tx.outs[1].sats) = Script(p.operator, LoanSats(p))
      BY <1>3
    <3>3. Script(tx.outs[2].key, tx.outs[2].sats) = Script(tx.ins[2].key, tx.ins[2].sats)
      BY <1>3, <1>6
    <3>4. tx.outs[2].sats = Returned(p, tx.ins[2])
      BY <1>3
    <3>. QED  BY <1>3, <3>1, <3>2, <3>3, <3>4 DEF ExactOutput
  <2>2. ExactExtension(p, tx, tx.ins, 2, 0)
    BY <1>3 DEF ExactExtension, Encodable
  <2>. QED  BY <1>3, <2>1, <2>2 DEF ClassifyRefund
<1>9. Admits(p, "refund", tx)
  BY <1>7 DEF Admits, Disabled
<1>10. Classify(p, "refund", tx, c.held, TRUE) = "refunded"
  BY <1>1, <1>3, <1>8 DEF Classify
<1>. QED  BY <1>9, <1>10 DEF tx

\* And the reclaim of the recovery runner.
LEMMA ReclaimSettles ==
    ASSUME NEW p, NEW c, IsLockup(p, c)
    PROVE  /\ Admits(p, "reclaim", ReclaimTx(p, c))
           /\ Classify(p, "reclaim", ReclaimTx(p, c), c.held, TRUE) = "recovered"
<1> DEFINE tx == ReclaimTx(p, c)
<1>1. /\ LockupSats(p) \in Nat /\ LockupSats(p) >= Dust /\ IsCoin(c) /\ Dust \in Nat /\ c.sats = LockupSats(p)
  BY LockupAmounts, DustAssumption DEF IsLockup
<1>2. Packet(p, <<c>>, 0) = c.held
  BY <1>1, PacketOfOne
<1>3. /\ tx.ins = <<c>> /\ tx.ins[1] = c /\ Len(tx.outs) = 1 /\ DOMAIN tx.outs = {1}
      /\ tx.outs[1].key = p.operator /\ tx.outs[1].sats = LockupSats(p) /\ tx.outs[1].held = c.held
  BY DEF ReclaimTx, Coin
<1> HIDE DEF tx
<1>4. Script(p.operator, LockupSats(p)) = <<p.operator, TRUE>>
  BY <1>1 DEF Script
<1>5. ReclaimLeaf(p, tx)
  <2>1. Carries(p, tx.outs[1], Units(p, tx.ins[1]))
    BY <1>3 DEF Carries, Units
  <2>. QED  BY <1>1, <1>3, <1>4, <2>1 DEF ReclaimLeaf, Pays
<1>6. ClassifyReclaim(p, tx, TRUE)
  <2>1. ExactOutput(tx, 1, LockupSats(p), Script(p.operator, LockupSats(p)))
    BY <1>3 DEF ExactOutput
  <2>2. ExactExtension(p, tx, <<c>>, 1, 0)
    BY <1>2, <1>3 DEF ExactExtension, Encodable
  <2>. QED  BY <1>3, <2>1, <2>2 DEF ClassifyReclaim
<1>7. Admits(p, "reclaim", tx)
  BY <1>5 DEF Admits, Disabled
<1>8. Classify(p, "reclaim", tx, c.held, TRUE) = "recovered"
  BY <1>1, <1>3, <1>6 DEF Classify
<1>. QED  BY <1>7, <1>8 DEF tx

\* A receiver with a coin of its own claims a locked covenant in its mode, its sender has it
\* refunded and the runner reclaims it.
LEMMA LockupIsOpen ==
    ASSUME stage = "locked", IsLockup(Terms, coin) PROVE ClaimStaysOpen
<1> DEFINE p == Terms
           fund == Coin(p.receiver, Dust + OperatorSats(p), Nothing)
           back == Coin(p.sender, Dust, Nothing)
<1>1. /\ IsCoin(coin) /\ LoanSats(p) = Dust /\ AssetFare(p) \in Nat
      /\ OperatorSats(p) \in Int /\ OperatorSats(p) >= Dust
      /\ LockupSats(p) \in Nat /\ LockupSats(p) >= Dust
      /\ p.asset = Sats => AssetFare(p) = 0
      /\ p.asset # Sats => p.asset \in Assets /\ coin.held[p.asset] > AssetFare(p)
  BY LockupAmounts
<1>2. Dust \in Nat /\ Dust > 0 /\ VtxoMin \in Nat /\ VtxoMin <= Dust
  BY DustAssumption
<1>3. /\ fund.key = p.receiver /\ fund.sats = Dust + OperatorSats(p) /\ fund.held = Nothing
      /\ back.key = p.sender /\ back.sats = Dust /\ back.held = Nothing
  BY DEF Coin
<1>4. IsCoin(fund) /\ IsCoin(back)
  BY <1>1, <1>2, <1>3 DEF IsCoin, Nothing
<1>5. p.mode \in Modes
  BY DEF IsLockup, TermsSet
<1>6. Fundable(fund, p.receiver) /\ Fundable(back, back.key)
  <2>1. (fund.sats >= Dust) = TRUE /\ (back.sats >= Dust) = TRUE
    BY <1>1, <1>2, <1>3
  <2>. QED  BY <1>3, <2>1 DEF Fundable, Pays, Script
<1>7. /\ Merged(p, fund) \in Int /\ Merged(p, fund) >= Dust
      /\ Returned(p, back) \in Int /\ Returned(p, back) >= Dust
  BY <1>1, <1>2, <1>3 DEF Merged, Returned
<1>8. \/ CanPurchase(p) /\ Admits(p, "purchase", PurchaseTx(p, coin))
      \/ CanRecycle(p, coin, fund) /\ Admits(p, "recycle", RecycleTx(p, coin, fund))
  <2>1. CASE p.mode = "purchase"
    <3>1. CanPurchase(p)
      BY <1>1, <1>2, <2>1 DEF CanPurchase, Disabled
    <3>. QED  BY <3>1, PurchaseSettles
  <2>2. CASE p.mode # "purchase"
    <3>1. ~Disabled(p, "recycle")
      BY <1>5, <2>2 DEF Disabled, Modes
    <3>2. Encodable(p, <<coin, fund>>, AssetFare(p))
      <4> SUFFICES ASSUME AssetFare(p) > 0
                   PROVE  AssetFare(p) < TotalHeld(<<coin, fund>>)[p.asset]
        BY DEF Encodable
      <4>1. p.asset \in Assets /\ coin.held[p.asset] > AssetFare(p)
        BY <1>1
      <4>2. TotalHeld(<<coin, fund>>) = Both(coin.held, fund.held)
        BY <1>1, <1>4, TotalsOfTwo
      <4>3. Both(coin.held, fund.held)[p.asset] = coin.held[p.asset] + 0 /\ coin.held[p.asset] \in Int
        BY <1>1, <1>3, <4>1 DEF Both, Nothing, IsCoin
      <4>. QED  BY <1>1, <4>1, <4>2, <4>3
    <3>3. CanRecycle(p, coin, fund)
      BY <1>2, <1>6, <1>7, <3>1, <3>2 DEF CanRecycle
    <3>. QED  BY <1>4, <3>3, RecycleSettles
  <2>. QED  BY <2>1, <2>2
<1>9. CanRefund(p, back) /\ Admits(p, "refund", RefundTx(p, coin, back))
  <2>1. CanRefund(p, back)
    BY <1>2, <1>6, <1>7 DEF CanRefund
  <2>. QED  BY <1>4, <2>1, RefundSettles
<1>10. Admits(p, "reclaim", ReclaimTx(p, coin))
  BY ReclaimSettles
<1>. QED  BY <1>8, <1>9, <1>10 DEF ClaimStaysOpen

\* A key that none of the coins is locked to.
LEMMA OfAnother ==
    ASSUME NEW S, Numbered(S), NEW key, \A x \in S : x.key # key, NEW s \in Seq(S)
    PROVE  SatsOf(key, s) = 0 /\ \A a \in Assets : HeldOf(key, s)[a] = 0
<1>0. Len(s) \in Nat /\ DOMAIN s = 1 .. Len(s) /\ \A k \in 1 .. Len(s) : s[k] \in S
  OBVIOUS
<1>1. SatsOf(key, s) = 0
  <2> DEFINE t == [i \in DOMAIN s |-> IF s[i].key = key THEN s[i].sats ELSE 0]
  <2>1. \A k \in 1 .. Len(s) : t[k] = 0
    BY <1>0
  <2>2. t \in Seq(Int) /\ Len(t) = Len(s)
    BY <1>0
  <2>3. SatsOf(key, s) = Total(t)
    BY DEF SatsOf
  <2> HIDE DEF t
  <2>. QED  BY <2>1, <2>2, <2>3, TotalOfZeros
<1>2. ASSUME NEW a \in Assets PROVE HeldOf(key, s)[a] = 0
  <2> DEFINE t == [i \in DOMAIN s |-> IF s[i].key = key THEN s[i].held[a] ELSE 0]
  <2>1. \A k \in 1 .. Len(s) : t[k] = 0
    BY <1>0
  <2>2. t \in Seq(Int) /\ Len(t) = Len(s)
    BY <1>0
  <2>3. HeldOf(key, s)[a] = Total(t)
    BY <1>2 DEF HeldOf
  <2> HIDE DEF t
  <2>. QED  BY <2>1, <2>2, <2>3, TotalOfZeros
<1>. QED  BY <1>1, <1>2

\* Coins that are not the operator's.
Foreign == {x \in GraphCoins : x.key # "operator"}

\* The shape of every spend of a covenant: the operator has no input and at most the first
\* output.
IsSpend(c, tx) ==
    \E i \in Seq(Foreign), o \in GraphCoins, r \in Seq(Foreign) :
       tx.ins = <<c>> \o i /\ tx.outs = <<o>> \o r

\* What such a spend brings the operator.
LEMMA OperatorShare ==
    ASSUME NEW c, IsCoin(c), c.key = "covenant", NEW tx, IsSpend(c, tx)
    PROVE  /\ tx.ins[1] = c /\ Len(tx.ins) \in Nat /\ Len(tx.outs) \in Nat
           /\ SatsOf("operator", tx.ins) = 0
           /\ SatsOf("operator", tx.outs) = SatsTo("operator", tx.outs[1])
           /\ \A a \in Assets : /\ HeldOf("operator", tx.ins)[a] = 0
                               /\ HeldOf("operator", tx.outs)[a] = HeldTo("operator", tx.outs[1], a)
<1>1. PICK i \in Seq(Foreign), o \in GraphCoins, r \in Seq(Foreign) :
         tx.ins = <<c>> \o i /\ tx.outs = <<o>> \o r
  BY DEF IsSpend
<1> DEFINE A == Foreign \cup {c}
           B == Foreign \cup {o}
<1>2. \A x \in Foreign : IsCoin(x) /\ x.key # "operator"
  BY DEF Foreign, GraphCoins, IsCoin
<1>3. IsCoin(o)
  BY DEF GraphCoins, IsCoin
<1>4. Numbered(Foreign) /\ Numbered(A) /\ Numbered(B)
  BY <1>2, <1>3 DEF Numbered, IsCoin
<1>5. /\ <<c>> \in Seq(A) /\ i \in Seq(A) /\ <<c>> \o i \in Seq(A)
      /\ <<o>> \in Seq(B) /\ r \in Seq(B) /\ <<o>> \o r \in Seq(B)
  <2>1. Foreign \subseteq A /\ Foreign \subseteq B /\ c \in A /\ o \in B
    OBVIOUS
  <2> HIDE DEF A, B
  <2>2. <<c>> \in Seq(A) /\ i \in Seq(A) /\ <<o>> \in Seq(B) /\ r \in Seq(B)
    BY <2>1
  <2>3. \A u, v \in Seq(A) : u \o v \in Seq(A)
    OBVIOUS
  <2>4. \A u, v \in Seq(B) : u \o v \in Seq(B)
    OBVIOUS
  <2>. QED  BY <2>2, <2>3, <2>4
<1>6. (<<c>> \o i)[1] = c /\ (<<o>> \o r)[1] = o
  OBVIOUS
<1>7. \A x \in A : x.key # "operator"
  BY <1>2
<1>8. o \in B
  OBVIOUS
<1> HIDE DEF A, B
<1>9. SatsOf("operator", <<c>> \o i) = 0 /\ \A a \in Assets : HeldOf("operator", <<c>> \o i)[a] = 0
  BY <1>4, <1>5, <1>7, OfAnother
<1>10. SatsOf("operator", r) = 0 /\ \A a \in Assets : HeldOf("operator", r)[a] = 0
  BY <1>2, <1>4, OfAnother
<1>11. /\ SatsOf("operator", <<o>>) = SatsTo("operator", o)
       /\ \A a \in Assets : HeldOf("operator", <<o>>)[a] = HeldTo("operator", o, a)
  BY <1>4, <1>8, KeySumsOfOne
<1>12. /\ SatsOf("operator", <<o>> \o r) = SatsOf("operator", <<o>>) + SatsOf("operator", r)
       /\ \A a \in Assets : HeldOf("operator", <<o>> \o r)[a]
                               = HeldOf("operator", <<o>>)[a] + HeldOf("operator", r)[a]
  <2> DEFINE whole == <<o>> \o r
             head == <<o>>
  <2>1. head \in Seq(B) /\ r \in Seq(B) /\ Numbered(B) /\ whole = head \o r
    BY <1>4, <1>5
  <2> HIDE DEF whole, head
  <2>2. /\ SatsOf("operator", head \o r) = SatsOf("operator", head) + SatsOf("operator", r)
        /\ \A a \in Assets : HeldOf("operator", head \o r)[a]
                               = HeldOf("operator", head)[a] + HeldOf("operator", r)[a]
    BY <2>1, KeySumsAdd
  <2>. QED  BY <2>1, <2>2 DEF head
<1>13. SatsTo("operator", o) \in Int /\ \A a \in Assets : HeldTo("operator", o, a) \in Int
  BY <1>3 DEF IsCoin, SatsTo, HeldTo
<1>14. Len(tx.ins) \in Nat /\ Len(tx.outs) \in Nat
  BY <1>1, <1>5
<1>. QED  BY <1>1, <1>6, <1>9, <1>10, <1>11, <1>12, <1>13, <1>14

\* The short spends: one coin to one output, and two to two.
LEMMA ShortSpends ==
    ASSUME NEW c, NEW tx, IsSpend(c, tx)
    PROVE  /\ Len(tx.ins) = 1 => tx.ins = <<c>>
           /\ Len(tx.ins) = 2 => tx.ins = <<c, tx.ins[2]>> /\ tx.ins[2] \in Foreign
           /\ Len(tx.outs) = 1 => tx.outs = <<tx.outs[1]>>
           /\ Len(tx.outs) = 2 => tx.outs = <<tx.outs[1], tx.outs[2]>>
           /\ tx.outs[1] \in GraphCoins
           /\ Len(tx.outs) = 2 => tx.outs[2] \in Foreign
<1>1. PICK i \in Seq(Foreign), o \in GraphCoins, r \in Seq(Foreign) :
         tx.ins = <<c>> \o i /\ tx.outs = <<o>> \o r
  BY DEF IsSpend
<1>2. Len(<<c>> \o i) = 1 + Len(i) /\ Len(<<o>> \o r) = 1 + Len(r) /\ Len(i) \in Nat /\ Len(r) \in Nat
  OBVIOUS
<1>3. (<<o>> \o r)[1] = o
  OBVIOUS
<1>4. Len(i) = 0 => <<c>> \o i = <<c>>
  OBVIOUS
<1>5. Len(r) = 0 => <<o>> \o r = <<o>>
  OBVIOUS
<1>6. Len(i) = 1 => <<c>> \o i = <<c, i[1]>> /\ i[1] \in Foreign /\ (<<c>> \o i)[2] = i[1]
  <2> SUFFICES ASSUME Len(i) = 1
               PROVE  <<c>> \o i = <<c, i[1]>> /\ i[1] \in Foreign /\ (<<c>> \o i)[2] = i[1]
    OBVIOUS
  <2>1. i = <<i[1]>> /\ i[1] \in Foreign
    OBVIOUS
  <2>2. <<c, i[1]>> = <<c>> \o <<i[1]>>
    BY TwoInARow
  <2>3. <<c, i[1]>>[2] = i[1]
    OBVIOUS
  <2>4. <<c>> \o i = <<c, i[1]>>
    BY <2>1, <2>2
  <2>. QED  BY <2>1, <2>3, <2>4
<1>7. Len(r) = 1 => <<o>> \o r = <<o, r[1]>> /\ r[1] \in Foreign /\ (<<o>> \o r)[2] = r[1]
  <2> SUFFICES ASSUME Len(r) = 1
               PROVE  <<o>> \o r = <<o, r[1]>> /\ r[1] \in Foreign /\ (<<o>> \o r)[2] = r[1]
    OBVIOUS
  <2>1. r = <<r[1]>> /\ r[1] \in Foreign
    OBVIOUS
  <2>2. <<o, r[1]>> = <<o>> \o <<r[1]>>
    BY TwoInARow
  <2>3. <<o, r[1]>>[2] = r[1]
    OBVIOUS
  <2>4. <<o>> \o r = <<o, r[1]>>
    BY <2>1, <2>2
  <2>. QED  BY <2>1, <2>3, <2>4
<1>. QED  BY <1>1, <1>2, <1>3, <1>4, <1>5, <1>6, <1>7

\* Every verdict but unknown was told by the check of its leaf.
LEMMA VerdictIsChecked ==
    ASSUME NEW p, NEW c, NEW tx, NEW leaf
    PROVE  LET v == Classify(p, leaf, tx, c.held, TRUE) IN
           /\ v \in {"purchased", "recycled", "refunded", "recovered", "unknown"}
           /\ v = "purchased" => ClassifyPurchase(p, tx)
           /\ v = "recycled" => ClassifyRecycle(p, tx)
           /\ v = "refunded" => ClassifyRefund(p, tx)
           /\ v = "recovered" => ClassifyReclaim(p, tx, TRUE)
           /\ v # "unknown" => tx.ins[1].sats = LockupSats(p) /\ tx.ins[1].held = c.held
<1>1. CASE tx.ins[1].sats # LockupSats(p) \/ tx.ins[1].held # c.held
  BY <1>1 DEF Classify
<1>2. CASE ~(tx.ins[1].sats # LockupSats(p) \/ tx.ins[1].held # c.held)
  <2>1. CASE leaf = "purchase" /\ ClassifyPurchase(p, tx)
    BY <1>2, <2>1 DEF Classify
  <2>2. CASE leaf = "recycle" /\ ClassifyRecycle(p, tx)
    BY <1>2, <2>2 DEF Classify
  <2>3. CASE leaf = "refund" /\ ClassifyRefund(p, tx)
    BY <1>2, <2>3 DEF Classify
  <2>4. CASE leaf = "reclaim" /\ ClassifyReclaim(p, tx, TRUE)
    BY <1>2, <2>4 DEF Classify
  <2>5. CASE /\ ~(leaf = "purchase" /\ ClassifyPurchase(p, tx))
             /\ ~(leaf = "recycle" /\ ClassifyRecycle(p, tx))
             /\ ~(leaf = "refund" /\ ClassifyRefund(p, tx))
             /\ ~(leaf = "reclaim" /\ ClassifyReclaim(p, tx, TRUE))
    BY <1>2, <2>5 DEF Classify
  <2>. QED  BY <2>1, <2>2, <2>3, <2>4, <2>5
<1>. QED  BY <1>1, <1>2

\* A purchase pays the receiver all there is.
LEMMA PurchasedMoves ==
    ASSUME NEW p, NEW c, IsLockup(p, c), NEW tx, IsSpend(c, tx), ClassifyPurchase(p, tx)
    PROVE  -SatsOut(tx, p.receiver) = LockupSats(p) /\ HeldOf(p.receiver, tx.outs) = c.held
<1>1. /\ IsCoin(c) /\ c.key = "covenant" /\ LockupSats(p) \in Nat /\ p.receiver # "covenant"
  BY LockupAmounts DEF IsLockup, Strangers
<1> DEFINE o == tx.outs[1]
<1>2. tx.ins = <<c>> /\ tx.ins[1] = c /\ tx.outs = <<o>> /\ o \in GraphCoins /\ Len(tx.outs) = 1
  BY <1>1, ShortSpends, OperatorShare DEF ClassifyPurchase
<1>3. o.sats = LockupSats(p) /\ o.key = p.receiver
  BY DEF ClassifyPurchase, ExactOutput, Script
<1>4. o.held = c.held
  <2>1. 1 \in DOMAIN tx.outs
    BY <1>2
  <2>2. o.held = Packet(p, <<c>>, 0)
    BY <1>2, <2>1 DEF ClassifyPurchase, ExactExtension
  <2>. QED  BY <1>1, <2>2, PacketOfOne
<1>5. Numbered({c, o}) /\ c \in {c, o} /\ o \in {c, o}
  BY <1>1, <1>2 DEF Numbered, IsCoin, GraphCoins
<1> HIDE DEF o
<1>6. /\ SatsOf(p.receiver, <<c>>) = SatsTo(p.receiver, c)
      /\ SatsOf(p.receiver, <<o>>) = SatsTo(p.receiver, o)
      /\ \A a \in Assets : HeldOf(p.receiver, <<o>>)[a] = HeldTo(p.receiver, o, a)
  BY <1>5, KeySumsOfOne
<1>7. SatsTo(p.receiver, c) = 0 /\ SatsTo(p.receiver, o) = LockupSats(p)
  BY <1>1, <1>3 DEF SatsTo
<1>8. \A a \in Assets : HeldOf(p.receiver, tx.outs)[a] = c.held[a]
  BY <1>2, <1>3, <1>4, <1>6 DEF HeldTo
<1>9. HeldOf(p.receiver, tx.outs) = c.held
  BY <1>1, <1>8 DEF HeldOf, IsCoin
<1>10. SatsOut(tx, p.receiver) = 0 - LockupSats(p)
  BY <1>2, <1>6, <1>7 DEF SatsOut
<1>. QED  BY <1>1, <1>9, <1>10

\* A refund pays the operator its loan.
LEMMA RefundedMoves ==
    ASSUME NEW p, NEW c, IsLockup(p, c), NEW tx, IsSpend(c, tx), ClassifyRefund(p, tx)
    PROVE  -SatsOut(tx, "operator") = LoanSats(p)
<1>1. IsCoin(c) /\ c.key = "covenant" /\ LoanSats(p) \in Nat /\ p.operator = "operator"
  BY LockupAmounts, DustAssumption DEF IsLockup
<1>2. /\ SatsOf("operator", tx.ins) = 0
      /\ SatsOf("operator", tx.outs) = SatsTo("operator", tx.outs[1])
  BY <1>1, OperatorShare
<1>3. tx.outs[1].sats = LoanSats(p) /\ tx.outs[1].key = "operator"
  BY <1>1 DEF ClassifyRefund, ExactOutput, Script
<1>4. SatsTo("operator", tx.outs[1]) = LoanSats(p)
  BY <1>3 DEF SatsTo
<1>5. SatsOut(tx, "operator") = 0 - LoanSats(p)
  BY <1>2, <1>4 DEF SatsOut
<1>. QED  BY <1>1, <1>5

\* A reclaim brings the operator the loan, the payment and every unit.
LEMMA RecoveredMoves ==
    ASSUME NEW p, NEW c, IsLockup(p, c), NEW tx, IsSpend(c, tx), ClassifyReclaim(p, tx, TRUE)
    PROVE  /\ -SatsOut(tx, "operator") = LoanSats(p) + p.payment
           /\ HeldOf("operator", tx.outs) = c.held
<1>1. /\ IsCoin(c) /\ c.key = "covenant" /\ LoanSats(p) = Dust /\ p.operator = "operator"
      /\ LockupSats(p) = Dust + p.payment /\ p.payment \in Nat /\ Dust \in Nat
  BY LockupAmounts, DustAssumption DEF IsLockup
<1>2. /\ SatsOf("operator", tx.ins) = 0 /\ tx.ins[1] = c
      /\ SatsOf("operator", tx.outs) = SatsTo("operator", tx.outs[1])
      /\ \A a \in Assets : HeldOf("operator", tx.outs)[a] = HeldTo("operator", tx.outs[1], a)
  BY <1>1, OperatorShare
<1>3. tx.outs[1].sats = LockupSats(p) /\ tx.outs[1].key = "operator"
  BY <1>1 DEF ClassifyReclaim, ExactOutput, Script
<1>4. tx.outs[1].held = c.held
  <2>1. PICK i \in Seq(Foreign), o \in GraphCoins, r \in Seq(Foreign) : tx.outs = <<o>> \o r
    BY DEF IsSpend
  <2>2. 1 \in DOMAIN (<<o>> \o r)
    OBVIOUS
  <2>3. tx.outs[1].held = Packet(p, <<c>>, 0)
    BY <1>2, <2>1, <2>2 DEF ClassifyReclaim, ExactExtension
  <2>. QED  BY <1>1, <2>3, PacketOfOne
<1>5. SatsTo("operator", tx.outs[1]) = LockupSats(p)
  BY <1>3 DEF SatsTo
<1>6. SatsOut(tx, "operator") = 0 - LockupSats(p)
  BY <1>2, <1>5 DEF SatsOut
<1>7. \A a \in Assets : HeldOf("operator", tx.outs)[a] = c.held[a]
  BY <1>2, <1>3, <1>4 DEF HeldTo
<1>8. HeldOf("operator", tx.outs) = c.held
  BY <1>1, <1>7 DEF HeldOf, IsCoin
<1>. QED  BY <1>1, <1>6, <1>8

\* A recycle pays the operator the loan and the fare, and the receiver the rest.
LEMMA RecycledMoves ==
    ASSUME NEW p, NEW c, IsLockup(p, c), NEW tx, IsSpend(c, tx), ClassifyRecycle(p, tx)
    PROVE  /\ -SatsOut(tx, "operator") = OperatorSats(p)
           /\ -SatsOut(tx, p.receiver) = LockupSats(p) - OperatorSats(p)
           /\ AssetFare(p) > 0 => -HeldOut(tx, "operator")[p.asset] = AssetFare(p)
           /\ p.asset # Sats => -HeldOut(tx, p.receiver)[p.asset] = c.held[p.asset] - AssetFare(p)
<1> DEFINE f == tx.ins[2]
           o == tx.outs[1]
           o2 == tx.outs[2]
           fare == AssetFare(p)
<1>1. /\ IsCoin(c) /\ c.key = "covenant" /\ p.operator = "operator" /\ OperatorSats(p) \in Int
      /\ LockupSats(p) \in Nat /\ fare \in Nat
      /\ p.asset = Sats => fare = 0
      /\ p.asset # Sats => p.asset \in Assets
      /\ p.receiver \in Strangers
  BY LockupAmounts DEF IsLockup
<1>2. p.receiver # "operator" /\ p.receiver # "covenant"
  BY <1>1 DEF Strangers
<1>3. Len(tx.ins) = 2 /\ Len(tx.outs) = 2
  BY DEF ClassifyRecycle
<1>4. tx.ins = <<c, f>> /\ f \in Foreign /\ tx.outs = <<o, o2>> /\ o \in GraphCoins /\ o2 \in Foreign
  BY <1>3, ShortSpends
<1>5. IsCoin(f) /\ IsCoin(o) /\ IsCoin(o2)
  BY <1>4 DEF IsCoin, Foreign, GraphCoins
<1>6. f.key = p.receiver
  BY DEF ClassifyRecycle, Fundable, Pays, Script
<1>7. /\ o.sats = OperatorSats(p) /\ o.key = "operator"
      /\ o2.sats = LockupSats(p) + f.sats - OperatorSats(p) /\ o2.key = p.receiver
  BY <1>1 DEF ClassifyRecycle, ExactOutput, Script, Merged
<1>8. /\ o.held = (IF fare > 0 THEN Only(p.asset, fare) ELSE Nothing)
      /\ o2.held = Packet(p, <<c, f>>, fare)
  <2>1. \A i \in DOMAIN tx.outs :
          tx.outs[i].held = CASE i = 2 -> Packet(p, tx.ins, fare)
                              [] i = 1 /\ fare > 0 /\ i # 2 -> Only(p.asset, fare)
                              [] OTHER -> Nothing
    BY DEF ClassifyRecycle, ExactExtension
  <2>2. 1 \in DOMAIN tx.outs /\ 2 \in DOMAIN tx.outs
    BY <1>4
  <2>3. tx.outs[2].held = Packet(p, tx.ins, fare)
    BY <2>1, <2>2
  <2>4. tx.outs[1].held = (IF fare > 0 THEN Only(p.asset, fare) ELSE Nothing)
    BY <2>1, <2>2
  <2>. QED  BY <1>4, <2>3, <2>4
<1> HIDE DEF f, o, o2, fare
<1>9. \A key : /\ SatsOf(key, tx.ins) = SatsTo(key, c) + SatsTo(key, f)
               /\ SatsOf(key, tx.outs) = SatsTo(key, o) + SatsTo(key, o2)
               /\ \A a \in Assets :
                     /\ HeldOf(key, tx.ins)[a] = HeldTo(key, c, a) + HeldTo(key, f, a)
                     /\ HeldOf(key, tx.outs)[a] = HeldTo(key, o, a) + HeldTo(key, o2, a)
  <2>1. TAKE key
  <2>2. /\ SatsOf(key, <<c, f>>) = SatsTo(key, c) + SatsTo(key, f)
        /\ \A a \in Assets : HeldOf(key, <<c, f>>)[a] = HeldTo(key, c, a) + HeldTo(key, f, a)
    BY <1>1, <1>5, SumsOfInputs
  <2>3. /\ SatsOf(key, <<o, o2>>) = SatsTo(key, o) + SatsTo(key, o2)
        /\ \A a \in Assets : HeldOf(key, <<o, o2>>)[a] = HeldTo(key, o, a) + HeldTo(key, o2, a)
    BY <1>5, SumsOfInputs
  <2>. QED  BY <1>4, <2>2, <2>3
<1>10. f.sats \in Int
  BY <1>5 DEF IsCoin
<1>11. /\ SatsTo("operator", c) = 0 /\ SatsTo("operator", f) = 0
       /\ SatsTo("operator", o) = OperatorSats(p) /\ SatsTo("operator", o2) = 0
       /\ SatsTo(p.receiver, c) = 0 /\ SatsTo(p.receiver, f) = f.sats
       /\ SatsTo(p.receiver, o) = 0
       /\ SatsTo(p.receiver, o2) = LockupSats(p) + f.sats - OperatorSats(p)
  BY <1>1, <1>2, <1>6, <1>7 DEF SatsTo
<1>12. SatsOut(tx, "operator") = 0 - OperatorSats(p)
  BY <1>1, <1>9, <1>11 DEF SatsOut
<1>13. SatsOut(tx, p.receiver) = OperatorSats(p) - LockupSats(p)
  BY <1>1, <1>9, <1>10, <1>11 DEF SatsOut
<1>14. ASSUME p.asset \in Assets
       PROVE  /\ fare > 0 => HeldOut(tx, "operator")[p.asset] = 0 - fare
              /\ HeldOut(tx, p.receiver)[p.asset] = fare - c.held[p.asset]
  <2> DEFINE a == p.asset
  <2>1. c.held[a] \in Int /\ f.held[a] \in Int
    BY <1>1, <1>5, <1>14 DEF IsCoin
  <2>2. /\ fare > 0 => o.held[a] = fare
        /\ o2.held[a] = c.held[a] + f.held[a] - fare
    <3>1. Only(p.asset, fare)[p.asset] = fare
      BY <1>1, <1>14, OnlyHolds
    <3>2. Packet(p, <<c, f>>, fare)[p.asset] = c.held[p.asset] + f.held[p.asset] - fare
      BY <1>1, <1>5, <1>14, PacketOfTwo
    <3>. QED  BY <1>8, <3>1, <3>2
  <2>3. /\ HeldTo("operator", c, a) = 0 /\ HeldTo("operator", f, a) = 0
        /\ HeldTo("operator", o, a) = o.held[a] /\ HeldTo("operator", o2, a) = 0
        /\ HeldTo(p.receiver, c, a) = 0 /\ HeldTo(p.receiver, f, a) = f.held[a]
        /\ HeldTo(p.receiver, o, a) = 0 /\ HeldTo(p.receiver, o2, a) = o2.held[a]
    BY <1>1, <1>2, <1>6, <1>7 DEF HeldTo
  <2>4. /\ HeldOut(tx, "operator")[a] = HeldOf("operator", tx.ins)[a] - HeldOf("operator", tx.outs)[a]
        /\ HeldOut(tx, p.receiver)[a] = HeldOf(p.receiver, tx.ins)[a] - HeldOf(p.receiver, tx.outs)[a]
    BY <1>14 DEF HeldOut, Without
  <2>5. /\ HeldOf("operator", tx.ins)[a] = 0 + 0 /\ HeldOf("operator", tx.outs)[a] = o.held[a] + 0
        /\ HeldOf(p.receiver, tx.ins)[a] = 0 + f.held[a]
        /\ HeldOf(p.receiver, tx.outs)[a] = 0 + o2.held[a]
    BY <1>9, <1>14, <2>3
  <2> HIDE DEF a
  <2>. QED  BY <1>1, <2>1, <2>2, <2>4, <2>5 DEF a
<1>15. p.asset # Sats => c.held[p.asset] \in Int
  BY <1>1 DEF IsCoin
<1>. QED  BY <1>1, <1>12, <1>13, <1>14, <1>15 DEF fare

\* A coin more, an output more, or another first output: still a spend of the covenant.
LEMMA AlteredSpends ==
    ASSUME NEW c, NEW base, IsSpend(c, base), NEW f \in Foreign, NEW o \in GraphCoins,
           DOMAIN base = {"ins", "outs"}
    PROVE  /\ IsSpend(c, [ins |-> Append(base.ins, f), outs |-> Append(base.outs, f)])
           /\ IsSpend(c, [base EXCEPT !.outs = Append(@, f)])
           /\ IsSpend(c, [base EXCEPT !.outs = [@ EXCEPT ![1] = o]])
<1>1. PICK i \in Seq(Foreign), o1 \in GraphCoins, r \in Seq(Foreign) :
         base.ins = <<c>> \o i /\ base.outs = <<o1>> \o r
  BY DEF IsSpend
<1>2. Append(i, f) \in Seq(Foreign) /\ Append(r, f) \in Seq(Foreign)
  OBVIOUS
<1>3. Append(<<c>> \o i, f) = <<c>> \o Append(i, f) /\ Append(<<o1>> \o r, f) = <<o1>> \o Append(r, f)
  OBVIOUS
<1>4. [(<<o1>> \o r) EXCEPT ![1] = o] = <<o>> \o r
  <2> DEFINE u == <<o1>> \o r
             v == <<o>> \o r
  <2>1. /\ DOMAIN u = 1 .. (1 + Len(r)) /\ u = [k \in 1 .. (1 + Len(r)) |-> u[k]]
        /\ v = [k \in 1 .. (1 + Len(r)) |-> v[k]] /\ v[1] = o
        /\ \A k \in 1 .. (1 + Len(r)) : k # 1 => u[k] = v[k]
    OBVIOUS
  <2> HIDE DEF u, v
  <2>2. [u EXCEPT ![1] = o] = v
    BY <2>1
  <2>. QED  BY <2>2 DEF u, v
<1>5. IsSpend(c, [ins |-> Append(base.ins, f), outs |-> Append(base.outs, f)])
  <2> DEFINE tx == [ins |-> Append(base.ins, f), outs |-> Append(base.outs, f)]
  <2>1. tx.ins = <<c>> \o Append(i, f) /\ tx.outs = <<o1>> \o Append(r, f)
    BY <1>1, <1>3
  <2> HIDE DEF tx
  <2>2. IsSpend(c, tx)
    BY <1>2, <2>1 DEF IsSpend
  <2>. QED  BY <2>2 DEF tx
<1>6. IsSpend(c, [base EXCEPT !.outs = Append(@, f)])
  <2> DEFINE tx == [base EXCEPT !.outs = Append(@, f)]
  <2>1. tx.ins = <<c>> \o i /\ tx.outs = <<o1>> \o Append(r, f)
    BY <1>1, <1>3
  <2> HIDE DEF tx
  <2>2. IsSpend(c, tx)
    BY <1>2, <2>1 DEF IsSpend
  <2>. QED  BY <2>2 DEF tx
<1>7. IsSpend(c, [base EXCEPT !.outs = [@ EXCEPT ![1] = o]])
  <2> DEFINE tx == [base EXCEPT !.outs = [@ EXCEPT ![1] = o]]
  <2>1. tx.ins = <<c>> \o i /\ tx.outs = <<o>> \o r
    BY <1>1, <1>4
  <2> HIDE DEF tx
  <2>2. IsSpend(c, tx)
    BY <2>1 DEF IsSpend
  <2>. QED  BY <2>2 DEF tx
<1>. QED  BY <1>5, <1>6, <1>7

\* What the client and the runner build spends the covenant.
LEMMA BuiltSpends ==
    ASSUME NEW p, NEW c, IsLockup(p, c), NEW f \in Foreign
    PROVE  /\ IsSpend(c, PurchaseTx(p, c)) /\ IsSpend(c, RecycleTx(p, c, f))
           /\ IsSpend(c, RefundTx(p, c, f)) /\ IsSpend(c, ReclaimTx(p, c))
<1>1. /\ IsCoin(c) /\ AssetFare(p) \in Nat /\ OperatorSats(p) \in Int /\ LoanSats(p) \in Int
      /\ LockupSats(p) \in Int /\ p.receiver \in Strangers /\ p.operator = "operator"
  BY LockupAmounts, DustAssumption
<1>2. f.sats \in Int /\ IsCoin(f) /\ f.key \in ({"sender", "maker", "covenant"} \cup Strangers)
  BY DEF Foreign, GraphCoins, IsCoin
<1>3. /\ <<>> \in Seq(Foreign) /\ <<f>> \in Seq(Foreign)
      /\ \A x : <<x>> \o <<>> = <<x>>
      /\ \A x \in Foreign : <<x>> \in Seq(Foreign)
  OBVIOUS
<1>4. Nothing \in [Assets -> Int] /\ \A n \in Int : Only(p.asset, n) \in [Assets -> Int]
  BY OnlyHolds DEF Nothing
<1>5. /\ Packet(p, <<c>>, 0) \in [Assets -> Int] /\ Packet(p, <<c, f>>, 0) \in [Assets -> Int]
      /\ Packet(p, <<c, f>>, AssetFare(p)) \in [Assets -> Int]
  <2>1. Packet(p, <<c>>, 0) \in [Assets -> Int]
    BY <1>1, PacketOfOne DEF IsCoin
  <2>2. 0 \in Nat
    OBVIOUS
  <2>. QED  BY <1>1, <1>2, <2>1, <2>2, PacketOfTwo
<1>6. /\ Merged(p, f) \in Int /\ Returned(p, f) \in Int
  BY <1>1, <1>2 DEF Merged, Returned
<1>7. /\ \A n \in Int, h \in [Assets -> Int] : Coin("operator", n, h) \in GraphCoins
      /\ \A n \in Int, h \in [Assets -> Int] : Coin(p.receiver, n, h) \in Foreign
      /\ \A n \in Int, h \in [Assets -> Int] : Coin(f.key, n, h) \in Foreign
      /\ \A n \in Int, h \in [Assets -> Int] : Coin(p.receiver, n, h) \in GraphCoins
  BY <1>1, <1>2 DEF Coin, GraphCoins, Foreign, Strangers
<1>8. IsSpend(c, PurchaseTx(p, c))
  <2> DEFINE o == Coin(p.receiver, LockupSats(p), Packet(p, <<c>>, 0))
  <2>1. o \in GraphCoins
    BY <1>1, <1>5, <1>7
  <2>2. PurchaseTx(p, c).ins = <<c>> /\ PurchaseTx(p, c).outs = <<o>>
    BY DEF PurchaseTx
  <2> HIDE DEF o
  <2>3. PurchaseTx(p, c).ins = <<c>> \o <<>> /\ PurchaseTx(p, c).outs = <<o>> \o <<>>
    BY <1>3, <2>2
  <2>. QED  BY <1>3, <2>1, <2>3 DEF IsSpend
<1>9. IsSpend(c, RecycleTx(p, c, f))
  <2> DEFINE o == Coin(p.operator, OperatorSats(p),
                       IF AssetFare(p) > 0 THEN Only(p.asset, AssetFare(p)) ELSE Nothing)
             o2 == Coin(p.receiver, Merged(p, f), Packet(p, <<c, f>>, AssetFare(p)))
  <2>0. (IF AssetFare(p) > 0 THEN Only(p.asset, AssetFare(p)) ELSE Nothing) \in [Assets -> Int]
    BY <1>1, <1>4
  <2>1. o \in GraphCoins /\ o2 \in Foreign
    BY <1>1, <2>0, <1>5, <1>6, <1>7
  <2>2. RecycleTx(p, c, f).ins = <<c, f>> /\ RecycleTx(p, c, f).outs = <<o, o2>>
    BY DEF RecycleTx
  <2> HIDE DEF o, o2
  <2>3. RecycleTx(p, c, f).ins = <<c>> \o <<f>> /\ RecycleTx(p, c, f).outs = <<o>> \o <<o2>>
    BY <2>2, TwoInARow
  <2>4. <<o2>> \in Seq(Foreign)
    BY <1>3, <2>1
  <2>. QED  BY <1>3, <2>1, <2>3, <2>4 DEF IsSpend
<1>10. IsSpend(c, RefundTx(p, c, f))
  <2> DEFINE o == Coin(p.operator, LoanSats(p), Nothing)
             o2 == Coin(f.key, Returned(p, f), Packet(p, <<c, f>>, 0))
  <2>1. o \in GraphCoins /\ o2 \in Foreign
    BY <1>1, <1>4, <1>5, <1>6, <1>7
  <2>2. RefundTx(p, c, f).ins = <<c, f>> /\ RefundTx(p, c, f).outs = <<o, o2>>
    BY DEF RefundTx
  <2> HIDE DEF o, o2
  <2>3. RefundTx(p, c, f).ins = <<c>> \o <<f>> /\ RefundTx(p, c, f).outs = <<o>> \o <<o2>>
    BY <2>2, TwoInARow
  <2>4. <<o2>> \in Seq(Foreign)
    BY <1>3, <2>1
  <2>. QED  BY <1>3, <2>1, <2>3, <2>4 DEF IsSpend
<1>11. IsSpend(c, ReclaimTx(p, c))
  <2> DEFINE o == Coin(p.operator, LockupSats(p), c.held)
  <2>1. o \in GraphCoins
    BY <1>1, <1>7 DEF IsCoin
  <2>2. ReclaimTx(p, c).ins = <<c>> /\ ReclaimTx(p, c).outs = <<o>>
    BY DEF ReclaimTx
  <2> HIDE DEF o
  <2>3. ReclaimTx(p, c).ins = <<c>> \o <<>> /\ ReclaimTx(p, c).outs = <<o>> \o <<>>
    BY <1>3, <2>2
  <2>. QED  BY <1>3, <2>1, <2>3 DEF IsSpend
<1>. QED  BY <1>8, <1>9, <1>10, <1>11

\* A claimant's coin is not the operator's.
LEMMA FundsAreForeign == \A f \in Funds : f \in Foreign /\ IsCoin(f)
BY FundsAssumption DEF Foreign, GraphCoins, CoinsOf, Strangers, IsCoin

\* Nor does other software have the operator's coins: what it spends is such a spend.
LEMMA OthersSpend ==
    ASSUME IsLockup(Terms, coin), NEW fund \in Funds,
           NEW leaf \in {"purchase", "recycle", "refund", "reclaim"}, NEW tx \in OtherSpends(leaf, fund)
    PROVE  IsSpend(coin, tx)
<1> DEFINE base == CASE leaf = "purchase" -> PurchaseTx(Terms, coin)
                     [] leaf = "recycle" -> RecycleTx(Terms, coin, fund)
                     [] leaf = "refund" -> RefundTx(Terms, coin, fund)
                     [] OTHER -> ReclaimTx(Terms, coin)
<1>0. fund \in Foreign
  BY FundsAreForeign
<1>1. base \in {PurchaseTx(Terms, coin), RecycleTx(Terms, coin, fund), RefundTx(Terms, coin, fund),
                ReclaimTx(Terms, coin)}
  OBVIOUS
<1>2. IsSpend(coin, base) /\ DOMAIN base = {"ins", "outs"}
  <2>1. /\ IsSpend(coin, PurchaseTx(Terms, coin)) /\ IsSpend(coin, RecycleTx(Terms, coin, fund))
        /\ IsSpend(coin, RefundTx(Terms, coin, fund)) /\ IsSpend(coin, ReclaimTx(Terms, coin))
    BY <1>0, BuiltSpends
  <2>2. /\ DOMAIN PurchaseTx(Terms, coin) = {"ins", "outs"}
        /\ DOMAIN RecycleTx(Terms, coin, fund) = {"ins", "outs"}
        /\ DOMAIN RefundTx(Terms, coin, fund) = {"ins", "outs"}
        /\ DOMAIN ReclaimTx(Terms, coin) = {"ins", "outs"}
    BY DEF PurchaseTx, RecycleTx, RefundTx, ReclaimTx
  <2> HIDE DEF base
  <2>. QED  BY <1>1, <2>1, <2>2
<1> DEFINE o == base.outs[1]
           more == Coin("other", 0, Nothing)
<1>3. tx \in {base,
              [ins |-> Append(base.ins, fund), outs |-> Append(base.outs, fund)],
              [base EXCEPT !.outs = Append(@, more)],
              [base EXCEPT !.outs[1].sats = @ - 1], [base EXCEPT !.outs[1].key = "other"],
              [base EXCEPT !.outs[1].held = Nothing]}
  BY DEF OtherSpends
<1> HIDE DEF base
<1>4. more \in Foreign
  BY DEF Foreign, GraphCoins, Coin, Nothing, Strangers
<1>5. o \in GraphCoins
  BY <1>2, ShortSpends
<1>6. /\ [o EXCEPT !.sats = @ - 1] \in GraphCoins /\ [o EXCEPT !.key = "other"] \in GraphCoins
      /\ [o EXCEPT !.held = Nothing] \in GraphCoins
  <2> HIDE DEF o
  <2>1. o.sats - 1 \in Int
    BY <1>5 DEF GraphCoins
  <2>. QED  BY <1>5, <2>1 DEF GraphCoins, Nothing, Strangers
<1>7. /\ [base EXCEPT !.outs[1].sats = @ - 1] = [base EXCEPT !.outs = [@ EXCEPT ![1] = [o EXCEPT !.sats = @ - 1]]]
      /\ [base EXCEPT !.outs[1].key = "other"] = [base EXCEPT !.outs = [@ EXCEPT ![1] = [o EXCEPT !.key = "other"]]]
      /\ [base EXCEPT !.outs[1].held = Nothing] = [base EXCEPT !.outs = [@ EXCEPT ![1] = [o EXCEPT !.held = Nothing]]]
  OBVIOUS
<1> HIDE DEF o, more
<1>8. IsSpend(coin, [ins |-> Append(base.ins, fund), outs |-> Append(base.outs, fund)])
  BY <1>0, <1>2, <1>4, <1>6, AlteredSpends
<1>9. IsSpend(coin, [base EXCEPT !.outs = Append(@, more)])
  BY <1>2, <1>4, <1>6, AlteredSpends
<1>10. \A x \in GraphCoins : IsSpend(coin, [base EXCEPT !.outs = [@ EXCEPT ![1] = x]])
  BY <1>0, <1>2, AlteredSpends
<1>11. /\ IsSpend(coin, [base EXCEPT !.outs[1].sats = @ - 1])
       /\ IsSpend(coin, [base EXCEPT !.outs[1].key = "other"])
       /\ IsSpend(coin, [base EXCEPT !.outs[1].held = Nothing])
  BY <1>6, <1>7, <1>10
<1>. QED  BY <1>2, <1>3, <1>8, <1>9, <1>11

-----------------------------------------------------------------------------
(* What is co-signed. *)

\* What a sender signs of a service that misquotes still locks a sound covenant.
LEMMA SignedLockup ==
    ASSUME NEW r \in TransferAsks, NEW q, IsOffer(q), Verifies(r, q), r.kind = "lockup"
    PROVE  IsLockup(q.envelope.tx.terms, q.envelope.tx.outs[1])
<1> DEFINE tx == q.envelope.tx
           p == q.p
<1>1. /\ p \in TermsSet /\ p.fareIn = "none" /\ ValidParams(p) /\ p.operator = "operator"
      /\ tx.terms = p
      /\ p.asset # Sats => ExpectedUnits(r, q, p.asset) > 0
      /\ IsCoin(OperatorCoin(q))
  BY DEF Verifies, VerifiesTerms, Validates, IsOffer, OperatorCoin
<1>2. tx.outs[1] = Coin("covenant", Dust + p.payment, ExpectedPaid(r, q))
  BY SigningCosts
<1>3. /\ tx.outs[1].key = "covenant" /\ tx.outs[1].sats = LockupSats(p)
      /\ tx.outs[1].held = ExpectedPaid(r, q)
  BY <1>2 DEF Coin, LockupSats
<1>4. \A a \in Assets : ExpectedUnits(r, q, a) \in Int
  BY <1>1, ExpectedAreNumbers DEF IsCoin
<1>5. AssetFare(p) = 0
  BY <1>1 DEF AssetFare
<1>6. CASE p.asset = Sats
  <2>1. \A a \in Assets : a # p.asset
    BY <1>6, AssetsAssumption
  <2>2. \A a \in Assets : ExpectedUnits(r, q, a) = 0
    BY <2>1 DEF ExpectedUnits
  <2>3. ExpectedPaid(r, q) = Nothing
    BY <2>2 DEF ExpectedPaid, Nothing
  <2>. QED  BY <1>1, <1>3, <1>6, <2>3 DEF IsLockup
<1>7. CASE p.asset # Sats
  <2> DEFINE n == ExpectedUnits(r, q, p.asset)
  <2>1. p.asset \in Assets
    BY <1>1, <1>7 DEF TermsSet, Currencies
  <2>2. n \in Int /\ n > 0
    BY <1>1, <1>4, <1>7, <2>1
  <2>3. \A a \in Assets : a # p.asset => ExpectedUnits(r, q, a) = 0
    BY DEF ExpectedUnits
  <2>4. ExpectedPaid(r, q) = [a \in Assets |-> IF a = p.asset THEN n ELSE 0]
    BY <2>3 DEF ExpectedPaid
  <2>5. Only(p.asset, n) = [a \in Assets |-> IF a = p.asset THEN n ELSE 0]
    BY <2>1 DEF Only, Nothing
  <2> HIDE DEF n
  <2>. QED  BY <1>1, <1>3, <1>5, <1>7, <2>2, <2>4, <2>5 DEF IsLockup
<1>. QED  BY <1>6, <1>7

\* The amounts of what the service plans are numbers.
LEMMA PlannedAmounts ==
    ASSUME NEW b \in RequestSet, Plannable(b)
    PROVE  /\ Amounts(b).hosting \in Nat /\ Amounts(b).senderChange \in Nat
           /\ Amounts(b).operatorChange \in Nat /\ Amounts(b).paid \in Int
           /\ Amounts(b).first = First(b.kind, b.p)
           /\ Amounts(b).payout = OperatorPayoutSats(Amounts(b).hosting, Amounts(b).operatorChange,
                                                     "operator", b.operator.key)
           /\ Amounts(b).hosting = Hosting(b.kind, b.fare)
           /\ Amounts(b).operatorChange = b.operator.sats - b.p.topup
                 - (Amounts(b).hosting - (IF b.payer = "sender" THEN b.fare.units ELSE 0))
           /\ FareHeld(b.fare) \in [Assets -> Int] /\ PaidHeld(b.p, Amounts(b).paid) \in [Assets -> Int]
           /\ AssetChange(b) \in [Assets -> Int]
           /\ b.p.operator = "operator"
           /\ Amounts(b).hosting = 0 => FareHeld(b.fare) = Nothing
           /\ b.p.asset # Sats => Amounts(b).paid > 0
<1> DEFINE a == Amounts(b)
<1>1. /\ b.coin.sats \in Nat /\ b.coin.held \in [Assets -> Nat] /\ b.operator.sats \in Nat
      /\ b.units \in Nat /\ b.fare.units \in Nat /\ b.p.topup \in Int /\ b.p.payment \in Nat
      /\ b.fare.currency \in Currencies /\ b.p.asset \in Currencies /\ b.kind \in {"lockup", "payment"}
  BY DEF RequestSet, CoinsOf, Fares, TermsSet
<1>2. Dust \in Nat /\ VtxoMin \in Nat /\ Dust > 0 /\ VtxoMin > 0
  BY DustAssumption
<1>3. /\ b.p.operator = "operator" /\ a.senderChange >= 0 /\ a.operatorChange >= 0
      /\ b.payer = "sender" => b.fare.currency = Sats /\ b.fare.units > 0
      /\ ~Bitcoin(b.p) => a.paid > 0
  BY DEF Plannable
<1>4. /\ a.first = First(b.kind, b.p) /\ a.hosting = Hosting(b.kind, b.fare)
      /\ a.operatorChange = b.operator.sats - b.p.topup
                               - (a.hosting - (IF b.payer = "sender" THEN a.hosting ELSE 0))
      /\ a.senderChange = b.coin.sats + b.p.topup - a.first.sats
                             - (IF b.payer = "sender" THEN a.hosting ELSE 0)
      /\ a.payout = OperatorPayoutSats(a.hosting, a.operatorChange, b.p.operator, b.operator.key)
      /\ a.paid = PaidUnits(b.p, b.fare, b.coin.held, b.units)
  BY DEF Amounts
<1> HIDE DEF a
<1>5. a.hosting \in Nat /\ (b.payer = "sender" => a.hosting = b.fare.units)
  BY <1>1, <1>2, <1>3, <1>4 DEF Hosting
<1>6. a.first.sats = Dust + b.p.payment
  BY <1>4 DEF First, Coin
<1>7. a.operatorChange \in Nat /\ a.senderChange \in Nat
  BY <1>1, <1>2, <1>3, <1>4, <1>5, <1>6
<1>8. a.paid \in Int
  <2>1. b.p.asset # Sats => b.coin.held[b.p.asset] \in Int
    BY <1>1 DEF Currencies
  <2>. QED  BY <1>1, <1>4, <2>1 DEF PaidUnits, Bitcoin
<1>9. Nothing \in [Assets -> Int]
  BY DEF Nothing
<1>10. FareHeld(b.fare) \in [Assets -> Int]
  BY <1>1, <1>9, OnlyHolds DEF FareHeld
<1>11. PaidHeld(b.p, a.paid) \in [Assets -> Int]
  BY <1>8, <1>9, OnlyHolds DEF PaidHeld
<1>12. AssetChange(b) \in [Assets -> Int]
  <2>1. AssetChange(b) = Without(Without(b.coin.held, FareHeld(b.fare)), PaidHeld(b.p, a.paid))
    BY DEF AssetChange, a
  <2>2. Without(b.coin.held, FareHeld(b.fare)) \in [Assets -> Int]
    BY <1>1, <1>10 DEF Without
  <2>. QED  BY <1>11, <2>1, <2>2 DEF Without
<1>13. a.hosting = 0 => FareHeld(b.fare) = Nothing
  <2>1. a.hosting = 0 => b.fare.units = 0
    BY <1>1, <1>2, <1>4 DEF Hosting
  <2>2. b.fare.currency # Sats => b.fare.currency \in Assets
    BY <1>1 DEF Currencies
  <2>3. b.fare.currency \in Assets => Only(b.fare.currency, 0) = Nothing
    BY DEF Only, Nothing
  <2>. QED  BY <2>1, <2>2, <2>3 DEF FareHeld
<1>14. b.p.asset # Sats => a.paid > 0
  BY <1>3 DEF Bitcoin
<1>. QED  BY <1>3, <1>4, <1>5, <1>7, <1>8, <1>10, <1>11, <1>12, <1>13, <1>14 DEF a

\* The first output of what the service plans.
LEMMA PlannedFirst ==
    ASSUME NEW b \in RequestSet, Plannable(b)
    PROVE  /\ PlanOuts(b)[1].key = First(b.kind, b.p).key
           /\ PlanOuts(b)[1].sats = Dust + b.p.payment
           /\ PlanOuts(b)[1].held = PaidHeld(b.p, Amounts(b).paid)
<1> DEFINE a == Amounts(b)
           change == AssetChange(b)
           c1 == [a.first EXCEPT !.held = PaidHeld(b.p, a.paid)]
           c2 == Coin(b.p.operator, a.payout, FareHeld(b.fare))
           c3 == Coin(b.coin.key, a.senderChange, change)
           c4 == Coin(b.operator.key, a.operatorChange, Nothing)
<1>1. PICK b2 \in BOOLEAN, b3 \in BOOLEAN, b4 \in BOOLEAN :
          /\ b2 <=> a.hosting > 0
          /\ b3 <=> (a.senderChange > 0 \/ change # Nothing)
          /\ b4 <=> (a.operatorChange > 0 /\ a.payout = a.hosting)
  OBVIOUS
<1>2. PlanOuts(b) = <<c1>> \o Perhaps(b2, c2) \o Perhaps(b3, c3) \o Perhaps(b4, c4)
  BY <1>1 DEF PlanOuts, Perhaps
<1>3. a.first = First(b.kind, b.p)
  BY PlannedAmounts
<1>4. /\ c1.key = First(b.kind, b.p).key /\ c1.sats = Dust + b.p.payment
      /\ c1.held = PaidHeld(b.p, a.paid)
  BY <1>3 DEF First, Coin
<1> HIDE DEF c1, c2, c3, c4
<1>5. PlanOuts(b)[1] = c1
  BY <1>2, FirstOfOutputs
<1>. QED  BY <1>4, <1>5

\* A lockup the service plans locks a sound covenant.
LEMMA PlannedLockup ==
    ASSUME NEW b \in RequestSet, Plannable(b), b.kind = "lockup"
    PROVE  IsLockup(Envelope(b).tx.terms, Envelope(b).tx.outs[1])
<1> DEFINE o == PlanOuts(b)[1]
           n == Amounts(b).paid
<1>1. /\ Envelope(b).tx.terms = b.p /\ Envelope(b).tx.outs[1] = o
  BY DEF Envelope
<1>2. b.p \in TermsSet /\ b.p.fareIn = "none" /\ ValidParams(b.p) /\ b.p.operator = "operator"
  BY DEF RequestSet, Plannable
<1>3. o.key = "covenant" /\ o.sats = LockupSats(b.p) /\ o.held = PaidHeld(b.p, n)
  BY PlannedFirst DEF First, Coin, LockupSats
<1>4. n \in Int /\ (b.p.asset # Sats => n > 0)
  BY PlannedAmounts
<1>5. AssetFare(b.p) = 0
  BY <1>2 DEF AssetFare
<1> HIDE DEF o, n
<1>6. IF b.p.asset = Sats THEN o.held = Nothing
      ELSE \E m \in Int : m > AssetFare(b.p) /\ o.held = Only(b.p.asset, m)
  BY <1>3, <1>4, <1>5 DEF PaidHeld, Bitcoin
<1>. QED  BY <1>1, <1>2, <1>3, <1>6 DEF IsLockup

\* What the service signs of its own plan costs it the loan less the fare.
LEMMA PostedCosts ==
    ASSUME NEW b \in RequestSet, Plannable(b), b.p.topup = Dust,
           b.operator.key = "operator", b.operator.held = Nothing
    PROVE  /\ SatsOut(Envelope(b).tx, "operator")
                = Dust - (IF b.payer = "sender" THEN b.fare.units ELSE 0)
           /\ HeldOut(Envelope(b).tx, "operator") = Without(Nothing, FareHeld(b.fare))
<1> DEFINE a == Amounts(b)
           change == AssetChange(b)
           c1 == [a.first EXCEPT !.held = PaidHeld(b.p, a.paid)]
           c2 == Coin(b.p.operator, a.payout, FareHeld(b.fare))
           c3 == Coin(b.coin.key, a.senderChange, change)
           c4 == Coin(b.operator.key, a.operatorChange, Nothing)
           hosting == a.hosting
           oc == a.operatorChange
           paysFare == IF b.payer = "sender" THEN b.fare.units ELSE 0
<1>1. PICK b2 \in BOOLEAN, b3 \in BOOLEAN, b4 \in BOOLEAN :
          /\ b2 <=> a.hosting > 0
          /\ b3 <=> (a.senderChange > 0 \/ change # Nothing)
          /\ b4 <=> (a.operatorChange > 0 /\ a.payout = a.hosting)
  OBVIOUS
<1> DEFINE outs == <<c1>> \o Perhaps(b2, c2) \o Perhaps(b3, c3) \o Perhaps(b4, c4)
           ins == <<b.coin, b.operator>>
<1>2. PlanOuts(b) = outs
  BY <1>1 DEF PlanOuts, Perhaps
<1>3. Envelope(b).tx.ins = ins /\ Envelope(b).tx.outs = outs
  BY <1>2 DEF Envelope
<1>4. /\ hosting \in Nat /\ a.senderChange \in Nat /\ oc \in Nat
      /\ a.first = First(b.kind, b.p)
      /\ a.payout = OperatorPayoutSats(hosting, oc, "operator", "operator")
      /\ oc = b.operator.sats - Dust - (hosting - paysFare)
      /\ FareHeld(b.fare) \in [Assets -> Int] /\ PaidHeld(b.p, a.paid) \in [Assets -> Int]
      /\ change \in [Assets -> Int] /\ b.p.operator = "operator"
      /\ hosting = 0 => FareHeld(b.fare) = Nothing
  BY PlannedAmounts
<1>5. /\ b.coin.key = "sender" /\ b.p.receiver \in Strangers /\ b.p.payment \in Nat
      /\ IsCoin(b.coin) /\ IsCoin(b.operator) /\ b.operator.sats \in Nat /\ b.fare.units \in Nat
      /\ Dust \in Nat
  BY DustAssumption DEF RequestSet, CoinsOf, TermsSet, IsCoin, Fares
<1>6. (hosting > 0 /\ a.payout = hosting + oc) \/ a.payout = hosting
  BY <1>4 DEF OperatorPayoutSats
<1>7. a.payout \in Int
  BY <1>4, <1>6
<1>8. /\ c1.key # "operator" /\ c1.sats = Dust + b.p.payment /\ c1.held = PaidHeld(b.p, a.paid)
      /\ c2.key = "operator" /\ c2.sats = a.payout /\ c2.held = FareHeld(b.fare)
      /\ c3.key = "sender" /\ c3.sats = a.senderChange /\ c3.held = change
      /\ c4.key = "operator" /\ c4.sats = oc /\ c4.held = Nothing
  BY <1>4, <1>5 DEF First, Coin, Strangers
<1>9. IsCoin(c1) /\ IsCoin(c2) /\ IsCoin(c3) /\ IsCoin(c4)
  BY <1>4, <1>5, <1>7, <1>8 DEF IsCoin, Nothing
<1>10. paysFare \in Nat
  BY <1>5
<1> HIDE DEF a, change, c1, c2, c3, c4, hosting, oc, paysFare
<1>11. /\ SatsOf("operator", outs) = SatsTo("operator", c1) + (IF b2 THEN SatsTo("operator", c2) ELSE 0)
             + (IF b3 THEN SatsTo("operator", c3) ELSE 0) + (IF b4 THEN SatsTo("operator", c4) ELSE 0)
       /\ \A x \in Assets :
             HeldOf("operator", outs)[x] = HeldTo("operator", c1, x)
               + (IF b2 THEN HeldTo("operator", c2, x) ELSE 0)
               + (IF b3 THEN HeldTo("operator", c3, x) ELSE 0)
               + (IF b4 THEN HeldTo("operator", c4, x) ELSE 0)
  BY <1>9, SumsOfOutputs
<1>12. /\ SatsOf("operator", ins) = SatsTo("operator", b.coin) + SatsTo("operator", b.operator)
       /\ \A x \in Assets : HeldOf("operator", ins)[x]
                               = HeldTo("operator", b.coin, x) + HeldTo("operator", b.operator, x)
  BY <1>5, SumsOfInputs
<1> HIDE DEF outs, ins
<1>13. /\ SatsTo("operator", c1) = 0 /\ SatsTo("operator", c2) = a.payout
       /\ SatsTo("operator", c3) = 0 /\ SatsTo("operator", c4) = oc
       /\ SatsTo("operator", b.coin) = 0 /\ SatsTo("operator", b.operator) = b.operator.sats
  BY <1>5, <1>8 DEF SatsTo
<1>14. (IF b2 THEN a.payout ELSE 0) + (IF b4 THEN oc ELSE 0) = hosting + oc
  <2>1. (b2 <=> hosting > 0) /\ (b4 <=> (oc > 0 /\ a.payout = hosting))
    BY <1>1 DEF hosting, oc
  <2>. QED  BY <1>4, <1>6, <1>7, <2>1
<1>15. SatsOf("operator", outs) = hosting + oc
  BY <1>4, <1>7, <1>11, <1>13, <1>14
<1>16. SatsOf("operator", ins) = b.operator.sats
  BY <1>5, <1>12, <1>13
<1>17. SatsOut(Envelope(b).tx, "operator") = Dust - paysFare
  BY <1>3, <1>4, <1>5, <1>10, <1>15, <1>16 DEF SatsOut
<1>18. ASSUME NEW x \in Assets
       PROVE  HeldOf("operator", ins)[x] - HeldOf("operator", outs)[x] = Nothing[x] - FareHeld(b.fare)[x]
  <2>1. /\ HeldTo("operator", c1, x) = 0 /\ HeldTo("operator", c2, x) = FareHeld(b.fare)[x]
        /\ HeldTo("operator", c3, x) = 0 /\ HeldTo("operator", c4, x) = 0
        /\ HeldTo("operator", b.coin, x) = 0 /\ HeldTo("operator", b.operator, x) = 0
    BY <1>5, <1>8 DEF HeldTo, Nothing
  <2>2. ~b2 => FareHeld(b.fare)[x] = 0
    BY <1>1, <1>4 DEF hosting, Nothing
  <2>3. FareHeld(b.fare)[x] \in Int /\ Nothing[x] = 0
    BY <1>4 DEF Nothing
  <2>. QED  BY <1>11, <1>12, <2>1, <2>2, <2>3
<1>19. HeldOut(Envelope(b).tx, "operator") = Without(Nothing, FareHeld(b.fare))
  BY <1>3, <1>18 DEF HeldOut, Without
<1>. QED  BY <1>17, <1>19 DEF paysFare

\* Of two sequences the one that is nowhere greater has no greater sum.
LEMMA TotalIsMonotone ==
    ASSUME NEW s \in Seq(Int), NEW t \in Seq(Int), Len(s) = Len(t),
           \A k \in 1 .. Len(s) : s[k] <= t[k]
    PROVE  Total(s) <= Total(t)
<1>1. /\ Len(s) \in Nat /\ \A k \in 1 .. Len(s) : s[k] \in Int /\ t[k] \in Int
  OBVIOUS
<1>2. PICK f \in [0 .. Len(s) -> Int] :
          /\ f[0] = 0 /\ Total(s) = f[Len(s)]
          /\ \A k \in 1 .. Len(s) : f[k] = f[k - 1] + s[k]
  BY TotalIsLast
<1>3. PICK g \in [0 .. Len(t) -> Int] :
          /\ g[0] = 0 /\ Total(t) = g[Len(t)]
          /\ \A k \in 1 .. Len(t) : g[k] = g[k - 1] + t[k]
  BY TotalIsLast
<1> DEFINE Above == {n \in 0 .. Len(s) : ~(f[n] <= g[n])}
<1>4. Above = {}
  <2> SUFFICES ASSUME Above # {} PROVE FALSE
    OBVIOUS
  <2>0. Above \in SUBSET Nat
    BY <1>1
  <2>1. PICK n \in Above : \A m \in Above : n <= m
    <3> HIDE DEF Above
    <3>. QED  BY <2>0, LeastNumber
  <2>2. n # 0
    BY <1>2, <1>3, <2>1
  <2>3. n \in 1 .. Len(s) /\ ~(f[n] <= g[n])
    BY <1>1, <2>1, <2>2
  <2>4. n - 1 \in 0 .. Len(s) /\ n - 1 < n /\ n \in Nat
    BY <1>1, <2>3
  <2>5. f[n - 1] <= g[n - 1]
    BY <2>1, <2>4
  <2>6. f[n] = f[n - 1] + s[n] /\ g[n] = g[n - 1] + t[n] /\ s[n] <= t[n]
    BY <1>2, <1>3, <2>3
  <2>7. f[n - 1] \in Int /\ g[n - 1] \in Int /\ s[n] \in Int /\ t[n] \in Int
    BY <1>1, <2>3, <2>4
  <2>. QED  BY <2>3, <2>5, <2>6, <2>7
<1>5. Len(s) \in 0 .. Len(s)
  BY <1>1
<1>6. f[Len(s)] <= g[Len(s)]
  BY <1>4, <1>5
<1>. QED  BY <1>2, <1>3, <1>6

\* A fill the service accepts costs it no more than the loan less the fare.
LEMMA FillCosts ==
    ASSUME NEW rq, NEW g, IsGraph(g), FillAccepted(rq, g), rq.operator.sats \in Int,
           rq.p.topup \in Int, rq.fareUnits \in Int
    PROVE  rq.operator.sats - SatsOf("operator", g.tx.outs) <= rq.p.topup - rq.fareUnits
<1> DEFINE outs == g.tx.outs
           payouts == {i \in DOMAIN outs : Pays(outs[i], "operator")}
           s == [i \in DOMAIN outs |-> IF i \in payouts THEN outs[i].sats ELSE 0]
           t == [i \in DOMAIN outs |-> IF outs[i].key = "operator" THEN outs[i].sats ELSE 0]
<1>1. outs \in Seq(GraphCoins)
  BY DEF IsGraph
<1>2. \A i \in DOMAIN outs : outs[i].sats \in Int
  <2>1. \A i \in DOMAIN outs : outs[i] \in GraphCoins
    BY <1>1
  <2>2. \A x \in GraphCoins : x.sats \in Int
    BY DEF GraphCoins
  <2>. QED  BY <2>1, <2>2
<1>3. Total(s) = rq.operator.sats - rq.p.topup + rq.fareUnits
  BY DEF FillAccepted, PaysTaxi
<1>4. SatsOf("operator", outs) = Total(t)
  BY DEF SatsOf
<1>5. \A i \in DOMAIN outs : outs[i].sats >= 0
  <2>1. \A i \in DOMAIN outs : outs[i].sats >= VtxoMin \/ outs[i].sats >= Dust
    BY DEF FillAccepted, OutputsHost
  <2>. QED  BY <1>2, <2>1, DustAssumption
<1>6. \A i \in payouts : outs[i].key = "operator"
  BY DEF Pays, Script
<1>7. Len(outs) \in Nat /\ DOMAIN outs = 1 .. Len(outs)
  BY <1>1
<1>8. s \in Seq(Int) /\ t \in Seq(Int) /\ Len(s) = Len(outs) /\ Len(t) = Len(outs)
  BY <1>2, <1>7
<1>9. \A k \in 1 .. Len(s) : s[k] <= t[k]
  BY <1>2, <1>5, <1>6, <1>7, <1>8
<1>10. Total(s) \in Int /\ Total(t) \in Int
  <2>1. \A u \in Seq(Int) : Total(u) \in Int
    <3> SUFFICES ASSUME NEW u \in Seq(Int) PROVE Total(u) \in Int
      OBVIOUS
    <3>1. PICK f \in [0 .. Len(u) -> Int] : Total(u) = f[Len(u)]
      BY TotalIsLast
    <3>2. Len(u) \in 0 .. Len(u)
      OBVIOUS
    <3>. QED  BY <3>1, <3>2
  <2>. QED  BY <1>8, <2>1
<1> HIDE DEF s, t, outs, payouts
<1>11. Total(s) <= Total(t)
  BY <1>8, <1>9, TotalIsMonotone
<1>12. rq.operator.sats - Total(t) <= rq.p.topup - rq.fareUnits
  BY <1>3, <1>10, <1>11
<1>. QED  BY <1>4, <1>12 DEF outs

\* What a receive quote stores.
LEMMA RowOfReceive ==
    ASSUME NEW r \in CarrierAsks, NEW rule \in Rules, NEW operator \in OperatorCoins,
           ReceiveOffered(r, rule)
    PROVE  LET rq == ReceiveRow(r, rule, operator) IN
           /\ rq.p = ReceiveParams(r, rule) /\ rq.operator = operator /\ rq.rule = rule
           /\ rq.p \in TermsSet /\ rq.p.operator = "operator" /\ rq.p.asset \in Assets
           /\ rq.p.asset # Sats /\ rq.p.topup = Dust /\ rq.p.payment = 0
           /\ rq.fareUnits = ServiceFare(r, rule) /\ rq.fareUnits \in Nat
           /\ operator.key = "operator" /\ operator.sats \in Nat /\ operator.held = Nothing
           /\ r.payer = "receiver" => rq.fareUnits = 0
<1>1. ReceiveParams(r, rule) \in TermsSet
  BY CarriersAreTerms
<1>2. /\ ReceiveRow(r, rule, operator).p = ReceiveParams(r, rule)
      /\ ReceiveRow(r, rule, operator).fareUnits = ServiceFare(r, rule)
      /\ ReceiveRow(r, rule, operator).operator = operator /\ ReceiveRow(r, rule, operator).rule = rule
  BY DEF ReceiveRow
<1>3. /\ ReceiveParams(r, rule).operator = "operator" /\ ReceiveParams(r, rule).asset = r.asset
      /\ ReceiveParams(r, rule).topup = Dust /\ ReceiveParams(r, rule).payment = 0
  BY DEF ReceiveParams
<1>4. r.asset \in Assets /\ r.asset # Sats
  BY AssetsAssumption DEF CarrierAsks
<1>5. ServiceFare(r, rule) \in Nat
  <2>1. ResolveFare(rule.fare, r.asset, 0) \in Fares
    BY <1>4, FareIsWhole DEF ReceiveOffered, Currencies
  <2>. QED  BY <2>1 DEF ServiceFare, Fares
<1>6. operator.key = "operator" /\ operator.sats \in Nat /\ operator.held = Nothing
  BY OperatorCoinsAssumption
<1>7. r.payer = "receiver" => ServiceFare(r, rule) = 0
  BY DEF ServiceFare
<1>. QED  BY <1>1, <1>2, <1>3, <1>4, <1>5, <1>6, <1>7

\* A fill the service accepts locks a sound covenant and costs it the loan less the fare.
LEMMA FilledLockup ==
    ASSUME NEW r \in CarrierAsks, NEW rule \in Rules, NEW operator \in OperatorCoins,
           ReceiveOffered(r, rule), ValidParams(ReceiveParams(r, rule)),
           NEW g, IsGraph(g), FillAccepted(ReceiveRow(r, rule, operator), g)
    PROVE  LET rq == ReceiveRow(r, rule, operator) IN
           /\ IsLockup(g.tx.terms, g.tx.outs[g.index])
           /\ rq.operator.sats - SatsOf("operator", g.tx.outs) <= rq.p.topup - rq.fareUnits
<1> DEFINE rq == ReceiveRow(r, rule, operator)
<1>1. /\ rq.p = ReceiveParams(r, rule) /\ rq.operator = operator
      /\ rq.p \in TermsSet /\ rq.p.operator = "operator" /\ rq.p.asset # Sats
      /\ rq.p.topup = Dust /\ rq.fareUnits \in Nat /\ operator.sats \in Nat
  BY RowOfReceive
<1>2. /\ g.tx.outs[g.index].key = "covenant" /\ g.tx.terms = rq.p
      /\ g.tx.outs[g.index].sats = LockupSats(rq.p)
      /\ AssetFare(rq.p) < g.units /\ g.tx.outs[g.index].held = Only(rq.p.asset, g.units)
      /\ g.units \in Int
  BY DEF FillAccepted, DeliversCovenant, IsGraph
<1>3. AssetFare(rq.p) \in Int
  BY <1>1 DEF AssetFare, TermsSet
<1>4. g.units > AssetFare(rq.p)
  BY <1>2, <1>3
<1> HIDE DEF rq
<1>5. IsLockup(g.tx.terms, g.tx.outs[g.index])
  BY <1>1, <1>2, <1>4 DEF IsLockup
<1>6. FillAccepted(rq, g) /\ rq.operator.sats \in Int /\ rq.p.topup \in Int /\ rq.fareUnits \in Int
  BY <1>1, DustAssumption DEF rq
<1>7. rq.operator.sats - SatsOf("operator", g.tx.outs) <= rq.p.topup - rq.fareUnits
  BY <1>6, FillCosts
<1>. QED  BY <1>5, <1>7 DEF rq

\* A solver that delivers is accepted.
LEMMA SolverIsAccepted ==
    ASSUME NEW r \in CarrierAsks, NEW rule \in Rules, NEW operator \in OperatorCoins,
           ReceiveOffered(r, rule), ReceiveCovers(operator, ServiceFare(r, rule)),
           NEW g, IsGraph(g), SolverDelivers(ReceiveRow(r, rule, operator), g)
    PROVE  FillAccepted(ReceiveRow(r, rule, operator), g)
<1> DEFINE rq == ReceiveRow(r, rule, operator)
           c == g.tx.ins[2]
           back == rq.operator.sats - Dust + rq.fareUnits
           left == c.sats - rq.fareUnits
           c1 == Coin("covenant", Dust, c.held)
           c2 == Coin("operator", back, Nothing)
           c3 == Coin("solver", left, Nothing)
<1>1. /\ rq.p = ReceiveParams(r, rule) /\ rq.operator = operator
      /\ rq.p \in TermsSet /\ rq.p.operator = "operator" /\ rq.p.asset # Sats
      /\ rq.p.topup = Dust /\ rq.p.payment = 0 /\ rq.fareUnits = ServiceFare(r, rule)
      /\ rq.fareUnits \in Nat /\ operator.sats \in Nat /\ operator.key = "operator"
      /\ operator.held = Nothing
  BY RowOfReceive
<1>2. /\ c \in CoinsOf({"solver"}) /\ c.sats >= Dust + rq.fareUnits
      /\ c.held = Only(rq.p.asset, g.units) /\ g.units > AssetFare(rq.p)
      /\ g.taxi = 1 /\ g.index = 1 /\ g.outlives
      /\ g.tx = [ins |-> <<rq.operator, c>>, terms |-> rq.p, outs |-> <<c1, c2, c3>>]
  BY DEF SolverDelivers
<1>3. c.key = "solver" /\ c.sats \in Nat /\ c.held \in [Assets -> Nat]
  BY <1>2 DEF CoinsOf
<1>4. Dust \in Nat /\ VtxoMin \in Nat /\ Dust > 0 /\ VtxoMin > 0 /\ VtxoMin <= Dust
  BY DustAssumption
<1> HIDE DEF rq
<1>5. back \in Nat /\ back >= Dust
  <2>1. operator.sats >= Dust /\ (Dust > rq.fareUnits => operator.sats >= Dust + (Dust - rq.fareUnits))
    BY <1>1, <1>4 DEF ReceiveCovers
  <2>. QED  BY <1>1, <1>4, <2>1
<1>6. left \in Nat /\ left >= Dust
  BY <1>1, <1>2, <1>3, <1>4
<1>7. /\ c1.key = "covenant" /\ c1.sats = Dust /\ c1.held = c.held
      /\ c2.key = "operator" /\ c2.sats = back /\ c2.held = Nothing
      /\ c3.key = "solver" /\ c3.sats = left /\ c3.held = Nothing
  BY DEF Coin
<1>8. g.tx.ins = <<operator, c>> /\ g.tx.outs = <<c1, c2, c3>> /\ g.tx.terms = rq.p
  BY <1>1, <1>2
<1> HIDE DEF c1, c2, c3, back, left
<1>9. TakesTheReservation(rq, g)
  <2>1. DOMAIN g.tx.ins = {1, 2} /\ g.tx.ins[1] = operator /\ g.tx.ins[2].key = "solver"
    BY <1>3, <1>8
  <2>. QED  BY <1>1, <1>2, <2>1 DEF TakesTheReservation, Pays, Script
<1>10. DOMAIN g.tx.outs = {1, 2, 3} /\ g.tx.outs[1] = c1 /\ g.tx.outs[2] = c2 /\ g.tx.outs[3] = c3
  BY <1>8
<1>11. DeliversCovenant(rq, g)
  <2>1. AssetFare(rq.p) \in Nat /\ g.units \in Int
    BY <1>1 DEF AssetFare, TermsSet, IsGraph
  <2>2. g.units > 0 /\ AssetFare(rq.p) < g.units
    BY <1>2, <2>1
  <2>3. LockupSats(rq.p) = Dust
    BY <1>1, <1>4 DEF LockupSats
  <2>. QED  BY <1>2, <1>7, <1>8, <1>10, <2>2, <2>3 DEF DeliversCovenant
<1>12. PaysTaxi(rq, g)
  <2> DEFINE outs == g.tx.outs
             payouts == {i \in DOMAIN outs : Pays(outs[i], "operator")}
  <2>1. payouts = {2}
    <3>1. Pays(outs[2], "operator") /\ ~Pays(outs[1], "operator") /\ ~Pays(outs[3], "operator")
      BY <1>5, <1>7, <1>10 DEF Pays, Script
    <3>. QED  BY <1>10, <3>1
  <2> HIDE DEF payouts
  <2>2. [i \in DOMAIN outs |-> IF i \in payouts THEN outs[i].sats ELSE 0] = <<0, back>> \o <<0>>
    BY <1>7, <1>8, <1>10, <2>1
  <2>3. <<0, back>> \in Seq(Int) /\ <<0>> \in Seq(Int) /\ back \in Int /\ 0 \in Int
    BY <1>5
  <2>4. Total(<<0, back>> \o <<0>>) = Total(<<0, back>>) + Total(<<0>>)
    BY <2>3, TotalOfConcat
  <2>5. Total(<<0, back>>) = back /\ Total(<<0>>) = 0
    <3>1. <<0>> \in Seq(Int) /\ <<back>> \in Seq(Int) /\ <<0, back>> = <<0>> \o <<back>>
      BY <2>3, TwoInARow
    <3>2. Total(<<0>> \o <<back>>) = Total(<<0>>) + Total(<<back>>)
      BY <3>1, TotalOfConcat
    <3>3. Total(<<0>>) = 0 /\ Total(<<back>>) = back
      BY <2>3, TotalOfFew
    <3>4. Total(<<0, back>>) = 0 + back
      BY <3>1, <3>2, <3>3
    <3>. QED  BY <1>5, <3>3, <3>4
  <2>6. Total([i \in DOMAIN outs |-> IF i \in payouts THEN outs[i].sats ELSE 0])
            = rq.operator.sats - rq.p.topup + rq.fareUnits
    <3>1. back = rq.operator.sats - rq.p.topup + rq.fareUnits
      BY <1>1, <1>4 DEF back
    <3>2. Total([i \in DOMAIN outs |-> IF i \in payouts THEN outs[i].sats ELSE 0]) = back + 0
      BY <2>2, <2>4, <2>5
    <3>. QED  BY <1>5, <3>1, <3>2
  <2>7. \A i \in payouts : outs[i].held = Nothing
    BY <1>7, <1>10, <2>1
  <2>. QED  BY <2>6, <2>7 DEF PaysTaxi, payouts
<1>13. OutputsHost(g)
  BY <1>4, <1>5, <1>6, <1>7, <1>10 DEF OutputsHost
<1>14. IsCoin(operator) /\ IsCoin(c) /\ IsCoin(c1) /\ IsCoin(c2) /\ IsCoin(c3)
  <2>1. Nothing \in [Assets -> Int] /\ c.held \in [Assets -> Int]
    BY <1>3 DEF Nothing
  <2>. QED  BY <1>1, <1>3, <1>4, <1>5, <1>6, <1>7, <2>1 DEF IsCoin
<1>15. /\ TotalSats(g.tx.ins) = operator.sats + c.sats
       /\ TotalHeld(g.tx.ins) = Both(operator.held, c.held)
  BY <1>8, <1>14, TotalsOfTwo
<1>16. /\ TotalSats(g.tx.outs) = Dust + back + left
       /\ TotalHeld(g.tx.outs) = Both(Both(c.held, Nothing), Nothing)
  <2> DEFINE S == {c1, c2, c3}
             u == <<c1, c2>>
             v == <<c3>>
  <2>1. u \in Seq(S) /\ v \in Seq(S) /\ <<c1, c2, c3>> = u \o v
    OBVIOUS
  <2>2. \A x \in S : IsCoin(x)
    BY <1>14
  <2>3. /\ TotalSats(u) = Dust + back /\ TotalHeld(u) = Both(c.held, Nothing)
    BY <1>7, <1>14, TotalsOfTwo
  <2>4. TotalSats(v) = left /\ TotalHeld(v) = Nothing
    BY <1>7, <1>14, TotalsOfFew
  <2> HIDE DEF S, u, v
  <2>5. TotalSats(u \o v) = TotalSats(u) + TotalSats(v) /\ TotalHeld(u \o v) = Both(TotalHeld(u), TotalHeld(v))
    BY <2>1, <2>2, TotalsAdd
  <2>. QED  BY <1>8, <2>1, <2>3, <2>4, <2>5
<1>17. TotalSats(g.tx.outs) = TotalSats(g.tx.ins)
  BY <1>1, <1>3, <1>4, <1>15, <1>16 DEF back, left
<1>18. UnitsConserved(g)
  <2>1. Both(Both(c.held, Nothing), Nothing) = Both(Nothing, c.held)
    BY <1>3 DEF Both, Nothing
  <2>. QED  BY <1>1, <1>15, <1>16, <2>1 DEF UnitsConserved
<1>19. g.index \in DOMAIN g.tx.outs
  BY <1>2, <1>10
<1>. QED  BY <1>2, <1>9, <1>11, <1>12, <1>13, <1>17, <1>18, <1>19 DEF FillAccepted, rq

\* What is stored with a quote is what the service built it from.
StoredTransfer ==
    \E rule \in Rules, operator \in OperatorCoins :
       Admitted(ask, rule) /\ row = BuildRequest(ask, rule, operator)
StoredCarrier ==
    \E rule \in Rules, operator \in OperatorCoins :
       /\ ReceiveOffered(ask, rule) /\ ReceiveCovers(operator, ServiceFare(ask, rule))
       /\ row = ReceiveRow(ask, rule, operator) /\ quote = ReceiveQuote(ask, rule, operator)

FillCost == row.operator.sats - SatsOf("operator", quote.tx.outs)

LockedInv ==
    /\ stage \in {"asking", "quoted", "ready"} /\ ask.kind = "fill" => ask \in ReceiveAsks
    /\ stage \in {"quoted", "signed", "posted"} /\ row # None /\ ask.kind # "fill" => StoredTransfer
    /\ stage \in {"quoted", "ready"} /\ row # None /\ ask.kind = "fill" => StoredCarrier
    /\ stage = "posted" =>
          row # None /\ ask \in TransferAsks /\ Plannable(row) /\ quote = Envelope(row)
    /\ stage = "locked" => IsLockup(Terms, coin)
    /\ stage = "locked" /\ ask.kind = "fill" => FillCost <= row.p.topup - row.fareUnits
    /\ SettledAsAgreed

\* What each verdict on a spend of a sound covenant means for the parties.
LEMMA VerdictMeans ==
    ASSUME NEW p, NEW c, IsLockup(p, c), NEW tx, IsSpend(c, tx), NEW leaf, NEW v,
           v = Classify(p, leaf, tx, c.held, TRUE)
    PROVE  /\ v \in {"purchased", "recycled", "refunded", "recovered", "unknown"}
           /\ v = "recycled" =>
                 /\ -SatsOut(tx, "operator") = OperatorSats(p)
                 /\ -SatsOut(tx, p.receiver) = LockupSats(p) - OperatorSats(p)
                 /\ AssetFare(p) > 0 => -HeldOut(tx, "operator")[p.asset] = AssetFare(p)
                 /\ p.asset # Sats => -HeldOut(tx, p.receiver)[p.asset] = c.held[p.asset] - AssetFare(p)
           /\ v = "purchased" =>
                 -SatsOut(tx, p.receiver) = LockupSats(p) /\ HeldOf(p.receiver, tx.outs) = c.held
           /\ v = "refunded" => -SatsOut(tx, "operator") = LoanSats(p)
           /\ v = "recovered" =>
                 /\ -SatsOut(tx, "operator") = LoanSats(p) + p.payment
                 /\ HeldOf("operator", tx.outs) = c.held
<1>1. /\ v \in {"purchased", "recycled", "refunded", "recovered", "unknown"}
      /\ v = "purchased" => ClassifyPurchase(p, tx)
      /\ v = "recycled" => ClassifyRecycle(p, tx)
      /\ v = "refunded" => ClassifyRefund(p, tx)
      /\ v = "recovered" => ClassifyReclaim(p, tx, TRUE)
  BY VerdictIsChecked
<1>2. CASE v = "recycled"
  BY <1>1, <1>2, RecycledMoves
<1>3. CASE v = "purchased"
  BY <1>1, <1>3, PurchasedMoves
<1>4. CASE v = "refunded"
  BY <1>1, <1>4, RefundedMoves
<1>5. CASE v = "recovered"
  BY <1>1, <1>5, RecoveredMoves
<1>6. CASE v = "unknown"
  BY <1>6
<1>. QED  BY <1>1, <1>2, <1>3, <1>4, <1>5, <1>6

\* A spend that leaves the operator's coins alone moves what its verdict stands for; one of
\* the client or the runner is also admitted and told as what it is.
LEMMA SpendSettles ==
    ASSUME IsLockup(Terms, coin), NEW tx, IsSpend(coin, tx), NEW leaf, NEW by, SpendBy(leaf, tx, by),
           by \in {"client", "runner"} =>
              /\ Admits(Terms, leaf, tx)
              /\ Classify(Terms, leaf, tx, coin.held, TRUE)
                    = CASE leaf = "purchase" -> "purchased" [] leaf = "recycle" -> "recycled"
                        [] leaf = "refund" -> "refunded" [] OTHER -> "recovered"
    PROVE  LockedInv'
<1>1. /\ stage' = "spent" /\ spend' = [leaf |-> leaf, tx |-> tx, by |-> by]
      /\ verdict' = Classify(Terms, leaf, tx, coin.held, TRUE)
      /\ quote' = quote /\ coin' = coin
  BY DEF SpendBy
<1>2. Terms' = Terms
  BY <1>1 DEF Terms
<1> DEFINE p == Terms
           v == Classify(Terms, leaf, tx, coin.held, TRUE)
<1>3. /\ v \in {"purchased", "recycled", "refunded", "recovered", "unknown"}
      /\ v = "recycled" =>
            /\ -SatsOut(tx, "operator") = OperatorSats(p)
            /\ -SatsOut(tx, p.receiver) = LockupSats(p) - OperatorSats(p)
            /\ AssetFare(p) > 0 => -HeldOut(tx, "operator")[p.asset] = AssetFare(p)
            /\ p.asset # Sats => -HeldOut(tx, p.receiver)[p.asset] = coin.held[p.asset] - AssetFare(p)
      /\ v = "purchased" =>
            -SatsOut(tx, p.receiver) = LockupSats(p) /\ HeldOf(p.receiver, tx.outs) = coin.held
      /\ v = "refunded" => -SatsOut(tx, "operator") = LoanSats(p)
      /\ v = "recovered" =>
            /\ -SatsOut(tx, "operator") = LoanSats(p) + p.payment
            /\ HeldOf("operator", tx.outs) = coin.held
  BY VerdictMeans
<1>4. Settles(Terms, tx)'
  <2>1. verdict' = v /\ coin' = coin /\ Terms' = Terms
    BY <1>1, <1>2
  <2> HIDE DEF v
  <2>2. CASE v = "recycled"
    BY <1>3, <2>1, <2>2 DEF Settles
  <2>3. CASE v = "purchased"
    BY <1>3, <2>1, <2>3 DEF Settles
  <2>4. CASE v = "refunded"
    BY <1>3, <2>1, <2>4 DEF Settles
  <2>5. CASE v = "recovered"
    BY <1>3, <2>1, <2>5 DEF Settles
  <2>6. CASE v = "unknown"
    BY <2>1, <2>6 DEF Settles
  <2>. QED  BY <1>3, <2>2, <2>3, <2>4, <2>5, <2>6
<1>5. spend'.tx = tx /\ spend'.leaf = leaf /\ spend'.by = by
  BY <1>1
<1>6. Settles(Terms, spend.tx)'
  BY <1>4, <1>5 DEF Settles
<1>7. spend'.by \in {"client", "runner"} =>
         /\ Admits(Terms', spend'.leaf, spend'.tx)
         /\ verdict' = CASE spend'.leaf = "purchase" -> "purchased" [] spend'.leaf = "recycle" -> "recycled"
                         [] spend'.leaf = "refund" -> "refunded" [] OTHER -> "recovered"
  BY <1>1, <1>2, <1>5
<1>8. SettledAsAgreed'
  BY <1>6, <1>7 DEF SettledAsAgreed
<1>. QED  BY <1>1, <1>8 DEF LockedInv

\* The spends of the client, of the runner and of others.
LEMMA SpendSteps ==
    ASSUME IsLockup(Terms, coin),
           \/ Purchase \/ Reclaim
           \/ \E fund \in Funds : Recycle(fund) \/ Refund(fund)
           \/ \E fund \in Funds, leaf \in {"purchase", "recycle", "refund", "reclaim"} :
                 OtherSpend(leaf, fund)
    PROVE  LockedInv'
<1>1. \E f : f \in Foreign
  <2>1. Coin("sender", 0, Nothing) \in Foreign
    BY DEF Coin, Nothing, Foreign, GraphCoins
  <2>. QED  BY <2>1
<1>2. CASE Purchase
  <2>1. PICK tx : tx = PurchaseTx(Terms, coin)
    OBVIOUS
  <2>2. CanPurchase(Terms) /\ SpendBy("purchase", tx, "client")
    BY <1>2, <2>1 DEF Purchase
  <2>3. IsSpend(coin, tx)
    BY <1>1, <2>1, BuiltSpends
  <2>4. /\ Admits(Terms, "purchase", tx)
        /\ Classify(Terms, "purchase", tx, coin.held, TRUE) = "purchased"
    BY <2>1, <2>2, PurchaseSettles
  <2>. QED  BY <2>2, <2>3, <2>4, SpendSettles
<1>3. CASE Reclaim
  <2>1. PICK tx : tx = ReclaimTx(Terms, coin)
    OBVIOUS
  <2>2. SpendBy("reclaim", tx, "runner")
    BY <1>3, <2>1 DEF Reclaim
  <2>3. IsSpend(coin, tx)
    BY <1>1, <2>1, BuiltSpends
  <2>4. /\ Admits(Terms, "reclaim", tx)
        /\ Classify(Terms, "reclaim", tx, coin.held, TRUE) = "recovered"
    BY <2>1, ReclaimSettles
  <2>. QED  BY <2>2, <2>3, <2>4, SpendSettles
<1>4. ASSUME NEW fund \in Funds, Recycle(fund) PROVE LockedInv'
  <2>1. PICK tx : tx = RecycleTx(Terms, coin, fund)
    OBVIOUS
  <2>2. CanRecycle(Terms, coin, fund) /\ SpendBy("recycle", tx, "client")
    BY <1>4, <2>1 DEF Recycle
  <2>3. fund \in Foreign /\ IsCoin(fund)
    BY FundsAreForeign
  <2>4. IsSpend(coin, tx)
    BY <2>1, <2>3, BuiltSpends
  <2>5. /\ Admits(Terms, "recycle", tx)
        /\ Classify(Terms, "recycle", tx, coin.held, TRUE) = "recycled"
    BY <2>1, <2>2, <2>3, RecycleSettles
  <2>. QED  BY <2>2, <2>4, <2>5, SpendSettles
<1>5. ASSUME NEW fund \in Funds, Refund(fund) PROVE LockedInv'
  <2>1. PICK tx : tx = RefundTx(Terms, coin, fund)
    OBVIOUS
  <2>2. CanRefund(Terms, fund) /\ SpendBy("refund", tx, "client")
    BY <1>5, <2>1 DEF Refund
  <2>3. fund \in Foreign /\ IsCoin(fund)
    BY FundsAreForeign
  <2>4. IsSpend(coin, tx)
    BY <2>1, <2>3, BuiltSpends
  <2>5. /\ Admits(Terms, "refund", tx)
        /\ Classify(Terms, "refund", tx, coin.held, TRUE) = "refunded"
    BY <2>1, <2>2, <2>3, RefundSettles
  <2>. QED  BY <2>2, <2>4, <2>5, SpendSettles
<1>6. ASSUME NEW fund \in Funds, NEW leaf \in {"purchase", "recycle", "refund", "reclaim"},
             OtherSpend(leaf, fund)
      PROVE  LockedInv'
  <2>1. PICK tx \in OtherSpends(leaf, fund) : SpendBy(leaf, tx, "other")
    BY <1>6 DEF OtherSpend
  <2>2. IsSpend(coin, tx)
    BY OthersSpend
  <2>. QED  BY <2>1, <2>2, SpendSettles
<1>. QED  BY <1>2, <1>3, <1>4, <1>5, <1>6

\* What is behind a stored transfer.
LEMMA StoredIsRequest ==
    ASSUME ask \in TransferAsks, StoredTransfer
    PROVE  /\ row \in RequestSet /\ row.kind = ask.kind /\ row.p.topup = Dust
           /\ row.operator.key = "operator" /\ row.operator.held = Nothing
<1>1. PICK rule \in Rules, operator \in OperatorCoins :
         Admitted(ask, rule) /\ row = BuildRequest(ask, rule, operator)
  BY DEF StoredTransfer
<1>2. row \in RequestSet
  BY <1>1, BuiltIsRequest
<1>3. row.kind = ask.kind /\ row.p.topup = Dust /\ row.operator = operator
  BY <1>1 DEF BuildRequest
<1>4. operator.key = "operator" /\ operator.held = Nothing
  BY OperatorCoinsAssumption
<1>. QED  BY <1>2, <1>3, <1>4

\* The joint transaction of a lockup locks a sound covenant.
LEMMA LandLocks == ValueInv /\ LockedInv /\ Land => LockedInv'
<1> SUFFICES ASSUME ValueInv, LockedInv, Land PROVE LockedInv'
  OBVIOUS
<1>1. /\ ask \in TransferAsks /\ ask.kind # "fill" /\ ask' = ask
      /\ stage' = IF ask.kind = "lockup" THEN "locked" ELSE "paid"
  BY KindsOfAsks DEF Land, ValueInv, LockedInv
<1>2. CASE ask.kind # "lockup"
  BY <1>1, <1>2 DEF LockedInv, SettledAsAgreed
<1>3. CASE ask.kind = "lockup" /\ stage = "posted"
  <2>1. /\ StoredTransfer /\ Plannable(row) /\ quote = Envelope(row)
        /\ coin' = quote.tx.outs[1] /\ quote' = quote
    BY <1>1, <1>3 DEF Land, LockedInv
  <2>2. row \in RequestSet /\ row.kind = "lockup"
    BY <1>1, <1>3, <2>1, StoredIsRequest
  <2>3. IsLockup(quote.tx.terms, quote.tx.outs[1])
    BY <2>1, <2>2, PlannedLockup
  <2>4. IsLockup(Terms, coin)'
    BY <2>1, <2>3 DEF Terms
  <2>. QED  BY <1>1, <1>3, <2>4 DEF LockedInv, SettledAsAgreed
<1>4. CASE ask.kind = "lockup" /\ stage = "signed"
  <2>1. /\ IsOffer(quote) /\ Verifies(ask, quote)
        /\ coin' = quote.envelope.tx.outs[1] /\ quote' = quote.envelope
    BY <1>4 DEF Land, ValueInv
  <2>2. IsLockup(quote.envelope.tx.terms, quote.envelope.tx.outs[1])
    BY <1>1, <1>4, <2>1, SignedLockup
  <2>3. IsLockup(Terms, coin)'
    BY <2>1, <2>2 DEF Terms
  <2>. QED  BY <1>1, <1>4, <2>3 DEF LockedInv, SettledAsAgreed
<1>. QED  BY <1>2, <1>3, <1>4 DEF Land

\* A carrier that a maker passed on is stored as it was quoted.
LEMMA ReadyIsStored ==
    ASSUME ValueInv, LockedInv, stage = "ready", row # None
    PROVE  \E rule \in Rules, operator \in OperatorCoins :
              /\ ask \in CarrierAsks /\ ask \in ReceiveAsks
              /\ ReceiveOffered(ask, rule) /\ ReceiveCovers(operator, ServiceFare(ask, rule))
              /\ row = ReceiveRow(ask, rule, operator) /\ ValidParams(ReceiveParams(ask, rule))
              /\ row.fareUnits <= ask.maxFare
<1>1. /\ ask \in CarrierAsks /\ ask.kind = "fill" /\ ask \in ReceiveAsks /\ StoredCarrier
      /\ \E rule \in Rules : VerifiesReceive(ask, quote, rule)
  BY KindsOfAsks DEF ValueInv, LockedInv
<1>2. PICK rule \in Rules, operator \in OperatorCoins :
         /\ ReceiveOffered(ask, rule) /\ ReceiveCovers(operator, ServiceFare(ask, rule))
         /\ row = ReceiveRow(ask, rule, operator) /\ quote = ReceiveQuote(ask, rule, operator)
  BY <1>1 DEF StoredCarrier
<1>3. /\ quote.p = ReceiveParams(ask, rule) /\ quote.payer = ask.payer
      /\ quote.fareUnits = ServiceFare(ask, rule)
  BY <1>2 DEF ReceiveQuote
<1>4. row.fareUnits = ServiceFare(ask, rule) /\ (ask.payer = "receiver" => row.fareUnits = 0)
  BY <1>1, <1>2, RowOfReceive
<1>5. ValidParams(quote.p) /\ (quote.payer # "receiver" => quote.fareUnits <= ask.maxFare)
  BY <1>1 DEF VerifiesReceive
<1>6. ask.maxFare \in Nat
  BY <1>1 DEF CarrierAsks
<1>. QED  BY <1>1, <1>2, <1>3, <1>4, <1>5, <1>6

\* A fill locks a sound covenant, at the cost that was quoted.
LEMMA FillLocks ==
    ASSUME ValueInv, LockedInv, stage = "ready", row # None, NEW g \in FillGraphs(row), Fill(g)
    PROVE  LockedInv'
<1>1. PICK rule \in Rules, operator \in OperatorCoins :
         /\ ask \in CarrierAsks /\ ask \in ReceiveAsks
         /\ ReceiveOffered(ask, rule) /\ ReceiveCovers(operator, ServiceFare(ask, rule))
         /\ row = ReceiveRow(ask, rule, operator) /\ ValidParams(ReceiveParams(ask, rule))
  BY ReadyIsStored
<1>2. IsGraph(g)
  BY <1>1, FillGraphsAssumption
<1>3. /\ FillAccepted(row, g) /\ stage' = "locked" /\ quote' = g /\ coin' = g.tx.outs[g.index]
      /\ row' = row
  BY DEF Fill
<1>4. /\ IsLockup(g.tx.terms, g.tx.outs[g.index])
      /\ row.operator.sats - SatsOf("operator", g.tx.outs) <= row.p.topup - row.fareUnits
  BY <1>1, <1>2, <1>3, FilledLockup
<1>5. IsLockup(Terms, coin)' /\ (FillCost <= row.p.topup - row.fareUnits)'
  BY <1>3, <1>4 DEF Terms, FillCost
<1>. QED  BY <1>3, <1>5 DEF LockedInv, SettledAsAgreed

\* The wallet begins with nothing stored and nothing locked.
LEMMA LockedStarts == Init => LockedInv
<1> SUFFICES ASSUME Init PROVE LockedInv
  OBVIOUS
<1>1. stage = "planning" \/ (stage = "asking" /\ (ask \in Asks \/ ask \in ReceiveAsks))
  BY DEF Init
<1>2. ask \in Asks => ask.kind # "fill"
  BY AsksAssumption, KindsOfAsks
<1>. QED  BY <1>1, <1>2 DEF LockedInv, SettledAsAgreed

\* Every step keeps what is stored what was built, and what is locked a sound covenant.
LEMMA LockedSteps == ValueInv /\ HonestInv /\ LockedInv /\ [Next]_vars => LockedInv'
<1> SUFFICES ASSUME ValueInv, HonestInv, LockedInv, [Next]_vars PROVE LockedInv'
  OBVIOUS
<1>1. ASSUME NEW rule, Plan(rule) PROVE LockedInv'
  BY <1>1 DEF Plan, LockedInv, SettledAsAgreed
<1>2. CASE AskForQuote
  <2>1. ask.kind # "fill" /\ ask' = ask /\ stage' = "asking"
    BY <1>2, KindsOfAsks DEF AskForQuote, ValueInv
  <2>. QED  BY <2>1 DEF LockedInv, SettledAsAgreed
<1>3. ASSUME NEW rule \in Rules, NEW operator \in OperatorCoins, Quote(rule, operator)
      PROVE  LockedInv'
  <2>1. /\ ask' = ask /\ stage' = "quoted" /\ ask.kind # "fill" /\ Admitted(ask, rule)
        /\ row' = BuildRequest(ask, rule, operator)
    BY <1>3 DEF Quote, Answerable
  <2>2. StoredTransfer'
    BY <2>1 DEF StoredTransfer
  <2>. QED  BY <2>1, <2>2 DEF LockedInv, SettledAsAgreed
<1>4. ASSUME NEW rule, NEW operator, Misquote(rule, operator) PROVE LockedInv'
  <2>1. ask' = ask /\ stage' = "quoted" /\ ask.kind # "fill" /\ row' = row /\ row = None
    BY <1>4 DEF Misquote, HonestInv
  <2>. QED  BY <2>1 DEF LockedInv, SettledAsAgreed
<1>5. CASE Verify
  <2>1. /\ ask' = ask /\ row' = row /\ ask.kind # "fill" /\ stage = "quoted"
        /\ stage' \in {"signed", "refused"}
    BY <1>5 DEF Verify
  <2>2. StoredTransfer => StoredTransfer'
    BY <2>1 DEF StoredTransfer
  <2>. QED  BY <2>1, <2>2 DEF LockedInv, SettledAsAgreed
<1>6. ASSUME NEW e, Post(e) PROVE LockedInv'
  <2>1. /\ stage = "signed" /\ row # None /\ Parses(row, e) /\ stage' = "posted" /\ quote' = e
        /\ ask' = ask /\ row' = row
    BY <1>6 DEF Post
  <2>2. ask \in TransferAsks /\ ask.kind # "fill"
    BY <2>1, KindsOfAsks DEF ValueInv
  <2>3. StoredTransfer'
    BY <2>1, <2>2 DEF LockedInv, StoredTransfer
  <2>4. Plannable(row) /\ e = Envelope(row)
    BY <2>1 DEF Parses
  <2>5. (row # None /\ ask \in TransferAsks /\ Plannable(row) /\ quote = Envelope(row))'
    BY <2>1, <2>2, <2>4
  <2>. QED  BY <2>1, <2>2, <2>3, <2>5 DEF LockedInv, SettledAsAgreed
<1>7. ASSUME NEW operator \in OperatorCoins, QuoteReceive(operator) PROVE LockedInv'
  <2>1. /\ ask' = ask /\ stage' = "quoted" /\ stage = "asking" /\ ask.kind = "fill"
        /\ ReceiveOffered(ask, policy.now) /\ ReceiveCovers(operator, ServiceFare(ask, policy.now))
        /\ quote' = ReceiveQuote(ask, policy.now, operator)
        /\ row' = ReceiveRow(ask, policy.now, operator)
    BY <1>7 DEF QuoteReceive, ReceiveQuote
  <2>2. policy.now \in Rules /\ ask \in ReceiveAsks
    BY <2>1 DEF ValueInv, IsReading, LockedInv
  <2>3. StoredCarrier'
    BY <2>1, <2>2 DEF StoredCarrier
  <2>. QED  BY <2>1, <2>2, <2>3 DEF LockedInv, SettledAsAgreed
<1>8. ASSUME NEW operator, MisquoteReceive(operator) PROVE LockedInv'
  <2>1. /\ ask' = ask /\ stage' = "quoted" /\ stage = "asking" /\ ask.kind = "fill"
        /\ row' = row /\ row = None
    BY <1>8 DEF MisquoteReceive, HonestInv
  <2>. QED  BY <2>1 DEF LockedInv, SettledAsAgreed
<1>9. ASSUME NEW rule, SetPolicy(rule) PROVE LockedInv'
  <2>1. /\ UNCHANGED <<stage, ask, row, quote>> /\ ask.kind = "fill" /\ stage \in {"asking", "quoted"}
    BY <1>9 DEF SetPolicy
  <2>2. StoredCarrier => StoredCarrier'
    BY <2>1 DEF StoredCarrier
  <2>. QED  BY <2>1, <2>2 DEF LockedInv, SettledAsAgreed
<1>10. CASE VerifyReceive
  <2>1. /\ ask' = ask /\ row' = row /\ quote' = quote /\ ask.kind = "fill" /\ stage = "quoted"
        /\ stage' \in {"ready", "refused"}
    BY <1>10 DEF VerifyReceive
  <2>2. StoredCarrier => StoredCarrier'
    BY <2>1 DEF StoredCarrier
  <2>. QED  BY <2>1, <2>2 DEF LockedInv, SettledAsAgreed
<1>11. CASE \/ Purchase \/ Reclaim
            \/ \E fund \in Funds : Recycle(fund) \/ Refund(fund)
            \/ \E fund \in Funds, leaf \in {"purchase", "recycle", "refund", "reclaim"} :
                  OtherSpend(leaf, fund)
  <2>1. stage = "locked"
    BY <1>11 DEF Purchase, Reclaim, Recycle, Refund, OtherSpend
  <2>2. IsLockup(Terms, coin)
    BY <2>1 DEF LockedInv
  <2>. QED  BY <1>11, <2>2, SpendSteps
<1>12. CASE Land
  BY <1>12, LandLocks
<1>13. CASE stage = "ready" /\ row # None /\ \E g \in FillGraphs(row) : Fill(g)
  BY <1>13, FillLocks
<1>14. CASE UNCHANGED vars
  <2>1. UNCHANGED <<stage, ask, row, quote, coin, spend, verdict>>
    BY <1>14 DEF vars
  <2>2. /\ StoredTransfer => StoredTransfer'
        /\ StoredCarrier => StoredCarrier'
        /\ IsLockup(Terms, coin) => IsLockup(Terms, coin)'
        /\ SettledAsAgreed => SettledAsAgreed'
    BY <2>1 DEF StoredTransfer, StoredCarrier, Terms, SettledAsAgreed, Settles
  <2>3. FillCost' = FillCost
    BY <2>1 DEF FillCost
  <2>. QED  BY <2>1, <2>2, <2>3 DEF LockedInv
<1>. QED
  BY <1>1, <1>2, <1>3, <1>4, <1>5, <1>6, <1>7, <1>8, <1>9, <1>10, <1>11, <1>12, <1>13, <1>14 DEF Next

\* What the service co-signs costs it the loan less the fare, a locked covenant stays open
\* to its receiver and its sender, and a carrier a maker accepted can be filled.
LEMMA CosignedByInv == ValueInv /\ LockedInv => CosignedAsAgreed
<1> SUFFICES ASSUME ValueInv, LockedInv PROVE CosignedAsAgreed
  OBVIOUS
<1>1. ClaimStaysOpen
  <2>1. CASE stage = "locked"
    BY <2>1, LockupIsOpen DEF LockedInv
  <2>2. CASE stage # "locked"
    BY <2>2 DEF ClaimStaysOpen
  <2>. QED  BY <2>1, <2>2
<1>2. TaxiPaysOnlyTheLoan
  <2>1. ASSUME stage = "posted"
        PROVE  /\ SatsOut(quote.tx, "operator")
                    = Dust - (IF row.payer = "sender" THEN row.fare.units ELSE 0)
               /\ HeldOut(quote.tx, "operator") = Without(Nothing, FareHeld(row.fare))
    <3>1. /\ row # None /\ ask \in TransferAsks /\ ask.kind # "fill" /\ StoredTransfer
          /\ Plannable(row) /\ quote = Envelope(row)
      BY <2>1, KindsOfAsks DEF LockedInv
    <3>2. /\ row \in RequestSet /\ row.p.topup = Dust
          /\ row.operator.key = "operator" /\ row.operator.held = Nothing
      BY <3>1, StoredIsRequest
    <3>. QED  BY <3>1, <3>2, PostedCosts
  <2>2. stage = "locked" /\ ask.kind = "fill" =>
           row.operator.sats - SatsOf("operator", quote.tx.outs) <= row.p.topup - row.fareUnits
    BY DEF LockedInv, FillCost
  <2>. QED  BY <2>1, <2>2 DEF TaxiPaysOnlyTheLoan
<1>3. QuoteCanBeFilled
  <2> SUFFICES ASSUME stage = "ready", row # None
               PROVE  \E g \in FillGraphs(row) : FillAccepted(row, g)
    BY DEF QuoteCanBeFilled
  <2>1. PICK rule \in Rules, operator \in OperatorCoins :
           /\ ask \in CarrierAsks /\ ask \in ReceiveAsks
           /\ ReceiveOffered(ask, rule) /\ ReceiveCovers(operator, ServiceFare(ask, rule))
           /\ row = ReceiveRow(ask, rule, operator) /\ row.fareUnits <= ask.maxFare
    BY ReadyIsStored
  <2>2. PICK g \in FillGraphs(row) : IsGraph(g) /\ SolverDelivers(row, g)
    BY <2>1, FillGraphsAssumption
  <2>3. FillAccepted(row, g)
    BY <2>1, <2>2, SolverIsAccepted
  <2>. QED  BY <2>3
<1>. QED  BY <1>1, <1>2, <1>3 DEF CosignedAsAgreed

\* Whatever a sender returns and whatever a caller posts for a fill, what the service helps
\* to lock is fair to all sides.
THEOREM CosignedAlwaysAsAgreed == Spec => []CosignedAsAgreed
<1>. QED
  BY CosignedByInv, ValueStarts, ValueSteps, HonestStarts, HonestSteps, LockedStarts, LockedSteps, PTL
     DEF Spec

\* Whoever spends a covenant, the verdict of the watcher moved the value it stands for, and
\* what the client and the runner build is admitted and told as what it is.
THEOREM SpendsSettleAsAgreed == Spec => []SettledAsAgreed
<1>1. LockedInv => SettledAsAgreed
  BY DEF LockedInv
<1>. QED
  BY <1>1, ValueStarts, ValueSteps, HonestStarts, HonestSteps, LockedStarts, LockedSteps, PTL DEF Spec
=============================================================================
