---------------------------- MODULE AdmissionProofs ----------------------------
(***************************************************************************)
(* The controls in front of a chat: the fixed windows and the masking of   *)
(* the prompt, for every limit, window, prompt and set of matches.         *)
(*                                                                         *)
(* Loops and sorts.  The pure functions are loops over sorted lists.  What *)
(* a loop has computed after each element is stated once (FoldRuns,        *)
(* FoldBackRuns): its step is a function, so that the facts can be used    *)
(* for every step.  They rest on the library's proof that < is well        *)
(* founded on the naturals, from which an induction over the elements      *)
(* follows as a fact about sets of numbers (CountUp, CountDown).  What a   *)
(* sort returns is SortedList.                                             *)
(*                                                                         *)
(* The windows.  Twice the limit is what two neighbouring windows can let  *)
(* through.  The invariant (KeyInv) therefore tells the history of a key   *)
(* apart at the beginning of its present window: what passed since is part *)
(* of the count, and what passed before it, within one window length, is   *)
(* what an earlier window let through.                                     *)
(*                                                                         *)
(* The prompt.  The greedy selection keeps spans that do not overlap, and  *)
(* drops none but for one it overlaps that takes precedence (Greedy); they *)
(* are then apart in the order of their positions, so that no two ranges   *)
(* are merged (NothingMerged).  Replacing from the last range to the first *)
(* leaves the text before a range as it was, and the lengths of the        *)
(* replacements before it add up to the offset that is reported (Shifts):  *)
(* at that offset stands the placeholder, and everything outside the       *)
(* ranges is still there, in order.                                        *)
(***************************************************************************)
EXTENDS Admission, FiniteSetTheorems, SequenceTheorems, WellFoundedInduction, TLAPS

-------------------------------------------------------------------------------
(* Loops and sorts                                                             *)

\* A set of natural numbers that holds 0 and every successor holds them all.
LEMMA LeastNatural ==
    ASSUME NEW T, T \subseteq Nat, T # {}
    PROVE  \E m \in T : \A n \in T : m <= n
<1> DEFINE R == OpToRel(<, Nat)
<1>1. IsWellFoundedOn(R, Nat)
  BY NatLessThanWellFounded
<1> HIDE DEF R
<1>2. PICK m \in T : \A n \in T : <<n, m>> \notin R
  BY <1>1, WFMin
<1>3. \A n \in T : ~(n < m)
  BY <1>2 DEF R, OpToRel
<1> QED
  BY <1>3

\* Induction over the numbers up to N, on the set of those that are good.
LEMMA CountUp ==
    ASSUME NEW N \in Nat, NEW Good, 0 \in Good,
           \A n \in 1..N : n - 1 \in Good => n \in Good
    PROVE  \A n \in 0..N : n \in Good
<1> DEFINE Bad == {n \in 0..N : n \notin Good}
<1> SUFFICES ASSUME Bad # {} PROVE FALSE
  OBVIOUS
<1>1. Bad \subseteq Nat
  OBVIOUS
<1>2. PICK m \in Bad : \A n \in Bad : m <= n
  <2> HIDE DEF Bad
  <2> QED  BY <1>1, LeastNatural
<1>3. m \in 1..N /\ m - 1 \in 0..N
  OBVIOUS
<1>4. m - 1 \in Good
  BY <1>2, <1>3
<1> QED  BY <1>3, <1>4

\* The same downwards.
LEMMA CountDown ==
    ASSUME NEW N \in Nat, NEW Good, N \in Good,
           \A n \in 1..N : n \in Good => n - 1 \in Good
    PROVE  \A n \in 0..N : n \in Good
<1> DEFINE G2 == {N - n : n \in {k \in 0..N : k \in Good}}
<1>1. \A n \in 0..N : n \in G2 <=> N - n \in Good
  <2> SUFFICES ASSUME NEW n \in 0..N PROVE n \in G2 <=> N - n \in Good
    OBVIOUS
  <2>1. N - n \in 0..N /\ N - (N - n) = n
    OBVIOUS
  <2>2. ASSUME n \in G2 PROVE N - n \in Good
    <3>1. PICK k \in 0..N : k \in Good /\ n = N - k
      BY <2>2
    <3> QED  BY <3>1
  <2> QED  BY <2>1, <2>2
<1>2. 0 \in G2
  BY <1>1
<1>3. \A n \in 1..N : n - 1 \in G2 => n \in G2
  <2> SUFFICES ASSUME NEW n \in 1..N, n - 1 \in G2 PROVE n \in G2
    OBVIOUS
  <2>1. n - 1 \in 0..N /\ n \in 0..N /\ N - (n - 1) \in 1..N /\ (N - (n - 1)) - 1 = N - n
    OBVIOUS
  <2> HIDE DEF G2
  <2> QED  BY <2>1, <1>1
<1>4. \A n \in 0..N : n \in G2
  <2> HIDE DEF G2
  <2> QED  BY <1>2, <1>3, CountUp
<1> SUFFICES ASSUME NEW n \in 0..N PROVE n \in Good
  OBVIOUS
<1>5. N - n \in 0..N /\ N - (N - n) = n
  OBVIOUS
<1> HIDE DEF G2
<1> QED  BY <1>1, <1>4, <1>5

\* A nonempty set of positions has a first and a last one.
LEMMA MinMax ==
    ASSUME NEW N \in Nat, NEW s \in SUBSET (1..N), s # {}
    PROVE  /\ Max(s) \in s /\ \A n \in s : n <= Max(s)
           /\ Min(s) \in s /\ \A n \in s : Min(s) <= n
<1>0. s \subseteq Nat /\ \A n \in s : n \in 1..N
  OBVIOUS
<1>1. \E m \in s : \A n \in s : m <= n
  BY <1>0, LeastNatural
<1>2. \E m \in s : \A n \in s : m >= n
  <2> DEFINE T == {N - n : n \in s}
  <2>1. T \subseteq Nat /\ T # {}
    <3>1. \A n \in s : N - n \in Nat
      BY <1>0
    <3> QED  BY <3>1
  <2>2. PICK k \in T : \A n \in T : k <= n
    <3> HIDE DEF T
    <3> QED  BY <2>1, LeastNatural
  <2>3. PICK m \in s : k = N - m
    OBVIOUS
  <2>4. \A n \in s : N - m <= N - n
    BY <2>2, <2>3
  <2> QED  BY <2>4, <1>0
<1> QED  BY <1>1, <1>2 DEF Min, Max

-----------------------------------------------------------------------------
\* One unfolding of a fold over the positions s, where pick chooses the
\* position treated last.
FoldStep(step, base, seq, pick, s, g) ==
    IF s = {} THEN base ELSE step[g[s \ {pick[s]}]][seq[pick[s]]]

IsFold(g, S, step, base, seq, pick) ==
    g = [s \in SUBSET S |-> FoldStep(step, base, seq, pick, s, g)]

\* A function that follows this recursion exists, whatever pick chooses.
LEMMA FoldExists ==
    ASSUME NEW S, IsFiniteSet(S), NEW step, NEW base, NEW seq, NEW pick,
           \A s \in SUBSET S : s # {} => pick[s] \in s
    PROVE  \E g : IsFold(g, S, step, base, seq, pick)
<1> DEFINE Small(n) == {s \in SUBSET S : Cardinality(s) <= n}
           Step(s, g) == FoldStep(step, base, seq, pick, s, g)
           Solves(g, n) == g = [s \in Small(n) |-> Step(s, g)]
           Good == {n \in Nat : \E g : Solves(g, n)}
<1>1. \A s \in SUBSET S : /\ IsFiniteSet(s) /\ Cardinality(s) \in Nat
                          /\ Cardinality(s) <= Cardinality(S)
                          /\ Cardinality(s) = 0 <=> s = {}
                          /\ \A x \in s : Cardinality(s \ {x}) = Cardinality(s) - 1
  BY FS_Subset, FS_CardinalityType, FS_EmptySet, FS_RemoveElement
<1>2. 0 \in Good
  <2> DEFINE g == [s \in Small(0) |-> base]
  <2>1. \A s \in Small(0) : s = {}
    BY <1>1
  <2>2. g = [s \in Small(0) |-> Step(s, g)]
    BY <2>1 DEF FoldStep
  <2> QED
    BY <2>2
<1>3. ASSUME NEW n \in Nat, n \in Good PROVE n + 1 \in Good
  <2>1. PICK h : Solves(h, n)
    BY <1>3
  <2> DEFINE g == [s \in Small(n + 1) |-> Step(s, h)]
  <2>2. ASSUME NEW s \in Small(n + 1), s # {}
        PROVE  s \ {pick[s]} \in Small(n) /\ s \ {pick[s]} \in Small(n + 1)
    <3>1. pick[s] \in s
      BY <2>2
    <3> QED
      BY <1>1, <2>2, <3>1
  <2>3. ASSUME NEW t \in Small(n), t \in Small(n + 1) PROVE g[t] = h[t]
    <3>1. h[t] = Step(t, h)
      BY <2>1
    <3> QED
      BY <2>3, <3>1
  <2>4. ASSUME NEW s \in Small(n + 1) PROVE Step(s, h) = Step(s, g)
    <3>1. CASE s = {}
      BY <3>1 DEF FoldStep
    <3>2. CASE s # {}
      <4>1. g[s \ {pick[s]}] = h[s \ {pick[s]}]
        BY <2>2, <2>3, <3>2
      <4> HIDE DEF g
      <4> QED
        BY <3>2, <4>1 DEF FoldStep
    <3> QED
      BY <3>1, <3>2
  <2>5. g = [s \in Small(n + 1) |-> Step(s, g)]
    <3> HIDE DEF Small
    <3> QED  BY <2>4
  <2>6. Solves(g, n + 1)
    BY <2>5
  <2> HIDE DEF Solves, g
  <2> QED
    BY <2>6
<1>4. Cardinality(S) \in Nat
  BY FS_CardinalityType
<1>5. Cardinality(S) \in Good
  <2> HIDE DEF Good
  <2>1. \A n \in 1..Cardinality(S) : n - 1 \in Good => n \in Good
    <3> SUFFICES ASSUME NEW n \in 1..Cardinality(S), n - 1 \in Good PROVE n \in Good
      OBVIOUS
    <3>1. n - 1 \in Nat /\ (n - 1) + 1 = n
      BY <1>4
    <3> QED  BY <3>1, <1>3
  <2> QED  BY <1>2, <1>4, <2>1, CountUp
<1>6. Small(Cardinality(S)) = SUBSET S
  BY <1>1
<1>7. PICK g : Solves(g, Cardinality(S))
  BY <1>5
<1> QED
  BY <1>6, <1>7 DEF IsFold

\* What a fold has computed after each element.
LEMMA FoldRuns ==
    ASSUME NEW T, NEW seq \in Seq(T), NEW step, NEW base
    PROVE  \E f : /\ f[0] = base
                  /\ \A n \in 1..Len(seq) : f[n] = step[f[n - 1]][seq[n]]
                  /\ Fold(step, base, seq) = f[Len(seq)]
<1> DEFINE N == Len(seq)
           S == DOMAIN seq
           Follows(g) == g = [s \in SUBSET S |->
                                 IF s = {} THEN base
                                 ELSE step[g[s \ {Max(s)}]][seq[Max(s)]]]
<1>1. N \in Nat /\ S = 1..N /\ IsFiniteSet(S)
  BY FS_Interval
<1>2. Fold(step, base, seq) = (CHOOSE g : Follows(g))[S]
  BY DEF Fold, FoldLeft, MapThenFoldSet
<1>3. \E g : Follows(g)
  <2> DEFINE pick == [s \in SUBSET S |-> Max(s)]
  <2>1. \A s \in SUBSET S : pick[s] = Max(s)
    OBVIOUS
  <2>2. \A s \in SUBSET S : s # {} => pick[s] \in s
    <3> HIDE DEF pick
    <3> QED  BY <1>1, <2>1, MinMax
  <2> HIDE DEF pick
  <2>3. PICK g : IsFold(g, S, step, base, seq, pick)
    <3> HIDE DEF S, Follows
    <3> QED  BY <1>1, <2>2, FoldExists
  <2>4. g = [s \in SUBSET S |-> FoldStep(step, base, seq, pick, s, g)]
    BY <2>3 DEF IsFold
  <2> QED  BY <2>1, <2>4 DEF FoldStep
<1>4. PICK g : Follows(g) /\ Fold(step, base, seq) = g[S]
  <2> HIDE DEF Follows
  <2> QED  BY <1>2, <1>3
<1> DEFINE f == [n \in 0..N |-> g[1..n]]
<1>5. f[0] = base
  <2>1. 1..0 = {} /\ 0 \in 0..N
    BY <1>1
  <2> QED  BY <2>1, <1>4
<1>6. ASSUME NEW n \in 1..N PROVE f[n] = step[f[n - 1]][seq[n]]
  <2>0. n - 1 \in 0..N /\ n \in 0..N /\ n \in 1..n
    BY <1>1
  <2>1. 1..n \in SUBSET S /\ 1..n # {} /\ (1..n) \ {n} = 1..(n - 1)
    <3>1. 1..n \subseteq 1..N
      BY <1>1
    <3>2. (1..n) \ {n} = 1..(n - 1)
      BY <1>1
    <3> QED  BY <1>1, <2>0, <3>1, <3>2
  <2>2. Max(1..n) = n
    <3>1. Max(1..n) \in 1..n /\ \A k \in 1..n : k <= Max(1..n)
      BY <2>1, <1>1, MinMax
    <3> QED  BY <3>1, <1>1, <2>0
  <2>3. g[1..n] = step[g[(1..n) \ {n}]][seq[n]]
    BY <1>4, <2>1, <2>2
  <2> QED  BY <2>0, <2>1, <2>3
<1>7. Fold(step, base, seq) = f[N]
  <2>1. N \in 0..N
    BY <1>1
  <2> QED  BY <2>1, <1>1, <1>4
<1> HIDE DEF f
<1> QED  BY <1>5, <1>6, <1>7

\* The same for a fold from the last element to the first.
LEMMA FoldBackRuns ==
    ASSUME NEW T, NEW seq \in Seq(T), NEW step, NEW base
    PROVE  \E f : /\ f[Len(seq)] = base
                  /\ \A n \in 1..Len(seq) : f[n - 1] = step[f[n]][seq[n]]
                  /\ FoldBack(step, base, seq) = f[0]
<1> DEFINE N == Len(seq)
           S == DOMAIN seq
           Follows(g) == g = [s \in SUBSET S |->
                                 IF s = {} THEN base
                                 ELSE step[g[s \ {Min(s)}]][seq[Min(s)]]]
<1>1. N \in Nat /\ S = 1..N /\ IsFiniteSet(S)
  BY FS_Interval
<1>2. FoldBack(step, base, seq) = (CHOOSE g : Follows(g))[S]
  BY DEF FoldBack, FoldRight, MapThenFoldSet
<1>3. \E g : Follows(g)
  <2> DEFINE pick == [s \in SUBSET S |-> Min(s)]
  <2>1. \A s \in SUBSET S : pick[s] = Min(s)
    OBVIOUS
  <2>2. \A s \in SUBSET S : s # {} => pick[s] \in s
    <3> HIDE DEF pick
    <3> QED  BY <1>1, <2>1, MinMax
  <2> HIDE DEF pick
  <2>3. PICK g : IsFold(g, S, step, base, seq, pick)
    <3> HIDE DEF S, Follows
    <3> QED  BY <1>1, <2>2, FoldExists
  <2>4. g = [s \in SUBSET S |-> FoldStep(step, base, seq, pick, s, g)]
    BY <2>3 DEF IsFold
  <2> QED  BY <2>1, <2>4 DEF FoldStep
<1>4. PICK g : Follows(g) /\ FoldBack(step, base, seq) = g[S]
  <2> HIDE DEF Follows
  <2> QED  BY <1>2, <1>3
<1> DEFINE f == [n \in 0..N |-> g[(n + 1)..N]]
<1>5. f[N] = base
  <2>1. (N + 1)..N = {} /\ N \in 0..N
    BY <1>1
  <2> QED  BY <2>1, <1>4
<1>6. ASSUME NEW n \in 1..N PROVE f[n - 1] = step[f[n]][seq[n]]
  <2>0. n - 1 \in 0..N /\ n \in 0..N /\ n \in n..N /\ (n - 1) + 1 = n
    BY <1>1
  <2>1. n..N \in SUBSET S /\ n..N # {} /\ (n..N) \ {n} = (n + 1)..N
    BY <1>1, <2>0
  <2>2. Min(n..N) = n
    <3>1. Min(n..N) \in n..N /\ \A k \in n..N : Min(n..N) <= k
      BY <2>1, <1>1, MinMax
    <3> QED  BY <3>1, <1>1, <2>0
  <2>3. g[n..N] = step[g[(n..N) \ {n}]][seq[n]]
    BY <1>4, <2>1, <2>2
  <2> QED  BY <2>0, <2>1, <2>3
<1>7. FoldBack(step, base, seq) = f[0]
  <2>1. 0 \in 0..N /\ (0 + 1)..N = S
    BY <1>1
  <2> QED  BY <2>1, <1>4
<1> HIDE DEF f
<1> QED  BY <1>5, <1>6, <1>7

-----------------------------------------------------------------------------
\* A strict order on S, total on it.
Orders(before, S) ==
    /\ \A i \in S : <<i, i>> \notin before
    /\ \A i, j, k \in S : <<i, j>> \in before /\ <<j, k>> \in before => <<i, k>> \in before
    /\ \A i, j \in S : i # j => <<i, j>> \in before \/ <<j, i>> \in before

\* In a finite set with a strict order the places are the numbers up to its
\* cardinality: each is taken, and an earlier item has a smaller one.
LEMMA PlacesOf ==
    ASSUME NEW S, IsFiniteSet(S), NEW R,
           \A i \in S : <<i, i>> \notin R,
           \A i, j, k \in S : <<i, j>> \in R /\ <<j, k>> \in R => <<i, k>> \in R,
           \A i, j \in S : i # j => <<i, j>> \in R \/ <<j, i>> \in R
    PROVE  LET place == [i \in S |-> Cardinality({j \in S : <<j, i>> \in R}) + 1]
           IN  /\ Cardinality(S) \in Nat
               /\ \A i \in S : place[i] \in 1..Cardinality(S)
               /\ \A i, j \in S : <<i, j>> \in R <=> place[i] < place[j]
               /\ \A n \in 1..Cardinality(S) : \E i \in S : place[i] = n
<1> DEFINE place == [i \in S |-> Cardinality({j \in S : <<j, i>> \in R}) + 1]
<1> DEFINE Earlier(i) == {j \in S : <<j, i>> \in R}
           Places == 1..Cardinality(S)
<1>1. Cardinality(S) \in Nat
  BY FS_CardinalityType
<1>2. ASSUME NEW i \in S
      PROVE  /\ IsFiniteSet(Earlier(i)) /\ Cardinality(Earlier(i)) \in Nat
             /\ Cardinality(Earlier(i)) < Cardinality(S)
  <2>1. Earlier(i) \subseteq S /\ Earlier(i) # S
    OBVIOUS
  <2> HIDE DEF Earlier
  <2> QED  BY <2>1, FS_Subset, FS_CardinalityType
<1>3. \A i \in S : place[i] = Cardinality(Earlier(i)) + 1
  OBVIOUS
<1>0. place = [i \in S |-> place[i]]
  OBVIOUS
<1> HIDE DEF place
<1>4. ASSUME NEW i \in S, NEW j \in S, <<i, j>> \in R PROVE place[i] < place[j]
  <2>1. Earlier(i) \subseteq Earlier(j) /\ Earlier(i) # Earlier(j)
    BY <1>4
  <2>2. IsFiniteSet(Earlier(i)) /\ IsFiniteSet(Earlier(j))
    BY <1>2
  <2> HIDE DEF Earlier
  <2>3. Cardinality(Earlier(i)) < Cardinality(Earlier(j))
    BY <2>1, <2>2, FS_Subset, FS_CardinalityType
  <2> QED  BY <2>3, <1>2, <1>3
<1> HIDE DEF Earlier
<1>5. \A i \in S : place[i] \in Places
  BY <1>1, <1>2, <1>3
<1>6. \A i, j \in S : place[i] < place[j] => <<i, j>> \in R
  <2> SUFFICES ASSUME NEW i \in S, NEW j \in S, place[i] < place[j] PROVE <<i, j>> \in R
    OBVIOUS
  <2>1. place[i] \in Nat /\ place[j] \in Nat
    BY <1>1, <1>5
  <2>2. ~(place[j] < place[i])
    BY <2>1
  <2>3. place[i] # place[j]
    BY <2>1
  <2> QED  BY <2>2, <2>3, <1>4
<1>7. place \in Injection(S, Places)
  <2>1. \A i, j \in S : place[i] = place[j] => i = j
    <3> SUFFICES ASSUME NEW i \in S, NEW j \in S, i # j PROVE place[i] # place[j]
      OBVIOUS
    <3>1. place[i] < place[j] \/ place[j] < place[i]
      BY <1>4
    <3>2. place[i] \in Nat /\ place[j] \in Nat
      BY <1>1, <1>5
    <3> QED  BY <3>1, <3>2
  <2>2. place \in [S -> Places]
    BY <1>0, <1>5
  <2> HIDE DEF Places
  <2> QED  BY <2>1, <2>2 DEF Injection, IsInjective
<1>8. IsFiniteSet(Places) /\ Cardinality(Places) = Cardinality(S)
  BY <1>1, FS_Interval
<1>9. place \in Surjection(S, Places)
  <2> HIDE DEF Places
  <2> QED  BY <1>7, <1>8, FS_Injection
<1>10. \A n \in Places : \E i \in S : place[i] = n
  <2> HIDE DEF Places
  <2> QED  BY <1>9 DEF Surjection
<1> QED  BY <1>1, <1>4, <1>5, <1>6, <1>10 DEF place

\* A sort lists the elements of a finite set, each once and in order.
LEMMA SortedList ==
    ASSUME NEW S, IsFiniteSet(S), NEW R, Orders(R, S)
    PROVE  LET s == Sorted(S, R)
           IN  /\ s \in Seq(S) /\ Len(s) = Cardinality(S) /\ Len(s) \in Nat
               /\ \A m, n \in 1..Len(s) : m < n <=> <<s[m], s[n]>> \in R
               /\ \A m, n \in 1..Len(s) : s[m] = s[n] => m = n
               /\ \A i \in S : \E n \in 1..Len(s) : s[n] = i
<1> DEFINE s == Sorted(S, R)
           N == Cardinality(S)
           place == [i \in S |-> Cardinality({j \in S : <<j, i>> \in R}) + 1]
<1>1. /\ N \in Nat
      /\ \A i \in S : place[i] \in 1..N
      /\ \A i, j \in S : <<i, j>> \in R <=> place[i] < place[j]
      /\ \A n \in 1..N : \E i \in S : place[i] = n
  BY PlacesOf DEF Orders
<1>2. ASSUME NEW n \in 1..N PROVE s[n] \in S /\ place[s[n]] = n
  <2>1. s[n] = CHOOSE i \in S : Cardinality({j \in S : <<j, i>> \in R}) = n - 1
    BY DEF Sorted
  <2>2. PICK i \in S : place[i] = n
    BY <1>1
  <2>3. \A k \in S : IsFiniteSet({j \in S : <<j, k>> \in R})
                     /\ Cardinality({j \in S : <<j, k>> \in R}) \in Nat
    <3> SUFFICES ASSUME NEW k \in S PROVE IsFiniteSet({j \in S : <<j, k>> \in R})
                     /\ Cardinality({j \in S : <<j, k>> \in R}) \in Nat
      OBVIOUS
    <3>1. IsFiniteSet({j \in S : <<j, k>> \in R})
      BY FS_Subset
    <3> QED  BY <3>1, FS_CardinalityType
  <2>4. Cardinality({j \in S : <<j, i>> \in R}) = n - 1
    <3>1. Cardinality({j \in S : <<j, i>> \in R}) + 1 = n
      BY <2>2
    <3> QED  BY <2>3, <3>1
  <2>5. s[n] \in S /\ Cardinality({j \in S : <<j, s[n]>> \in R}) = n - 1
    BY <2>1, <2>4
  <2>6. place[s[n]] = (n - 1) + 1
    BY <2>5
  <2> QED  BY <2>5, <2>6
<1>3. s = [n \in 1..N |-> CHOOSE i \in S : Cardinality({j \in S : <<j, i>> \in R}) = n - 1]
  BY DEF Sorted
<1> HIDE DEF s, place, N
<1>4. s \in Seq(S) /\ Len(s) = N
  <2>1. s \in [1..N -> S]
    BY <1>2, <1>3
  <2> QED  BY <1>1, <2>1
<1>5. \A m, n \in 1..N : m < n <=> <<s[m], s[n]>> \in R
  BY <1>1, <1>2
<1>6. \A m, n \in 1..N : s[m] = s[n] => m = n
  BY <1>2
<1>7. ASSUME NEW i \in S PROVE \E n \in 1..N : s[n] = i
  <2>1. place[i] \in 1..N
    BY <1>1
  <2>2. s[place[i]] \in S /\ place[s[place[i]]] = place[i]
    BY <1>2, <2>1
  <2>3. ~(place[i] < place[i])
    BY <2>1, <1>1
  <2>4. s[place[i]] = i
    BY <1>1, <2>2, <2>3 DEF Orders
  <2> QED  BY <2>1, <2>4
<1> QED  BY <1>1, <1>4, <1>5, <1>6, <1>7 DEF s, N

-------------------------------------------------------------------------------
(* The fixed-window counters                                                   *)

Counters == [count : Nat, ttl : Ages]

\* What one key's counter c says about what passed the key, p, with limit l.
\* While the key exists its window began Window - ttl ticks ago: what passed
\* since is part of the count, and what passed before it in the last Window
\* ticks passed in one earlier window.
KeyInv(c, p, l) ==
    /\ \A m, n \in Ages : m <= n => p[m] <= p[n]
    /\ c.count = 0 => p[0] = 0 /\ p[Window] <= l
    /\ c.count > 0 => LET since == p[Window - c.ttl]
                      IN  since <= c.count /\ since <= l /\ p[Window] - since <= l

RateInv ==
    /\ counter \in [Keys -> Counters]
    /\ passed \in [Keys -> [Ages -> Nat]]
    /\ \A k \in Keys : KeyInv(counter[k], passed[k], Limit(k))

\* Every key has a positive limit: RateAssumption.
LEMMA LimitPositive == ASSUME NEW k \in Keys PROVE Limit(k) \in Nat \ {0}
BY RateAssumption DEF Limit

\* Counting a request keeps the counter's type and never lowers the count; the
\* count grows by one when it stays within the limit.
LEMMA IncrementStep ==
    ASSUME NEW k \in Keys, NEW c \in Counters
    PROVE  LET d == Increment(k, c)
           IN  /\ d \in Counters /\ d.count >= c.count /\ d.count > 0
               /\ d.ttl = IF c.count = 0 THEN Window ELSE c.ttl
               /\ d.count <= Limit(k) => d.count = c.count + 1
BY LimitPositive, RateAssumption DEF Increment, NextCount, CountCap, Counters, Ages

\* A request that is counted and not let through keeps what holds of its key.
LEMMA CountedOnly ==
    ASSUME NEW k \in Keys, NEW c \in Counters, NEW p \in [Ages -> Nat],
           KeyInv(c, p, Limit(k))
    PROVE  KeyInv(Increment(k, c), p, Limit(k))
<1> DEFINE d == Increment(k, c)
<1>1. d.count > 0 /\ d.count >= c.count /\ d \in Counters BY IncrementStep
<1>2. d.ttl = IF c.count = 0 THEN Window ELSE c.ttl BY IncrementStep
<1>3. 0 \in Ages /\ Window \in Ages /\ Window - c.ttl \in Ages /\ Window - Window = 0
  BY RateAssumption DEF Ages, Counters
<1>4. p[0] \in Nat /\ p[Window] \in Nat /\ p[Window - c.ttl] \in Nat BY <1>3
<1>5. Limit(k) \in Nat /\ Limit(k) > 0 BY LimitPositive
<1>6. CASE c.count = 0
  <2>1. Window - d.ttl = 0 BY <1>2, <1>3, <1>6
  <2> QED BY <2>1, <1>1, <1>4, <1>5, <1>6 DEF KeyInv, Counters
<1>7. CASE c.count # 0
  <2>1. d.ttl = c.ttl /\ c.count > 0 BY <1>2, <1>7 DEF Counters
  <2> QED BY <2>1, <1>1, <1>4, <1>5 DEF KeyInv, Counters
<1> QED BY <1>6, <1>7

\* So does a request that is counted and let through, its count being within
\* the limit.
LEMMA CountedAndPassed ==
    ASSUME NEW k \in Keys, NEW c \in Counters, NEW p \in [Ages -> Nat],
           KeyInv(c, p, Limit(k)), Increment(k, c).count <= Limit(k)
    PROVE  KeyInv(Increment(k, c), Pass(p), Limit(k))
<1> DEFINE d == Increment(k, c)
           q == Pass(p)
<1>1. d.count = c.count + 1 /\ d \in Counters /\ d.count <= Limit(k) BY IncrementStep
<1>2. d.ttl = IF c.count = 0 THEN Window ELSE c.ttl BY IncrementStep
<1>3. 0 \in Ages /\ Window \in Ages /\ Window - c.ttl \in Ages /\ Window - Window = 0
  BY RateAssumption DEF Ages, Counters
<1>4. \A n \in Ages : q[n] = p[n] + 1 /\ p[n] \in Nat BY DEF Pass
<1>5. Limit(k) \in Nat BY LimitPositive
<1>6. \A m, n \in Ages : m <= n => q[m] <= q[n] BY <1>4 DEF KeyInv
<1> HIDE DEF d, q
<1>7. ASSUME c.count = 0 PROVE KeyInv(d, q, Limit(k))
  <2>1. Window - d.ttl = 0 BY <1>2, <1>3, <1>7
  <2>2. p[0] = 0 /\ p[Window] <= Limit(k) BY <1>7 DEF KeyInv
  <2>3. q[0] = 1 /\ q[Window] = p[Window] + 1 /\ p[Window] \in Nat BY <2>2, <1>3, <1>4
  <2>4. d.count = 1 BY <1>1, <1>7
  <2> QED BY <2>1, <2>2, <2>3, <2>4, <1>1, <1>5, <1>6 DEF KeyInv
<1>8. ASSUME c.count # 0 PROVE KeyInv(d, q, Limit(k))
  <2>1. d.ttl = c.ttl /\ c.count \in Nat /\ c.count > 0 BY <1>2, <1>8 DEF Counters
  <2>2. /\ p[Window - c.ttl] <= c.count
        /\ p[Window] - p[Window - c.ttl] <= Limit(k)
    BY <2>1 DEF KeyInv
  <2>3. /\ q[Window - d.ttl] = p[Window - c.ttl] + 1 /\ p[Window - c.ttl] \in Nat
        /\ q[Window] = p[Window] + 1 /\ p[Window] \in Nat
    BY <2>1, <1>3, <1>4
  <2>4. d.count = c.count + 1 /\ d.count <= Limit(k) BY <1>1
  <2> QED BY <2>1, <2>2, <2>3, <2>4, <1>5, <1>6 DEF KeyInv
<1> QED BY <1>7, <1>8 DEF d, q

\* And so does a tick, which ages what passed and may expire the key.
LEMMA AgedByOneTick ==
    ASSUME NEW l \in Nat, NEW c \in Counters, NEW p \in [Ages -> Nat], KeyInv(c, p, l)
    PROVE  LET q == [n \in Ages |-> IF n = 0 THEN 0 ELSE p[n - 1]]
           IN  Elapse(c) \in Counters /\ q \in [Ages -> Nat] /\ KeyInv(Elapse(c), q, l)
<1> DEFINE d == Elapse(c)
           q == [n \in Ages |-> IF n = 0 THEN 0 ELSE p[n - 1]]
<1>1. /\ Window \in Nat /\ Window > 0 /\ 0 \in Ages /\ Window \in Ages /\ Window - 1 \in Ages
      /\ Ages \subseteq Nat /\ \A n \in Ages : n # 0 => n - 1 \in Ages
  BY RateAssumption DEF Ages
<1>2. q \in [Ages -> Nat] BY <1>1
<1>3. q[0] = 0 /\ q[Window] = p[Window - 1] /\ \A n \in Ages : n # 0 => q[n] = p[n - 1]
  BY <1>1
<1>4. \A n \in Ages : p[n] \in Nat BY <1>1
<1>5. \A m, n \in Ages : m <= n => p[m] <= p[n] BY DEF KeyInv
<1> HIDE DEF q
<1>6. \A m, n \in Ages : m <= n => q[m] <= q[n]
  <2> SUFFICES ASSUME NEW m \in Ages, NEW n \in Ages, m <= n PROVE q[m] <= q[n] OBVIOUS
  <2>1. CASE m = 0 BY <2>1, <1>2, <1>3
  <2>2. CASE m # 0
    <3>1. n # 0 /\ m - 1 <= n - 1 BY <2>2, <1>1
    <3> QED BY <3>1, <2>2, <1>1, <1>3, <1>5
  <2> QED BY <2>1, <2>2
<1>7. p[Window - 1] <= p[Window] BY <1>1, <1>5
<1>8. CASE c.count = 0 \/ c.ttl = 0
  <2>1. d = NoKey BY <1>8 DEF Elapse
  <2>2. d.count = 0 /\ d \in Counters BY <2>1, <1>1 DEF NoKey, Counters
  <2>3. p[Window] <= l
    <3>1. CASE c.count = 0 BY <3>1 DEF KeyInv
    <3>2. CASE c.count # 0
      <4>1. c.count > 0 /\ Window - c.ttl = Window BY <3>2, <1>8, <1>1 DEF Counters
      <4> QED BY <4>1 DEF KeyInv
    <3> QED BY <3>1, <3>2
  <2>4. q[Window] <= l BY <2>3, <1>1, <1>3, <1>4, <1>7
  <2> QED BY <2>2, <2>4, <1>2, <1>3, <1>6 DEF KeyInv, q
<1>9. CASE c.count # 0 /\ c.ttl # 0
  <2>1. d = [c EXCEPT !.ttl = @ - 1] BY <1>9 DEF Elapse
  <2>2. /\ c.ttl \in 1..Window /\ c.count > 0 /\ c.count \in Nat
    BY <1>9, <1>1 DEF Counters, Ages
  <2>3. d \in Counters /\ d.count = c.count /\ d.ttl = c.ttl - 1
    BY <2>1, <2>2, <1>1 DEF Counters, Ages
  <2>4. Window - d.ttl \in Ages /\ Window - d.ttl # 0 /\ (Window - d.ttl) - 1 = Window - c.ttl
    <3>1. c.ttl \in Nat /\ c.ttl >= 1 /\ c.ttl <= Window /\ Window - d.ttl = Window - c.ttl + 1
      BY <2>2, <2>3, <1>1
    <3> DEFINE a == Window - c.ttl
    <3>2. a \in 0..(Window - 1) /\ Window - d.ttl = a + 1
      BY <3>1, <1>1
    <3> HIDE DEF a
    <3>3. Window - d.ttl \in Ages
      BY <3>2, <1>1 DEF Ages
    <3>4. Window - d.ttl # 0 /\ (Window - d.ttl) - 1 = a
      BY <3>2, <1>1
    <3> QED  BY <3>3, <3>4 DEF a
  <2>5. q[Window - d.ttl] = p[Window - c.ttl] BY <2>4, <1>3
  <2>6. /\ p[Window - c.ttl] <= c.count /\ p[Window - c.ttl] <= l
        /\ p[Window] - p[Window - c.ttl] <= l
    BY <2>2 DEF KeyInv
  <2>7. Window - c.ttl \in Ages BY <2>2, <1>1 DEF Ages
  <2>8. q[Window] - q[Window - d.ttl] <= l
    <3>1. /\ q[Window] \in Nat /\ p[Window] \in Nat /\ p[Window - c.ttl] \in Nat
          /\ q[Window] <= p[Window]
      BY <2>7, <1>1, <1>3, <1>4, <1>7
    <3> QED BY <3>1, <2>5, <2>6
  <2>9. q[Window - d.ttl] <= d.count /\ q[Window - d.ttl] <= l BY <2>3, <2>5, <2>6
  <2> QED BY <2>2, <2>3, <2>8, <2>9, <1>2, <1>6 DEF KeyInv, q
<1> QED BY <1>8, <1>9

\* RateInv is inductive.
LEMMA RateInvStep ==
    ASSUME RateInv, [AdmissionNext]_admissionVars PROVE RateInv'
<1> USE DEF RateInv
<1>1. CASE UNCHANGED <<counter, passed>> BY <1>1
<1>2. ASSUME NEW a \in Attempts, NEW k \in Keys, CountAttempt(a, k) PROVE RateInv'
  <2> DEFINE d == Increment(k, counter[k])
             over == LoginExceeded(k, d.count)
  <2>1. counter' = [counter EXCEPT ![k] = d] BY <1>2 DEF CountAttempt
  <2>2. counter'[k].count = d.count BY <2>1
  <2>3. passed' = [passed EXCEPT ![k] = IF over THEN @ ELSE Pass(@)]
    BY <1>2, <2>2 DEF CountAttempt
  <2>4. d \in Counters BY IncrementStep
  <2>5. Pass(passed[k]) \in [Ages -> Nat] BY DEF Pass
  <2>6. CASE over
    <3>1. passed' = passed BY <2>3, <2>6
    <3>2. KeyInv(d, passed[k], Limit(k)) BY CountedOnly
    <3> QED BY <3>1, <3>2, <2>1, <2>4 DEF KeyInv
  <2>7. CASE ~over
    <3>1. passed' = [passed EXCEPT ![k] = Pass(passed[k])] BY <2>3, <2>7
    <3>2. d.count <= Limit(k) BY <2>7, <2>4, LimitPositive DEF LoginExceeded, Counters
    <3>3. KeyInv(d, Pass(passed[k]), Limit(k)) BY <3>2, CountedAndPassed
    <3> HIDE DEF d
    <3>4. counter' \in [Keys -> Counters] /\ passed' \in [Keys -> [Ages -> Nat]]
      BY <3>1, <2>1, <2>4, <2>5
    <3>5. \A i \in Keys : KeyInv(counter'[i], passed'[i], Limit(i))
      BY <3>1, <3>3, <2>1
    <3> QED BY <3>4, <3>5 DEF KeyInv
  <2> QED BY <2>6, <2>7
<1>3. ASSUME NEW a \in Attempts, NEW k \in Keys, CountLost(a, k) PROVE RateInv'
  <2> DEFINE d == Increment(k, counter[k])
  <2>1. passed' = passed /\ (counter' = counter \/ counter' = [counter EXCEPT ![k] = d])
    BY <1>3 DEF CountLost
  <2>2. d \in Counters BY IncrementStep
  <2>3. KeyInv(d, passed[k], Limit(k)) BY CountedOnly
  <2> QED BY <2>1, <2>2, <2>3 DEF KeyInv
<1>4. ASSUME NEW u PROVE /\ Consumed(u) \in [Keys -> Counters]
                         /\ \A k \in Keys : KeyInv(Consumed(u)[k], passed[k], Limit(k))
  <2> SUFFICES ASSUME NEW k \in Keys
               PROVE  Consumed(u)[k] \in Counters /\ KeyInv(Consumed(u)[k], passed[k], Limit(k))
    BY DEF Consumed
  <2>1. Consumed(u)[k] = IF k \in ChatKeysOf(u) THEN Increment(k, counter[k]) ELSE counter[k]
    BY DEF Consumed
  <2> QED BY <2>1, IncrementStep, CountedOnly
<1>5. ASSUME NEW u, ChatRefused(u) \/ ChatRateLost(u) PROVE RateInv'
  <2>1. passed' = passed /\ (counter' = counter \/ counter' = Consumed(u))
    BY <1>5 DEF ChatRefused, ChatRateLost
  <2> QED BY <2>1, <1>4 DEF KeyInv
<1>6. ASSUME NEW u, ChatAdmitted(u) PROVE RateInv'
  <2>1. counter' = Consumed(u) BY <1>6 DEF ChatAdmitted
  <2>2. passed' = [k \in Keys |-> IF k \in ChatKeysOf(u) /\ counter'[k].ttl > 0
                                  THEN Pass(passed[k]) ELSE passed[k]]
    BY <1>6 DEF ChatAdmitted
  <2>3. ASSUME NEW k \in Keys
        PROVE  passed'[k] \in [Ages -> Nat] /\ KeyInv(counter'[k], passed'[k], Limit(k))
    <3>1. CASE k \in ChatKeysOf(u) /\ counter'[k].ttl > 0
      <4>1. passed'[k] = Pass(passed[k]) BY <3>1, <2>2
      <4>2. counter'[k] = Increment(k, counter[k]) BY <3>1, <2>1 DEF Consumed
      <4>3. counter'[k] \in Counters BY <4>2, IncrementStep
      <4>4. ~(counter'[k].count > Limit(k)) BY <1>6, <2>1, <3>1 DEF ChatAdmitted, RetryTtlPositive
      <4>5. Increment(k, counter[k]).count <= Limit(k)
        BY <4>2, <4>3, <4>4, LimitPositive DEF Counters
      <4>6. KeyInv(Increment(k, counter[k]), Pass(passed[k]), Limit(k)) BY <4>5, CountedAndPassed
      <4>7. Pass(passed[k]) \in [Ages -> Nat] BY DEF Pass
      <4> QED BY <4>1, <4>2, <4>6, <4>7
    <3>2. CASE ~(k \in ChatKeysOf(u) /\ counter'[k].ttl > 0)
      <4>1. passed'[k] = passed[k] BY <3>2, <2>2
      <4> QED BY <4>1, <2>1, <1>4
    <3> QED BY <3>1, <3>2
  <2>4. counter' \in [Keys -> Counters] BY <2>1, <1>4
  <2>5. passed' \in [Keys -> [Ages -> Nat]]
    <3>1. passed' = [k \in Keys |-> passed'[k]] BY <2>2
    <3> QED BY <3>1, <2>3
  <2> QED BY <2>3, <2>4, <2>5 DEF KeyInv
<1>7. ASSUME RateTick PROVE RateInv'
  <2> DEFINE q(k) == [n \in Ages |-> IF n = 0 THEN 0 ELSE passed[k][n - 1]]
  <2>1. /\ counter' = [k \in Keys |-> Elapse(counter[k])]
        /\ passed' = [k \in Keys |-> q(k)]
    BY <1>7 DEF RateTick
  <2>2. ASSUME NEW k \in Keys
        PROVE  /\ Elapse(counter[k]) \in Counters /\ q(k) \in [Ages -> Nat]
               /\ KeyInv(Elapse(counter[k]), q(k), Limit(k))
    BY AgedByOneTick, LimitPositive
  <2> HIDE DEF q
  <2>3. \A k \in Keys : KeyInv(counter'[k], passed'[k], Limit(k)) BY <2>1, <2>2
  <2> QED BY <2>1, <2>2, <2>3 DEF KeyInv
<1>8. QED
  <2>1. CASE Tick BY <2>1, <1>7 DEF Tick
  <2>2. ASSUME NEW a \in Attempts, LoginStep(a) PROVE RateInv'
    BY <2>2, <1>1, <1>2, <1>3 DEF LoginStep, AnswerAttempt
  <2>3. ASSUME NEW a \in Attempts, LoginArrives(a) PROVE RateInv'
    BY <2>3, <1>1 DEF LoginArrives, BeginLogin
  <2>4. ASSUME NEW a \in Attempts, NEW i \in Addresses, DemoArrives(a, i) PROVE RateInv'
    BY <2>4, <1>1 DEF DemoArrives, BeginDemo
  <2>5. CASE HealthStep BY <2>5, <1>1 DEF HealthStep, rateVars
  <2>6. ASSUME NEW t \in Thresholds, UpdatePolicy(t) PROVE RateInv'
    BY <2>6, <1>1 DEF UpdatePolicy, rateVars
  <2>7. ASSUME NEW r \in Chats, NEW u \in Users, NEW p \in Prompts,
               LoadOrganisation(r, u, p)
        PROVE  RateInv'
    BY <2>7, <1>1 DEF LoadOrganisation, rateVars
  <2>8. ASSUME NEW r \in Chats, ChatStep(r) PROVE RateInv'
    <3>1. CASE PassRateLimit(r) BY <3>1, <1>6 DEF PassRateLimit
    <3>2. CASE FailRateLimit(r) BY <3>2, <1>5 DEF FailRateLimit
    <3>3. ASSUME NEW e \in BOOLEAN, Decide(r, e) PROVE RateInv'
      <4>1. UNCHANGED rateVars BY <3>3 DEF Decide
      <4> QED BY <4>1, <1>1 DEF rateVars
    <3>4. CASE DecideFails(r) \/ SelectProvider(r) \/ Finish(r)
      BY <3>4, <1>1 DEF DecideFails, SelectProvider, Finish, rateVars
    <3> QED BY <3>1, <3>2, <3>3, <3>4, <2>8 DEF ChatStep
  <2>9. CASE UNCHANGED admissionVars BY <2>9, <1>1 DEF admissionVars, rateVars
  <2> QED BY <2>1, <2>2, <2>3, <2>4, <2>5, <2>6, <2>7, <2>8, <2>9 DEF AdmissionNext

\* The counters start empty and nothing has passed.
LEMMA RateInvInit == ASSUME AdmissionInit PROVE RateInv
<1>1. counter = [k \in Keys |-> NoKey] /\ passed = [k \in Keys |-> Unused]
  BY DEF AdmissionInit, RateInit
<1>2. NoKey \in Counters /\ Unused \in [Ages -> Nat] /\ 0 \in Ages /\ Window \in Ages
  BY RateAssumption DEF NoKey, Counters, Unused, Ages
<1>3. \A n \in Ages : Unused[n] = 0 BY DEF Unused
<1>4. ASSUME NEW k \in Keys PROVE KeyInv(NoKey, Unused, Limit(k))
  BY <1>2, <1>3, LimitPositive DEF KeyInv, NoKey
<1> QED BY <1>1, <1>2, <1>4 DEF RateInv

\* RateInv holds in every state of the admission controls.
THEOREM RateInvariant == AdmissionSpec => []RateInv
BY RateInvInit, RateInvStep, PTL DEF AdmissionSpec

\* At most twice the limit of a key passes in any span one window long, for
\* every number of addresses, accounts, users and concurrent attempts, every
\* limit and every length of the window: RATE_SCRIPT, INCREMENT_SCRIPT.
THEOREM WindowsBounded == AdmissionSpec => []BurstBounded
<1>1. ASSUME RateInv PROVE BurstBounded
  <2> SUFFICES ASSUME NEW k \in Keys PROVE passed[k][Window] <= 2 * Limit(k)
    BY DEF BurstBounded
  <2>1. KeyInv(counter[k], passed[k], Limit(k)) /\ counter[k] \in Counters BY <1>1 DEF RateInv
  <2>2. Window - counter[k].ttl \in Ages /\ Window \in Ages
    BY <2>1, RateAssumption DEF Counters, Ages
  <2>3. passed[k][Window] \in Nat /\ passed[k][Window - counter[k].ttl] \in Nat
    BY <1>1, <2>2 DEF RateInv
  <2>4. CASE counter[k].count = 0 BY <2>1, <2>3, <2>4, LimitPositive DEF KeyInv
  <2>5. CASE counter[k].count # 0
    <3>1. counter[k].count > 0 BY <2>1, <2>5 DEF Counters
    <3> QED BY <3>1, <2>1, <2>3, LimitPositive DEF KeyInv
  <2> QED BY <2>4, <2>5
<1> QED BY <1>1, RateInvariant, PTL

-------------------------------------------------------------------------------
(* The prompt on its way to a provider                                         *)

\* What matchAll can give: nonempty spans.
Matches(candidates) ==
    /\ IsFiniteSet(candidates) /\ candidates \subseteq Span
    /\ \A c \in candidates : c.start < c.end

Disjoint(S) == \A a, b \in S : a # b => ~SpansOverlap(a, b)

\* compareByPrecedence is a strict order, total on distinct matches.
LEMMA PrecedenceOrders ==
    ASSUME NEW S \in SUBSET Span
    PROVE  Orders({p \in S \X S : TakesPrecedence(p[1], p[2])}, S)
<1> DEFINE R == {p \in S \X S : TakesPrecedence(p[1], p[2])}
<1>1. \A a, b \in S : <<a, b>> \in R <=> TakesPrecedence(a, b)
  OBVIOUS
<1>2. \A d \in Detectors : Priority[d] \in Nat
  BY DEF Detectors, Priority
<1>3. \A c, d \in Detectors : Priority[c] = Priority[d] => c = d
  BY DEF Detectors, Priority
<1>4. \A a \in S : a.start \in Nat /\ a.end \in Nat /\ a.detector \in Detectors
                   /\ Priority[a.detector] \in Nat
  BY <1>2 DEF Span
<1>5. \A a \in S : ~TakesPrecedence(a, a)
  BY <1>4 DEF TakesPrecedence
<1>6. \A a, b, c \in S : TakesPrecedence(a, b) /\ TakesPrecedence(b, c) => TakesPrecedence(a, c)
  BY <1>4 DEF TakesPrecedence
<1>7. \A a, b \in S : a # b => TakesPrecedence(a, b) \/ TakesPrecedence(b, a)
  <2> SUFFICES ASSUME NEW a \in S, NEW b \in S, a # b
               PROVE  TakesPrecedence(a, b) \/ TakesPrecedence(b, a)
    OBVIOUS
  <2>1. a = [start |-> a.start, end |-> a.end, detector |-> a.detector]
    BY DEF Span
  <2>2. b = [start |-> b.start, end |-> b.end, detector |-> b.detector]
    BY DEF Span
  <2>3. \/ a.start # b.start \/ a.end # b.end \/ a.detector # b.detector
    BY <2>1, <2>2
  <2> QED  BY <1>3, <1>4, <2>3 DEF TakesPrecedence
<1> HIDE DEF R
<1> QED  BY <1>1, <1>5, <1>6, <1>7 DEF Orders

\* removeOverlaps keeps disjoint matches, and drops a match only for an
\* overlapping one of at least its priority.
LEMMA Greedy ==
    ASSUME NEW candidates, Matches(candidates)
    PROVE  LET kept == RemoveOverlaps(candidates)
           IN  /\ kept \subseteq candidates /\ Disjoint(kept)
               /\ \A c \in candidates : \E s \in kept :
                      /\ s = c \/ SpansOverlap(c, s)
                      /\ Priority[s.detector] >= Priority[c.detector]
<1> DEFINE R == {p \in candidates \X candidates : TakesPrecedence(p[1], p[2])}
           select == [selected \in SUBSET candidates |-> [c \in candidates |->
                         IF \E s \in selected : SpansOverlap(c, s) THEN selected
                         ELSE selected \cup {c}]]
           list == Sorted(candidates, R)
           N == Len(list)
<1>1. /\ list \in Seq(candidates) /\ N \in Nat
      /\ \A m, n \in 1..N : m < n <=> <<list[m], list[n]>> \in R
      /\ \A i \in candidates : \E n \in 1..N : list[n] = i
  <2>1. Orders(R, candidates)
    BY PrecedenceOrders DEF Matches
  <2> HIDE DEF R
  <2> QED  BY <2>1, SortedList DEF Matches
<1>2. PICK f : /\ f[0] = {}
               /\ \A n \in 1..N : f[n] = select[f[n - 1]][list[n]]
               /\ Fold(select, {}, list) = f[N]
  <2>1. list \in Seq(candidates)
    BY <1>1
  <2> HIDE DEF list, select
  <2> QED  BY <2>1, FoldRuns
<1>3. RemoveOverlaps(candidates) = f[N]
  BY <1>2 DEF RemoveOverlaps
<1>4. \A sel \in SUBSET candidates, c \in candidates :
          select[sel][c] = IF \E s \in sel : SpansOverlap(c, s) THEN sel ELSE sel \cup {c}
  OBVIOUS
<1>5. \A n \in 1..N : list[n] \in candidates
  <2> HIDE DEF list
  <2> QED  BY <1>1
<1>6. \A m, n \in 1..N : m < n => TakesPrecedence(list[m], list[n])
  <2> HIDE DEF list
  <2>1. \A a, b : <<a, b>> \in R => TakesPrecedence(a, b)
    OBVIOUS
  <2> HIDE DEF R
  <2> QED  BY <1>1, <2>1
<1> HIDE DEF select, list, R
<1> DEFINE Covered(n) == \A m \in 1..n : \E k \in 1..m :
               list[k] \in f[n] /\ (list[k] = list[m] \/ SpansOverlap(list[m], list[k]))
           Good == {n \in 0..N : /\ f[n] \in SUBSET candidates /\ Disjoint(f[n])
                                 /\ \A s \in f[n] : \E k \in 1..n : list[k] = s
                                 /\ Covered(n)}
<1>7. 0 \in Good
  <2>1. 0 \in 0..N /\ 1..0 = {}
    BY <1>1
  <2> QED  BY <1>2, <2>1 DEF Disjoint
<1>8. ASSUME NEW n \in 1..N, n - 1 \in Good PROVE n \in Good
  <2>1. /\ f[n - 1] \in SUBSET candidates /\ Disjoint(f[n - 1]) /\ Covered(n - 1)
        /\ \A s \in f[n - 1] : \E k \in 1..(n - 1) : list[k] = s
        /\ list[n] \in candidates
    BY <1>5, <1>8
  <2>0. /\ n \in 0..N /\ n - 1 \in Nat /\ n \in 1..n /\ 1..(n - 1) \subseteq 1..n
        /\ \A m \in 1..n : m = n \/ m \in 1..(n - 1)
    BY <1>1
  <2>2. f[n] = IF \E s \in f[n - 1] : SpansOverlap(list[n], s) THEN f[n - 1]
               ELSE f[n - 1] \cup {list[n]}
    BY <1>2, <1>4, <2>1
  <2>3. f[n - 1] \subseteq f[n] /\ f[n] \in SUBSET candidates
    BY <2>1, <2>2
  <2>4. Disjoint(f[n])
    <3>1. \A a, b : SpansOverlap(a, b) <=> SpansOverlap(b, a)
      BY DEF SpansOverlap
    <3> QED  BY <2>1, <2>2, <3>1 DEF Disjoint
  <2>5. \A s \in f[n] : \E k \in 1..n : list[k] = s
    BY <2>0, <2>1, <2>2
  <2>6. \E k \in 1..n : list[k] \in f[n] /\ (list[k] = list[n] \/ SpansOverlap(list[n], list[k]))
    <3>1. CASE \E s \in f[n - 1] : SpansOverlap(list[n], s)
      BY <2>0, <2>1, <2>3, <3>1
    <3>2. CASE ~ \E s \in f[n - 1] : SpansOverlap(list[n], s)
      BY <2>0, <2>2, <3>2
    <3> QED  BY <3>1, <3>2
  <2>7. Covered(n)
    BY <2>0, <2>1, <2>3, <2>6
  <2> QED  BY <2>0, <2>3, <2>4, <2>5, <2>7
<1>9. N \in Good
  <2> HIDE DEF Good
  <2>1. N \in 0..N
    BY <1>1
  <2> QED  BY <1>1, <1>7, <1>8, <2>1, CountUp
<1>10. \A d \in Detectors : Priority[d] \in Nat
  BY DEF Detectors, Priority
<1>11. ASSUME NEW c \in candidates
       PROVE  \E s \in f[N] : /\ s = c \/ SpansOverlap(c, s)
                              /\ Priority[s.detector] >= Priority[c.detector]
  <2>1. PICK m \in 1..N : list[m] = c
    BY <1>1
  <2>2. PICK k \in 1..m : list[k] \in f[N] /\ (list[k] = c \/ SpansOverlap(c, list[k]))
    BY <1>9, <2>1
  <2>3. k = m \/ (k \in 1..N /\ k < m)
    BY <1>1
  <2>4. list[k] = c \/ TakesPrecedence(list[k], c)
    BY <1>6, <2>1, <2>3
  <2>5. list[k] \in Span /\ c \in Span
    BY <1>9, <2>2 DEF Matches
  <2>6. Priority[list[k].detector] \in Nat /\ Priority[c.detector] \in Nat
    BY <1>10, <2>5 DEF Span
  <2>7. Priority[list[k].detector] >= Priority[c.detector]
    BY <2>4, <2>6 DEF TakesPrecedence
  <2> QED  BY <2>2, <2>7
<1> QED  BY <1>3, <1>9, <1>11

\* The list of a prompt's detections: what removeOverlaps kept, in the order of
\* the text and apart from each other.
LEMMA Detections ==
    ASSUME NEW candidates, Matches(candidates)
    PROVE  LET spans == DetectPii(candidates)
               kept  == RemoveOverlaps(candidates)
           IN  /\ spans \in Seq(candidates) /\ Len(spans) \in Nat
               /\ Range(spans) = kept
               /\ \A m, n \in 1..Len(spans) : m < n => spans[m].end <= spans[n].start
<1> DEFINE kept == RemoveOverlaps(candidates)
           R == {p \in kept \X kept : p[1].start < p[2].start}
           spans == Sorted(kept, R)
<1>1. DetectPii(candidates) = spans
  BY DEF DetectPii
<1>2. kept \subseteq candidates /\ Disjoint(kept) /\ IsFiniteSet(kept)
  <2>1. kept \subseteq candidates /\ Disjoint(kept)
    BY Greedy
  <2> HIDE DEF kept
  <2> QED  BY <2>1, FS_Subset DEF Matches
<1> HIDE DEF kept
<1>3. \A a \in kept : a.start \in Nat /\ a.end \in Nat /\ a.start < a.end
  BY <1>2 DEF Matches, Span
<1>4. \A a, b \in kept : <<a, b>> \in R <=> a.start < b.start
  OBVIOUS
<1>5. \A a, b \in kept : a.start < b.start => a.end <= b.start
  BY <1>2, <1>3 DEF Disjoint, SpansOverlap
<1>6. Orders(R, kept)
  <2>1. \A a, b \in kept : a # b => a.start < b.start \/ b.start < a.start
    BY <1>2, <1>3 DEF Disjoint, SpansOverlap
  <2> HIDE DEF R
  <2> QED  BY <1>3, <1>4, <2>1 DEF Orders
<1>7. /\ spans \in Seq(kept) /\ Len(spans) \in Nat
      /\ \A m, n \in 1..Len(spans) : m < n <=> <<spans[m], spans[n]>> \in R
      /\ \A i \in kept : \E n \in 1..Len(spans) : spans[n] = i
  <2> HIDE DEF R
  <2> QED  BY <1>2, <1>6, SortedList
<1> HIDE DEF spans, R
<1>8. \A n \in 1..Len(spans) : spans[n] \in kept
  BY <1>7
<1>9. Range(spans) = kept
  BY <1>7, <1>8 DEF Range
<1>10. \A m, n \in 1..Len(spans) : m < n => spans[m].end <= spans[n].start
  BY <1>4, <1>5, <1>7, <1>8
<1>11. spans \in Seq(candidates)
  BY <1>2, <1>7, <1>8
<1> QED  BY <1>1, <1>7, <1>9, <1>10, <1>11 DEF kept

\* Lists of spans or ranges that follow each other in a text.
Apart(list) ==
    /\ \A n \in 1..Len(list) : list[n].start < list[n].end
    /\ \A m, n \in 1..Len(list) : m < n => list[m].end <= list[n].start

\* Spans that are apart are masked one by one: none is merged.
LEMMA NothingMerged ==
    ASSUME NEW spans \in Seq(Span), Apart(spans), PlaceholderAssumption
    PROVE  LET ranges == NormalizeMaskRanges(spans)
           IN  /\ ranges \in Seq(MaskRange) /\ Len(ranges) = Len(spans)
               /\ \A n \in 1..Len(spans) :
                      ranges[n] = [start |-> spans[n].start, end |-> spans[n].end,
                                   width |-> PlaceholderLength[spans[n].detector]]
<1> DEFINE N == Len(spans)
           merge == [ranges \in Seq(MaskRange) |-> [s \in Span |->
            IF ranges = <<>> \/ Last(ranges).end <= s.start
            THEN Append(ranges, [start |-> s.start, end |-> s.end,
                                 width |-> PlaceholderLength[s.detector]])
            ELSE [ranges EXCEPT ![Len(ranges)] =
                    [start |-> @.start, end |-> Max({@.end, s.end}),
                     width |-> PlaceholderLength["generic"]]]]]
           Masked(s) == [start |-> s.start, end |-> s.end,
                         width |-> PlaceholderLength[s.detector]]
<1>1. PICK f : /\ f[0] = <<>>
               /\ \A n \in 1..N : f[n] = merge[f[n - 1]][spans[n]]
               /\ Fold(merge, <<>>, spans) = f[N]
  <2> DEFINE none == <<>>
  <2> HIDE DEF merge, none
  <2>1. \E f : /\ f[0] = none
               /\ \A n \in 1..N : f[n] = merge[f[n - 1]][spans[n]]
               /\ Fold(merge, none, spans) = f[N]
    BY FoldRuns
  <2> QED  BY <2>1 DEF none
<1>2. NormalizeMaskRanges(spans) = f[N]
  BY <1>1 DEF NormalizeMaskRanges
<1>3. \A ranges \in Seq(MaskRange), s \in Span :
          ranges = <<>> \/ Last(ranges).end <= s.start
              => merge[ranges][s] = Append(ranges, Masked(s))
  OBVIOUS
<1> HIDE DEF merge
<1>4. \A n \in 1..N : /\ spans[n] \in Span /\ Masked(spans[n]) \in MaskRange
                      /\ Masked(spans[n]).end = spans[n].end
  <2>1. \A n \in 1..N : spans[n] \in Span
    OBVIOUS
  <2>2. \A s \in Span : PlaceholderLength[s.detector] \in Nat
    BY DEF PlaceholderAssumption, Span, Detectors
  <2> QED  BY <2>1, <2>2 DEF MaskRange, Span
<1> HIDE DEF Masked
<1> DEFINE Good == {n \in 0..N : /\ f[n] \in Seq(MaskRange) /\ Len(f[n]) = n
                                 /\ \A k \in 1..n : f[n][k] = Masked(spans[k])}
<1>5. N \in Nat
  OBVIOUS
<1>6. 0 \in Good
  <2>1. 0 \in 0..N /\ 1..0 = {}
    BY <1>5
  <2>2. f[0] \in Seq(MaskRange) /\ Len(f[0]) = 0
    BY <1>1
  <2> QED  BY <2>1, <2>2
<1>7. ASSUME NEW n \in 1..N, n - 1 \in Good PROVE n \in Good
  <2>1. /\ f[n - 1] \in Seq(MaskRange) /\ Len(f[n - 1]) = n - 1
        /\ \A k \in 1..(n - 1) : f[n - 1][k] = Masked(spans[k])
    BY <1>7
  <2>2. n \in 0..N /\ n \in Nat /\ \A k \in 1..n : k = n \/ k \in 1..(n - 1)
    BY <1>5
  <2>3. f[n - 1] = <<>> \/ Last(f[n - 1]).end <= spans[n].start
    <3>1. CASE n = 1
      BY <2>1, <3>1
    <3>2. CASE n # 1
      <4>1. n - 1 \in 1..N /\ n - 1 \in 1..(n - 1) /\ n - 1 < n
        BY <1>5, <2>2, <3>2
      <4>2. Last(f[n - 1]) = Masked(spans[n - 1])
        BY <2>1, <4>1 DEF Last
      <4> QED  BY <1>4, <4>1, <4>2 DEF Apart
    <3> QED  BY <3>1, <3>2
  <2>4. f[n] = Append(f[n - 1], Masked(spans[n]))
    BY <1>1, <1>3, <1>4, <2>1, <2>3
  <2>5. f[n] \in Seq(MaskRange) /\ Len(f[n]) = n
        /\ f[n][n] = Masked(spans[n]) /\ \A k \in 1..(n - 1) : f[n][k] = f[n - 1][k]
    BY <1>4, <2>1, <2>2, <2>4
  <2> QED  BY <2>1, <2>2, <2>5
<1>8. N \in Good
  <2> HIDE DEF Good
  <2>1. N \in 0..N
    BY <1>5
  <2> QED  BY <1>5, <1>6, <1>7, <2>1, CountUp
<1> QED  BY <1>2, <1>8 DEF Masked

\* The shift of the text after each of its ranges.
Shifts(D, ranges) ==
    /\ D[0] = 0
    /\ \A n \in 0..Len(ranges) : D[n] \in Int
    /\ \A n \in 1..Len(ranges) :
           D[n] = D[n - 1] + ranges[n].width - (ranges[n].end - ranges[n].start)

\* The masks report each placeholder where the shifts before it have moved it.
LEMMA OffsetsReported ==
    ASSUME NEW ranges \in Seq(MaskRange)
    PROVE  \E D : /\ Shifts(D, ranges)
                  /\ DOMAIN MaskOffsets(ranges) = 1..Len(ranges)
                  /\ \A n \in 1..Len(ranges) : MaskOffsets(ranges)[n] =
                         [from |-> ranges[n].start + D[n - 1],
                          to |-> ranges[n].start + D[n - 1] + ranges[n].width]
<1> DEFINE N == Len(ranges)
           Reports == Seq([from : Int, to : Int])
           Acc == [delta : Int, masks : Reports]
           Report(r, d) == [from |-> r.start + d, to |-> r.start + d + r.width]
           report == [acc \in [delta : Int, masks : Seq([from : Int, to : Int])] |-> [r \in MaskRange |->
            [delta |-> acc.delta + r.width - (r.end - r.start),
             masks |-> Append(acc.masks, [from |-> r.start + acc.delta,
                                          to |-> r.start + acc.delta + r.width])]]]
           none == [delta |-> 0, masks |-> <<>>]
           After(r, d) == d + r.width - (r.end - r.start)
<1>0. N \in Nat /\ \A n \in 1..N : ranges[n] \in MaskRange
  OBVIOUS
<1>1. PICK f : /\ f[0] = none
               /\ \A n \in 1..N : f[n] = report[f[n - 1]][ranges[n]]
               /\ Fold(report, none, ranges) = f[N]
  <2> HIDE DEF report, none
  <2> QED  BY FoldRuns
<1>2. MaskOffsets(ranges) = f[N].masks
  BY <1>1 DEF MaskOffsets
<1>3. \A acc \in Acc, r \in MaskRange :
          report[acc][r] = [delta |-> After(r, acc.delta),
                            masks |-> Append(acc.masks, Report(r, acc.delta))]
  OBVIOUS
<1> HIDE DEF report
<1>4. \A r \in MaskRange, d \in Int : Report(r, d) \in [from : Int, to : Int]
  BY DEF MaskRange
<1>5. \A r \in MaskRange, d \in Int : After(r, d) \in Int
  BY DEF MaskRange
<1> HIDE DEF Report, After
<1> DEFINE Good == {n \in 0..N : /\ f[n] \in Acc /\ Len(f[n].masks) = n
                                 /\ \A k \in 1..n : f[n].masks[k] = Report(ranges[k], f[k - 1].delta)}
<1>6. 0 \in Good
  <2>1. 0 \in 0..N /\ 1..0 = {}
    BY <1>0
  <2>2. none \in Acc /\ Len(none.masks) = 0
    OBVIOUS
  <2> QED  BY <1>1, <2>1, <2>2
<1>7. ASSUME NEW n \in 1..N, n - 1 \in Good PROVE n \in Good
  <2>1. /\ f[n - 1] \in Acc /\ Len(f[n - 1].masks) = n - 1
        /\ \A k \in 1..(n - 1) : f[n - 1].masks[k] = Report(ranges[k], f[k - 1].delta)
    BY <1>7
  <2>2. n \in 0..N /\ n \in Nat /\ \A k \in 1..n : k = n \/ k \in 1..(n - 1)
    BY <1>0
  <2>3. f[n] = [delta |-> After(ranges[n], f[n - 1].delta),
                masks |-> Append(f[n - 1].masks, Report(ranges[n], f[n - 1].delta))]
    BY <1>0, <1>1, <1>3, <2>1
  <2> DEFINE masks == f[n - 1].masks
             new == Report(ranges[n], f[n - 1].delta)
  <2>4. masks \in Reports /\ new \in [from : Int, to : Int] /\ Len(masks) = n - 1
    BY <1>0, <1>4, <2>1
  <2>5. /\ Append(masks, new) \in Reports /\ Len(Append(masks, new)) = n
        /\ Append(masks, new)[n] = new
        /\ \A k \in 1..(n - 1) : Append(masks, new)[k] = masks[k]
    <3> HIDE DEF masks, new
    <3> QED  BY <2>2, <2>4
  <2>6. f[n] \in Acc
    <3>1. After(ranges[n], f[n - 1].delta) \in Int
      BY <1>0, <1>5, <2>1
    <3> QED  BY <2>3, <2>5, <3>1
  <2>7. f[n].masks = Append(masks, new)
    BY <2>3
  <2>8. \A k \in 1..n : f[n].masks[k] = Report(ranges[k], f[k - 1].delta)
    BY <2>1, <2>2, <2>5, <2>7
  <2> HIDE DEF new, masks
  <2> QED  BY <2>2, <2>5, <2>6, <2>7, <2>8
<1>8. \A n \in 0..N : n \in Good
  <2> HIDE DEF Good
  <2> QED  BY <1>0, <1>6, <1>7, CountUp
<1> DEFINE D == [n \in 0..N |-> f[n].delta]
<1>9. Shifts(D, ranges)
  <2>1. \A n \in 0..N : f[n] \in Acc /\ D[n] = f[n].delta
    BY <1>8
  <2>2. D[0] = 0
    BY <1>0, <1>1
  <2>3. ASSUME NEW n \in 1..N
        PROVE  D[n] = D[n - 1] + ranges[n].width - (ranges[n].end - ranges[n].start)
    <3>1. n - 1 \in 0..N /\ n \in 0..N
      BY <1>0
    <3>2. f[n] = report[f[n - 1]][ranges[n]] /\ f[n - 1] \in Acc /\ ranges[n] \in MaskRange
      BY <1>0, <1>1, <2>1, <3>1
    <3>3. f[n] = [delta |-> After(ranges[n], f[n - 1].delta),
                  masks |-> Append(f[n - 1].masks, Report(ranges[n], f[n - 1].delta))]
      BY <1>3, <3>2
    <3>4. f[n].delta = After(ranges[n], f[n - 1].delta)
      BY <3>3
    <3> QED  BY <2>1, <3>1, <3>4 DEF After
  <2> HIDE DEF D
  <2> QED  BY <2>1, <2>2, <2>3 DEF Shifts
<1>10. DOMAIN MaskOffsets(ranges) = 1..N
  <2>1. N \in Good
    BY <1>0, <1>8
  <2>2. f[N].masks \in Reports /\ Len(f[N].masks) = N
    BY <2>1
  <2> QED  BY <1>2, <2>2
<1>11. ASSUME NEW n \in 1..N
       PROVE  MaskOffsets(ranges)[n] = [from |-> ranges[n].start + D[n - 1],
                                        to |-> ranges[n].start + D[n - 1] + ranges[n].width]
  <2>1. N \in Good /\ n - 1 \in 0..N
    BY <1>0, <1>8
  <2>2. f[N].masks[n] = Report(ranges[n], f[n - 1].delta)
    BY <2>1
  <2>3. D[n - 1] = f[n - 1].delta
    BY <2>1
  <2> QED  BY <1>2, <2>2, <2>3 DEF Report
<1> HIDE DEF D
<1> QED  BY <1>9, <1>10, <1>11

\* A sequence with the elements s + 1 to e replaced by w times -1.
Splice(t, s, e, w) == SubSeq(t, 1, s) \o Placeholder(w) \o SubSeq(t, e + 1, Len(t))

\* It is as long as it should be, and every element is known.
LEMMA Spliced ==
    ASSUME NEW t \in Seq(Int), NEW s \in Nat, NEW e \in Nat, NEW w \in Nat,
           s < e, e <= Len(t)
    PROVE  /\ Splice(t, s, e, w) \in Seq(Int)
           /\ Len(Splice(t, s, e, w)) = Len(t) + w - (e - s)
           /\ \A i \in 1..Len(Splice(t, s, e, w)) :
                  /\ i <= s => Splice(t, s, e, w)[i] = t[i]
                  /\ s < i /\ i <= s + w => Splice(t, s, e, w)[i] = -1
                  /\ s + w < i => Splice(t, s, e, w)[i] = t[i - w + (e - s)]
<1> DEFINE L == Len(t)
           head == SubSeq(t, 1, s)
           hole == Placeholder(w)
           tail == SubSeq(t, e + 1, L)
           front == head \o hole
           u == Splice(t, s, e, w)
<1>1. L \in Nat
  OBVIOUS
<1>2. head \in Seq(Int) /\ Len(head) = s /\ \A i \in 1..s : head[i] = t[i]
  BY <1>1
<1>3. hole \in Seq(Int) /\ Len(hole) = w /\ \A i \in 1..w : hole[i] = -1
  <2>1. hole = [i \in 1..w |-> -1]
    BY DEF Placeholder
  <2>2. hole \in [1..w -> Int]
    BY <2>1
  <2>3. hole \in Seq(Int)
    BY <2>2
  <2> QED  BY <2>1, <2>3
<1>4. tail \in Seq(Int) /\ Len(tail) = L - e
      /\ \A i \in 1..(L - e) : tail[i] = t[e + i]
  <2>1. tail \in Seq(Int)
        /\ Len(tail) = (IF e + 1 <= L THEN L - (e + 1) + 1 ELSE 0)
        /\ \A i \in 1..(L - (e + 1) + 1) : tail[i] = t[(e + 1) + i - 1]
    <3>1. e + 1 \in Int /\ L \in Int /\ \A i \in (e + 1)..L : t[i] \in Int
      BY <1>1
    <3> HIDE DEF L
    <3> QED  BY <3>1, SubSeqProperties
  <2>2. L - (e + 1) + 1 = L - e
    BY <1>1
  <2>3. \A i \in 1..(L - e) : (e + 1) + i - 1 = e + i
    BY <1>1
  <2> HIDE DEF tail
  <2> QED  BY <1>1, <2>1, <2>2, <2>3
<1>0. u = front \o tail
  BY DEF Splice
<1> HIDE DEF head, hole, tail, u, L
<1>5. /\ front \in Seq(Int) /\ Len(front) = s + w
      /\ \A i \in 1..(s + w) : front[i] = IF i <= s THEN head[i] ELSE hole[i - s]
  <2>1. /\ front \in Seq(Int) /\ Len(front) = Len(head) + Len(hole)
        /\ \A i \in 1..(Len(head) + Len(hole)) :
               front[i] = IF i <= Len(head) THEN head[i] ELSE hole[i - Len(head)]
    <3>1. head \in Seq(Int) /\ hole \in Seq(Int)
      BY <1>2, <1>3
    <3> QED  BY <3>1, ConcatProperties
  <2> HIDE DEF front
  <2> QED  BY <1>2, <1>3, <2>1
<1> HIDE DEF front
<1>6. /\ u \in Seq(Int) /\ Len(u) = s + w + (L - e)
      /\ \A i \in 1..(s + w + (L - e)) :
             u[i] = IF i <= s + w THEN front[i] ELSE tail[i - (s + w)]
  <2>1. /\ u \in Seq(Int) /\ Len(u) = Len(front) + Len(tail)
        /\ \A i \in 1..(Len(front) + Len(tail)) :
               u[i] = IF i <= Len(front) THEN front[i] ELSE tail[i - Len(front)]
    <3>1. front \in Seq(Int) /\ tail \in Seq(Int)
      BY <1>4, <1>5
    <3> QED  BY <1>0, <3>1, ConcatProperties
  <2> QED  BY <1>1, <1>4, <1>5, <2>1
<1>7. Len(u) = L + w - (e - s)
  BY <1>1, <1>6
<1>8. ASSUME NEW i \in 1..Len(u)
      PROVE  /\ i <= s => u[i] = t[i]
             /\ s < i /\ i <= s + w => u[i] = -1
             /\ s + w < i => u[i] = t[i - w + (e - s)]
  <2>0. i \in 1..(s + w + (L - e)) /\ i \in Nat
    BY <1>1, <1>6
  <2>1. ASSUME i <= s PROVE u[i] = t[i]
    <3>1. i <= s + w /\ i \in 1..(s + w) /\ i \in 1..s
      BY <2>0, <2>1
    <3> QED  BY <1>2, <1>5, <1>6, <2>0, <2>1, <3>1
  <2>2. ASSUME s < i, i <= s + w PROVE u[i] = -1
    <3>1. i \in 1..(s + w) /\ i - s \in 1..w /\ ~(i <= s)
      BY <2>0, <2>2
    <3> QED  BY <1>3, <1>5, <1>6, <2>0, <2>2, <3>1
  <2>3. ASSUME s + w < i PROVE u[i] = t[i - w + (e - s)]
    <3>1. i - (s + w) \in 1..(L - e) /\ ~(i <= s + w)
          /\ e + (i - (s + w)) = i - w + (e - s)
      BY <1>1, <2>0, <2>3
    <3> QED  BY <1>4, <1>6, <2>0, <3>1
  <2> QED  BY <2>1, <2>2, <2>3
<1> QED  BY <1>6, <1>7, <1>8 DEF u, L

\* The positions of the placeholder of range r in a text that is shifted there.
Hole(i, r, shift) == r.start + shift < i /\ i <= r.start + shift + r.width

\* The text when the ranges after the first j have been replaced: the characters
\* before the next range are untouched, exactly those of the replaced ranges are
\* gone, the others keep their order, and the placeholders stand in the holes.
Replaced(text, j, L, ranges, D) ==
    /\ text \in Seq(Int)
    /\ \A e \in 0..L : (\A k \in (j + 1)..Len(ranges) : e <= ranges[k].start)
           => e <= Len(text) /\ \A i \in 1..e : text[i] = i - 1
    /\ \A c \in Int : c # -1 =>
           ((\E i \in 1..Len(text) : text[i] = c) <=>
               /\ c \in 0..(L - 1)
               /\ \A k \in (j + 1)..Len(ranges) : ~(ranges[k].start <= c /\ c < ranges[k].end))
    /\ \A a, b \in 1..Len(text) :
           a < b /\ text[a] # -1 /\ text[b] # -1 => text[a] < text[b]
    /\ \A i \in Int : (i \in 1..Len(text) /\ text[i] = -1) <=>
           \E k \in (j + 1)..Len(ranges) : Hole(i, ranges[k], D[k - 1] - D[j])

\* One more range is replaced.
LEMMA ReplacesOne ==
    ASSUME NEW L \in Nat, NEW ranges \in Seq(MaskRange), Apart(ranges),
           \A n \in 1..Len(ranges) : ranges[n].end <= L,
           NEW D, Shifts(D, ranges),
           NEW j \in 1..Len(ranges), NEW t, Replaced(t, j, L, ranges, D)
    PROVE  Replaced(ReplaceRange(t, ranges[j]), j - 1, L, ranges, D)
<1> DEFINE N == Len(ranges)
           r == ranges[j]
           s == r.start
           e == r.end
           w == r.width
           u == Splice(t, s, e, w)
<1>0. ReplaceRange(t, r) = u
  BY DEF ReplaceRange, Splice
<1>1. /\ N \in Nat /\ r \in MaskRange /\ s \in Nat /\ e \in Nat /\ w \in Nat
      /\ s < e /\ e <= L /\ (j - 1) + 1 = j /\ j \in Nat
  <2>1. r \in MaskRange /\ N \in Nat
    OBVIOUS
  <2> QED  BY <2>1 DEF MaskRange, Apart
<1>2. t \in Seq(Int) /\ Len(t) \in Nat
  BY DEF Replaced
<1>3. \A k \in (j + 1)..N : k \in 1..N /\ j < k /\ e <= ranges[k].start
                            /\ ranges[k].start \in Nat /\ ranges[k].end \in Nat
                            /\ ranges[k].start < ranges[k].end
  <2>1. \A k \in (j + 1)..N : k \in 1..N /\ j < k
    BY <1>1
  <2>2. \A k \in 1..N : ranges[k] \in MaskRange
    OBVIOUS
  <2>3. \A k \in 1..N : ranges[k].start \in Nat /\ ranges[k].end \in Nat
    BY <2>2 DEF MaskRange
  <2> QED  BY <2>1, <2>3 DEF Apart
<1>4. e <= Len(t) /\ \A i \in 1..e : t[i] = i - 1
  <2>1. e \in 0..L
    BY <1>1
  <2> QED  BY <1>3, <2>1 DEF Replaced
<1>5. /\ u \in Seq(Int) /\ Len(u) = Len(t) + w - (e - s)
      /\ \A i \in 1..Len(u) :
             /\ i <= s => u[i] = t[i]
             /\ s < i /\ i <= s + w => u[i] = -1
             /\ s + w < i => u[i] = t[i - w + (e - s)]
  <2> HIDE DEF s, e, w
  <2>1. s \in Nat /\ e \in Nat /\ w \in Nat /\ s < e /\ e <= Len(t) /\ t \in Seq(Int)
    BY <1>1, <1>2, <1>4
  <2> QED  BY <2>1, Spliced
<1>6. D[j] = D[j - 1] + w - (e - s) /\ D[j] \in Int /\ D[j - 1] \in Int
  <2>1. j \in 0..N /\ j - 1 \in 0..N
    BY <1>1
  <2> QED  BY <2>1 DEF Shifts
<1>7. \A a \in 1..Len(t) : e < a /\ t[a] # -1 => t[a] \in Int /\ t[a] > e - 1
  <2> SUFFICES ASSUME NEW a \in 1..Len(t), e < a, t[a] # -1
               PROVE  t[a] \in Int /\ t[a] > e - 1
    OBVIOUS
  <2>1. e \in 1..Len(t) /\ t[e] = e - 1 /\ t[e] # -1
    <3> HIDE DEF s, e, w
    <3>1. e \in 1..e /\ e \in 1..Len(t)
      BY <1>1, <1>2, <1>4
    <3> QED  BY <1>1, <1>4, <3>1
  <2>2. t[e] < t[a]
    BY <2>1 DEF Replaced
  <2>3. t[a] \in Int
    BY <1>2
  <2> QED  BY <2>1, <2>2, <2>3
<1>8. \A k \in j..N : k = j \/ k \in (j + 1)..N
  BY <1>1
<1>9. j \in j..N /\ \A k \in (j + 1)..N : k \in j..N
  BY <1>1
<1> HIDE DEF u
\* The positions of the new text and where their characters come from.
<1>10. \A i \in 1..Len(u) : \/ i <= s /\ i \in 1..Len(t) /\ u[i] = i - 1
                            \/ s < i /\ i <= s + w /\ u[i] = -1
                            \/ /\ s + w < i /\ i - w + (e - s) \in 1..Len(t)
                               /\ e < i - w + (e - s)
                               /\ u[i] = t[i - w + (e - s)]
  <2> SUFFICES ASSUME NEW i \in 1..Len(u)
               PROVE  \/ i <= s /\ i \in 1..Len(t) /\ u[i] = i - 1
                      \/ s < i /\ i <= s + w /\ u[i] = -1
                      \/ /\ s + w < i /\ i - w + (e - s) \in 1..Len(t)
                         /\ e < i - w + (e - s)
                         /\ u[i] = t[i - w + (e - s)]
    OBVIOUS
  <2> HIDE DEF r, s, e, w
  <2>1. CASE i <= s
    BY <1>1, <1>2, <1>4, <1>5, <2>1
  <2>2. CASE s < i /\ i <= s + w
    BY <1>1, <1>2, <1>4, <1>5, <2>2
  <2>3. CASE s + w < i
    <3>1. i - w + (e - s) \in 1..Len(t) /\ e < i - w + (e - s)
      BY <1>1, <1>2, <1>4, <1>5, <2>3
    <3> QED  BY <1>5, <2>3, <3>1
  <2>4. i \in Nat
    BY <1>1, <1>2, <1>5
  <2> QED  BY <1>1, <2>1, <2>2, <2>3, <2>4
<1>11. /\ \A a \in 1..s : a \in 1..Len(u) /\ u[a] = a - 1
       /\ \A a \in 1..Len(t) : e < a =>
              a + w - (e - s) \in 1..Len(u) /\ u[a + w - (e - s)] = t[a]
  <2> HIDE DEF r, s, e, w
  <2>1. ASSUME NEW a \in 1..s PROVE a \in 1..Len(u) /\ u[a] = a - 1
    BY <1>1, <1>2, <1>4, <1>5, <2>1
  <2>2. ASSUME NEW a \in 1..Len(t), e < a
        PROVE  a + w - (e - s) \in 1..Len(u) /\ u[a + w - (e - s)] = t[a]
    <3>1. a + w - (e - s) \in 1..Len(u) /\ s + w < a + w - (e - s)
          /\ (a + w - (e - s)) - w + (e - s) = a
      BY <1>1, <1>2, <1>4, <1>5, <2>2
    <3> QED  BY <1>5, <3>1
  <2> QED  BY <2>1, <2>2
<1>12. /\ s <= Len(u) /\ \A i \in 1..Len(u) : i \in Int
       /\ Len(u) \in Nat /\ \A a \in 1..Len(t) : a \in Int
  <2> HIDE DEF r, s, e, w
  <2> QED  BY <1>1, <1>2, <1>4, <1>5
<1> HIDE DEF r, s, e, w
<1>13. ASSUME NEW c \in 0..L, \A k \in j..N : c <= ranges[k].start
       PROVE  c <= Len(u) /\ \A i \in 1..c : u[i] = i - 1
  <2>1. c <= s
    BY <1>9, <1>13 DEF s, r
  <2>2. \A i \in 1..c : i \in 1..s
    BY <1>1, <2>1
  <2> QED  BY <1>1, <1>11, <1>12, <2>1, <2>2
<1>14. ASSUME NEW c \in Int, c # -1
       PROVE  (\E i \in 1..Len(u) : u[i] = c) <=>
                  /\ c \in 0..(L - 1)
                  /\ \A k \in j..N : ~(ranges[k].start <= c /\ c < ranges[k].end)
  <2>1. (\E i \in 1..Len(t) : t[i] = c) <=>
            /\ c \in 0..(L - 1)
            /\ \A k \in (j + 1)..N : ~(ranges[k].start <= c /\ c < ranges[k].end)
    BY <1>14 DEF Replaced
  <2>2. ASSUME NEW i \in 1..Len(u), u[i] = c
        PROVE  /\ c \in 0..(L - 1)
               /\ \A k \in j..N : ~(ranges[k].start <= c /\ c < ranges[k].end)
    <3>1. CASE i <= s
      <4>1. c = i - 1
        BY <1>1, <1>10, <1>12, <2>2, <3>1
      <4>2. c \in 0..(L - 1) /\ c < s
        BY <1>1, <1>12, <3>1, <4>1
      <4>3. ~(s <= c /\ c < e)
        BY <1>1, <4>2
      <4>4. \A k \in (j + 1)..N : ~(ranges[k].start <= c)
        BY <1>1, <1>3, <4>2
      <4> QED  BY <1>8, <4>2, <4>3, <4>4 DEF s, e, r
    <3>2. CASE ~(i <= s)
      <4>1. /\ i - w + (e - s) \in 1..Len(t) /\ e < i - w + (e - s)
            /\ u[i] = t[i - w + (e - s)]
        BY <1>1, <1>10, <1>12, <1>14, <2>2, <3>2
      <4>2. c > e - 1
        BY <1>7, <1>14, <2>2, <4>1
      <4>3. ~(s <= c /\ c < e)
        BY <1>1, <4>2
      <4> QED  BY <1>8, <2>1, <2>2, <4>1, <4>3 DEF s, e, r
    <3> QED  BY <3>1, <3>2
  <2>3. ASSUME c \in 0..(L - 1),
               \A k \in j..N : ~(ranges[k].start <= c /\ c < ranges[k].end)
        PROVE  \E i \in 1..Len(u) : u[i] = c
    <3>1. ~(s <= c /\ c < e)
      BY <1>9, <2>3 DEF s, e, r
    <3>2. PICK a \in 1..Len(t) : t[a] = c
      BY <1>9, <2>1, <2>3
    <3>3. CASE c < s
      <4>1. c + 1 \in 1..s /\ (c + 1) - 1 = c
        BY <1>1, <2>3, <3>3
      <4> QED  BY <1>11, <4>1
    <3>4. CASE c >= e
      <4>1. e < a
        <5>1. ~(a \in 1..e)
          BY <1>1, <1>4, <3>2, <3>4
        <5> QED  BY <1>1, <1>2, <5>1
      <4> QED  BY <1>11, <3>2, <4>1
    <3> QED  BY <1>1, <3>1, <3>3, <3>4
  <2> QED  BY <2>2, <2>3
<1>15. ASSUME NEW a \in 1..Len(u), NEW b \in 1..Len(u), a < b, u[a] # -1, u[b] # -1
       PROVE  u[a] < u[b]
  <2> DEFINE x == a - w + (e - s)
             y == b - w + (e - s)
  <2>1. a \in Int /\ b \in Int /\ x \in Int /\ y \in Int
    BY <1>1, <1>12
  <2>2. \/ a <= s /\ u[a] = a - 1
        \/ s < a /\ x \in 1..Len(t) /\ e < x /\ u[a] = t[x]
    BY <1>1, <1>10, <1>15, <2>1
  <2>3. \/ b <= s /\ u[b] = b - 1
        \/ s < b /\ y \in 1..Len(t) /\ e < y /\ u[b] = t[y]
    BY <1>1, <1>10, <1>15, <2>1
  <2>4. CASE b <= s
    BY <1>1, <1>15, <2>1, <2>2, <2>3, <2>4
  <2>5. CASE a <= s /\ s < b
    <3>1. y \in 1..Len(t) /\ e < y /\ u[b] = t[y] /\ u[a] = a - 1
      BY <1>1, <2>1, <2>2, <2>3, <2>5
    <3>2. t[y] \in Int /\ t[y] > e - 1
      BY <1>7, <1>15, <3>1
    <3> DEFINE v == t[y]
    <3>3. u[b] = v /\ v \in Int /\ v > e - 1 /\ u[a] = a - 1
      BY <3>1, <3>2
    <3>4. s \in Nat /\ e \in Nat /\ s < e /\ a \in Int
      BY <1>1, <2>1
    <3> HIDE DEF x, y, v
    <3> QED  BY <2>5, <3>3, <3>4
  <2>6. CASE s < a
    <3>0. ~(a <= s) /\ ~(b <= s)
      BY <1>1, <1>15, <2>1, <2>6
    <3>1. x \in 1..Len(t) /\ y \in 1..Len(t) /\ u[a] = t[x] /\ u[b] = t[y]
      <4> HIDE DEF x, y
      <4> QED  BY <2>2, <2>3, <3>0
    <3>2. x < y
      BY <1>1, <1>15, <2>1
    <3>3. t[x] # -1 /\ t[y] # -1
      BY <1>15, <3>1
    <3>4. \A k, l \in 1..Len(t) : k < l /\ t[k] # -1 /\ t[l] # -1 => t[k] < t[l]
      BY DEF Replaced
    <3> HIDE DEF x, y
    <3> QED  BY <3>1, <3>2, <3>3, <3>4
  <2> QED  BY <1>1, <2>1, <2>4, <2>5, <2>6
<1>16. ASSUME NEW i \in Int
       PROVE  (i \in 1..Len(u) /\ u[i] = -1) <=> \E k \in j..N : Hole(i, ranges[k], D[k - 1] - D[j - 1])
  <2> DEFINE x == i - w + (e - s)
  <2>0. x \in Int
    BY <1>1
  <2>1. Hole(i, r, D[j - 1] - D[j - 1]) <=> (s < i /\ i <= s + w)
    BY <1>1, <1>6 DEF Hole, s, w, r
  <2>2. ASSUME NEW k \in (j + 1)..N
        PROVE  Hole(i, ranges[k], D[k - 1] - D[j - 1]) <=> Hole(x, ranges[k], D[k - 1] - D[j])
    <3>1. k \in 1..N /\ k - 1 \in 0..N /\ ranges[k] \in MaskRange
      BY <1>1, <1>3
    <3>2. D[k - 1] \in Int /\ ranges[k].start \in Nat /\ ranges[k].width \in Nat
      BY <3>1 DEF Shifts, MaskRange
    <3>3. \A q \in MaskRange, a, b \in Int :
              b = a - (w - (e - s)) => (Hole(i, q, a) <=> Hole(x, q, b))
      <4> SUFFICES ASSUME NEW q \in MaskRange, NEW a \in Int, NEW b \in Int,
                          b = a - (w - (e - s))
                   PROVE  Hole(i, q, a) <=> Hole(x, q, b)
        OBVIOUS
      <4>1. q.start \in Nat /\ q.width \in Nat
        BY DEF MaskRange
      <4> DEFINE d == w - (e - s)
      <4>2. d \in Int /\ x = i - d /\ b = a - d
        BY <1>1
      <4> HIDE DEF d, x
      <4>3. q.start + b < x <=> q.start + a < i
        BY <4>1, <4>2
      <4>4. x <= q.start + b + q.width <=> i <= q.start + a + q.width
        <5>1. q.start + b + q.width = (q.start + a + q.width) - d
          BY <4>1, <4>2
        <5>2. q.start + a + q.width \in Int
          BY <4>1
        <5> QED  BY <4>2, <5>1, <5>2
      <4> QED  BY <4>3, <4>4 DEF Hole
    <3> DEFINE a == D[k - 1] - D[j - 1]
               b == D[k - 1] - D[j]
    <3>4. a \in Int /\ b \in Int /\ b = a - (w - (e - s))
      <4>1. w \in Nat /\ s \in Nat /\ e \in Nat
        BY <1>1
      <4> QED  BY <1>6, <3>2, <4>1
    <3> HIDE DEF a, b, x
    <3>5. Hole(i, ranges[k], a) <=> Hole(x, ranges[k], b)
      BY <3>1, <3>3, <3>4
    <3> QED  BY <3>5 DEF a, b
  <2>3. (x \in 1..Len(t) /\ t[x] = -1) <=> \E k \in (j + 1)..N : Hole(x, ranges[k], D[k - 1] - D[j])
    BY <2>0 DEF Replaced
  <2>4. (\E k \in j..N : Hole(i, ranges[k], D[k - 1] - D[j - 1])) <=>
            (s < i /\ i <= s + w) \/ (x \in 1..Len(t) /\ t[x] = -1)
    <3> DEFINE new(k) == Hole(i, ranges[k], D[k - 1] - D[j - 1])
               old(k) == Hole(x, ranges[k], D[k - 1] - D[j])
    <3>1. new(j) <=> (s < i /\ i <= s + w)
      BY <2>1 DEF r
    <3>2. \A k \in (j + 1)..N : new(k) <=> old(k)
      BY <2>2
    <3>3. (x \in 1..Len(t) /\ t[x] = -1) <=> \E k \in (j + 1)..N : old(k)
      BY <2>3
    <3> HIDE DEF x, new, old
    <3>4. (\E k \in j..N : new(k)) <=> new(j) \/ \E k \in (j + 1)..N : old(k)
      BY <1>8, <1>9, <3>2
    <3>5. (\E k \in j..N : new(k)) <=>
              (s < i /\ i <= s + w) \/ (x \in 1..Len(t) /\ t[x] = -1)
      BY <3>1, <3>3, <3>4
    <3> QED  BY <3>5 DEF new
  <2>5. ASSUME i \in 1..Len(u), u[i] = -1
        PROVE  (s < i /\ i <= s + w) \/ (x \in 1..Len(t) /\ t[x] = -1)
    BY <1>10, <2>5
  <2>6. ASSUME s < i, i <= s + w PROVE i \in 1..Len(u) /\ u[i] = -1
    <3>1. i \in 1..Len(u)
      BY <1>1, <1>2, <1>4, <1>5, <2>6
    <3> QED  BY <1>5, <2>6, <3>1
  <2>7. ASSUME x \in 1..Len(t), t[x] = -1 PROVE i \in 1..Len(u) /\ u[i] = -1
    <3>1. ~(x <= e)
      <4> SUFFICES ASSUME x <= e PROVE FALSE
        OBVIOUS
      <4>1. x \in 1..e
        BY <1>1, <1>2, <2>7
      <4>2. t[x] = x - 1 /\ x \in Nat
        BY <1>1, <1>4, <4>1
      <4> HIDE DEF x
      <4> QED  BY <2>7, <4>2
    <3>2. e < x /\ x + w - (e - s) = i
      BY <1>1, <2>0, <3>1
    <3> HIDE DEF x
    <3> QED  BY <1>11, <2>7, <3>2
  <2> QED  BY <2>4, <2>5, <2>6, <2>7
<1>17. Replaced(u, j - 1, L, ranges, D)
  <2>1. (j - 1) + 1 = j
    BY <1>1
  <2> HIDE DEF u
  <2> QED  BY <1>5, <1>13, <1>14, <1>15, <1>16, <2>1, Zenon DEF Replaced
<1> QED  BY <1>0, <1>17 DEF r

\* All ranges replaced, from the last to the first.
LEMMA TextMasked ==
    ASSUME NEW L \in Nat, NEW ranges \in Seq(MaskRange), Apart(ranges),
           \A n \in 1..Len(ranges) : ranges[n].end <= L,
           NEW D, Shifts(D, ranges)
    PROVE  Replaced(MaskText(L, ranges), 0, L, ranges, D)
<1> DEFINE N == Len(ranges)
           plain == [i \in 1..L |-> i - 1]
<1>1. N \in Nat /\ \A n \in 1..N : ranges[n] \in MaskRange
  OBVIOUS
<1>2. PICK f : /\ f[N] = plain
               /\ \A n \in 1..N : f[n - 1] = Replacing[f[n]][ranges[n]]
               /\ FoldBack(Replacing, plain, ranges) = f[0]
  <2> HIDE DEF plain
  <2> QED  BY FoldBackRuns
<1>3. MaskText(L, ranges) = f[0]
  BY <1>2 DEF MaskText
<1>4. Replaced(plain, N, L, ranges, D)
  <2>1. plain \in Seq(Int) /\ Len(plain) = L /\ \A i \in 1..L : plain[i] = i - 1
    <3>1. plain \in [1..L -> Int]
      OBVIOUS
    <3> QED  BY <3>1
  <2>2. (N + 1)..N = {}
    BY <1>1
  <2> HIDE DEF plain
  <2>3. \A c \in Int : c # -1 => ((\E i \in 1..L : plain[i] = c) <=> c \in 0..(L - 1))
    <3> SUFFICES ASSUME NEW c \in Int PROVE (\E i \in 1..L : plain[i] = c) <=> c \in 0..(L - 1)
      OBVIOUS
    <3>1. ASSUME c \in 0..(L - 1) PROVE \E i \in 1..L : plain[i] = c
      <4>1. c + 1 \in 1..L /\ (c + 1) - 1 = c
        BY <3>1
      <4> QED  BY <2>1, <4>1
    <3>2. ASSUME NEW i \in 1..L, plain[i] = c PROVE c \in 0..(L - 1)
      BY <2>1, <3>2
    <3> QED  BY <3>1, <3>2
  <2>4. \A e \in 0..L : e <= L /\ \A i \in 1..e : plain[i] = i - 1
    BY <2>1
  <2>5. \A a, b \in 1..L : a < b => plain[a] < plain[b]
    BY <2>1
  <2>6. \A i \in 1..L : plain[i] # -1
    BY <2>1
  <2> QED  BY <2>1, <2>2, <2>3, <2>4, <2>5, <2>6 DEF Replaced
<1> DEFINE Good == {n \in 0..N : Replaced(f[n], n, L, ranges, D)}
<1>5. N \in Good
  <2>1. N \in 0..N
    BY <1>1
  <2> QED  BY <1>2, <1>4, <2>1
<1>6. ASSUME NEW n \in 1..N, n \in Good PROVE n - 1 \in Good
  <2>1. n - 1 \in 0..N
    BY <1>1
  <2>2. Replaced(f[n], n, L, ranges, D) /\ f[n] \in Seq(Int) /\ ranges[n] \in MaskRange
    BY <1>1, <1>6 DEF Replaced
  <2>3. Replaced(ReplaceRange(f[n], ranges[n]), n - 1, L, ranges, D)
    BY <2>2, ReplacesOne
  <2>4. f[n - 1] = ReplaceRange(f[n], ranges[n])
    BY <1>2, <2>2 DEF Replacing
  <2> QED  BY <2>1, <2>3, <2>4
<1>7. 0 \in Good
  <2> HIDE DEF Good
  <2>1. 0 \in 0..N
    BY <1>1
  <2> QED  BY <1>1, <1>5, <1>6, <2>1, CountDown
<1> QED  BY <1>3, <1>7

\* The risk score is a number.
LEMMA RiskScoreType ==
    ASSUME NEW spans \in Seq(Span)
    PROVE  RiskScore(spans) \in Nat
<1> DEFINE N == Len(spans)
           add == [total \in Nat |-> [s \in Span |-> total + CategoryWeight[Category[s.detector]]]]
<1>1. PICK f : /\ f[0] = 0
               /\ \A n \in 1..N : f[n] = add[f[n - 1]][spans[n]]
               /\ Fold(add, 0, spans) = f[N]
  <2> HIDE DEF add
  <2> QED  BY FoldRuns
<1>2. \A s \in Span : CategoryWeight[Category[s.detector]] \in Nat
  BY DEF Span, Detectors, Category, CategoryWeight
<1>3. \A total \in Nat, s \in Span :
          add[total][s] = total + CategoryWeight[Category[s.detector]]
  OBVIOUS
<1>4. \A total \in Nat, s \in Span : add[total][s] \in Nat
  <2> HIDE DEF add
  <2> QED  BY <1>2, <1>3
<1> HIDE DEF add
<1>5. N \in Nat /\ \A n \in 1..N : spans[n] \in Span
  OBVIOUS
<1> DEFINE Good == {n \in 0..N : f[n] \in Nat}
<1>6. 0 \in Good
  BY <1>1, <1>5
<1>7. ASSUME NEW n \in 1..N, n - 1 \in Good PROVE n \in Good
  <2>1. n \in 0..N /\ f[n - 1] \in Nat
    BY <1>5, <1>7
  <2> QED  BY <1>1, <1>4, <1>5, <2>1
<1>8. N \in Good
  <2> HIDE DEF Good
  <2>1. N \in 0..N
    BY <1>5
  <2> QED  BY <1>5, <1>6, <1>7, <2>1, CountUp
<1>9. f[N] \in Nat
  BY <1>8
<1>10. \E m \in {100, f[N]} : \A k \in {100, f[N]} : m <= k
  BY <1>9
<1>11. Min({100, f[N]}) \in {100, f[N]}
  BY <1>10 DEF Min
<1>12. RiskScore(spans) = Min({100, f[N]})
  BY <1>1 DEF RiskScore, add
<1> QED  BY <1>9, <1>11, <1>12

\* MaskedAsReported of one processed prompt, and OverlapsResolved of it.
AsReported(out, prompt, t) ==
    LET chars == Range(out.masked) \ {-1}
        gone  == UNION {s.start..(s.end - 1) : s \in Range(out.spans)}
    IN  /\ chars = (0..(prompt.length - 1)) \ gone
        /\ {i \in 1..Len(out.masked) : out.masked[i] = -1}
               = UNION {(m.from + 1)..m.to : m \in Range(out.masks)}
        /\ \A i, j \in 1..Len(out.masked) :
               i < j /\ out.masked[i] # -1 /\ out.masked[j] # -1
                   => out.masked[i] < out.masked[j]
        /\ RiskScore(out.spans) >= t.mask => out.text = out.masked

Resolved(out, prompt) ==
    LET kept == Range(out.spans)
    IN  /\ \A a, b \in kept : a # b => (a.start..(a.end - 1)) \cap (b.start..(b.end - 1)) = {}
        /\ \A c \in prompt.candidates : \E s \in kept :
               /\ (c.start..(c.end - 1)) \cap (s.start..(s.end - 1)) # {}
               /\ Priority[s.detector] >= Priority[c.detector]

\* What a prompt's matches may be.
Plausible(prompt) ==
    /\ prompt.length \in Nat /\ Matches(prompt.candidates)
    /\ \A c \in prompt.candidates : c.end <= prompt.length

\* The detections of a prompt are disjoint and cost no match its effect.
LEMMA PromptResolved ==
    ASSUME NEW prompt, Plausible(prompt), NEW exceeded, NEW t
    PROVE  Resolved(ProcessPrompt(prompt, exceeded, t), prompt)
<1> DEFINE candidates == prompt.candidates
           spans == DetectPii(candidates)
           kept == RemoveOverlaps(candidates)
<1>1. ProcessPrompt(prompt, exceeded, t).spans = spans
  BY DEF ProcessPrompt
<1>2. Matches(candidates)
  BY DEF Plausible
<1>3. Range(spans) = kept
  <2> HIDE DEF candidates
  <2> QED  BY <1>2, Detections
<1>4. /\ kept \subseteq candidates /\ Disjoint(kept)
      /\ \A c \in candidates : \E s \in kept :
             /\ s = c \/ SpansOverlap(c, s)
             /\ Priority[s.detector] >= Priority[c.detector]
  <2> HIDE DEF candidates
  <2> QED  BY <1>2, Greedy
<1>5. \A a \in candidates : a.start \in Nat /\ a.end \in Nat /\ a.start < a.end
  BY <1>2 DEF Matches, Span
<1> HIDE DEF kept, spans, candidates
<1>6. ASSUME NEW a \in kept, NEW b \in kept, a # b
      PROVE  (a.start..(a.end - 1)) \cap (b.start..(b.end - 1)) = {}
  <2>1. ~(a.start < b.end /\ b.start < a.end)
    BY <1>4, <1>6 DEF Disjoint, SpansOverlap
  <2>2. a.start \in Nat /\ a.end \in Nat /\ b.start \in Nat /\ b.end \in Nat
    BY <1>4, <1>5
  <2>3. \A x \in Int : ~(a.start <= x /\ x <= a.end - 1 /\ b.start <= x /\ x <= b.end - 1)
    BY <2>1, <2>2
  <2> QED  BY <2>2, <2>3
<1>7. ASSUME NEW c \in candidates
      PROVE  \E s \in kept : /\ (c.start..(c.end - 1)) \cap (s.start..(s.end - 1)) # {}
                             /\ Priority[s.detector] >= Priority[c.detector]
  <2>1. PICK s \in kept : /\ s = c \/ SpansOverlap(c, s)
                          /\ Priority[s.detector] >= Priority[c.detector]
    BY <1>4
  <2>2. /\ c.start \in Nat /\ c.end \in Nat /\ s.start \in Nat /\ s.end \in Nat
        /\ c.start < c.end /\ s.start < s.end
    BY <1>4, <1>5
  <2>3. \E x \in {c.start, s.start} : /\ c.start <= x /\ x <= c.end - 1
                                      /\ s.start <= x /\ x <= s.end - 1
    BY <2>1, <2>2 DEF SpansOverlap
  <2>4. (c.start..(c.end - 1)) \cap (s.start..(s.end - 1)) # {}
    BY <2>2, <2>3
  <2> QED  BY <2>1, <2>4
<1> QED  BY <1>1, <1>3, <1>6, <1>7 DEF Resolved, candidates

\* The masked text of a prompt is as reported, and it is what may be sent once
\* the risk reaches the mask threshold.
LEMMA PromptMasked ==
    ASSUME NEW prompt, Plausible(prompt), PlaceholderAssumption, NEW exceeded,
           NEW t, t.mask \in Nat, t.block \in Nat,
           ProcessPrompt(prompt, exceeded, t).action # "BLOCK"
    PROVE  AsReported(ProcessPrompt(prompt, exceeded, t), prompt, t)
<1> DEFINE out == ProcessPrompt(prompt, exceeded, t)
           L == prompt.length
           spans == DetectPii(prompt.candidates)
           ranges == NormalizeMaskRanges(spans)
           N == Len(spans)
           score == RiskScore(spans)
<1>1. /\ out.spans = spans /\ out.masks = MaskOffsets(ranges)
      /\ out.masked = MaskText(L, ranges)
      /\ out.action = EvaluatePolicy(score, exceeded, t)
      /\ out.action = "ALLOW_WITH_MASK" => out.text = out.masked
  BY DEF ProcessPrompt
<1>2. /\ spans \in Seq(Span) /\ N \in Nat /\ L \in Nat
      /\ \A n \in 1..N : spans[n].start < spans[n].end /\ spans[n].end <= L
      /\ \A m, n \in 1..N : m < n => spans[m].end <= spans[n].start
      /\ \A n \in 1..N : spans[n].start \in Nat /\ spans[n].end \in Nat
  <2>1. /\ spans \in Seq(prompt.candidates) /\ N \in Nat
        /\ \A m, n \in 1..N : m < n => spans[m].end <= spans[n].start
    BY Detections DEF Plausible
  <2>2. prompt.candidates \subseteq Span
    BY DEF Plausible, Matches
  <2> HIDE DEF spans
  <2>3. \A n \in 1..N : spans[n] \in prompt.candidates
    BY <2>1
  <2>4. spans \in Seq(Span)
    BY <2>1, <2>2, <2>3
  <2>5. \A n \in 1..N : /\ spans[n].start < spans[n].end /\ spans[n].end <= L
                        /\ spans[n].start \in Nat /\ spans[n].end \in Nat
    BY <2>2, <2>3 DEF Plausible, Matches, Span
  <2> QED  BY <2>1, <2>4, <2>5 DEF Plausible
<1> HIDE DEF spans
<1>3. /\ ranges \in Seq(MaskRange) /\ Len(ranges) = N
      /\ \A n \in 1..N : ranges[n].start = spans[n].start /\ ranges[n].end = spans[n].end
                         /\ ranges[n].width \in Nat
  <2>1. Apart(spans)
    BY <1>2 DEF Apart
  <2>2. /\ ranges \in Seq(MaskRange) /\ Len(ranges) = N
        /\ \A n \in 1..N :
               ranges[n] = [start |-> spans[n].start, end |-> spans[n].end,
                            width |-> PlaceholderLength[spans[n].detector]]
    BY <1>2, <2>1, NothingMerged
  <2> HIDE DEF ranges
  <2>3. \A n \in 1..N : ranges[n] \in MaskRange
    BY <2>2
  <2>4. \A n \in 1..N : ranges[n].width \in Nat
    BY <2>3 DEF MaskRange
  <2>5. ASSUME NEW n \in 1..N
        PROVE  ranges[n].start = spans[n].start /\ ranges[n].end = spans[n].end
    <3>1. ranges[n] = [start |-> spans[n].start, end |-> spans[n].end,
                       width |-> PlaceholderLength[spans[n].detector]]
      BY <2>2
    <3> QED  BY <3>1
  <2> QED  BY <2>2, <2>4, <2>5
<1> HIDE DEF ranges
<1>4. Apart(ranges) /\ \A n \in 1..Len(ranges) : ranges[n].end <= L
  BY <1>2, <1>3 DEF Apart
<1>5. PICK D : /\ Shifts(D, ranges)
               /\ DOMAIN MaskOffsets(ranges) = 1..Len(ranges)
               /\ \A n \in 1..Len(ranges) : MaskOffsets(ranges)[n] =
                      [from |-> ranges[n].start + D[n - 1],
                       to |-> ranges[n].start + D[n - 1] + ranges[n].width]
  BY <1>3, OffsetsReported
<1> DEFINE masked == MaskText(L, ranges)
           masks == MaskOffsets(ranges)
<1>6. Replaced(masked, 0, L, ranges, D)
  BY <1>2, <1>3, <1>4, <1>5, TextMasked
<1> HIDE DEF masked, masks, out
<1>7. masked \in Seq(Int) /\ (0 + 1)..Len(ranges) = 1..N
  BY <1>3, <1>6 DEF Replaced
<1>8. Range(masked) \ {-1} = (0..(L - 1)) \ UNION {s.start..(s.end - 1) : s \in Range(spans)}
  <2>1. \A c \in Int : c # -1 =>
            ((\E i \in 1..Len(masked) : masked[i] = c) <=>
                /\ c \in 0..(L - 1)
                /\ \A k \in 1..N : ~(spans[k].start <= c /\ c < spans[k].end))
    BY <1>3, <1>6, <1>7 DEF Replaced
  <2>2. \A c : c \in Range(masked) <=> \E i \in 1..Len(masked) : masked[i] = c
    BY <1>7 DEF Range
  <2>3. \A c \in Range(masked) : c \in Int
    BY <1>7, <2>2
  <2>4. \A c : (\E s \in Range(spans) : c \in s.start..(s.end - 1)) <=>
               (\E k \in 1..N : c \in spans[k].start..(spans[k].end - 1))
    BY <1>2 DEF Range
  <2>5. \A c \in Int, k \in 1..N : c \in spans[k].start..(spans[k].end - 1) <=>
                                   spans[k].start <= c /\ c < spans[k].end
    BY <1>2
  <2>6. \A c \in 0..(L - 1) : c \in Int /\ c # -1
    BY <1>2
  <2> HIDE DEF N
  <2>7. ASSUME NEW c, c \in Range(masked) \ {-1}
        PROVE  c \in 0..(L - 1) /\ ~\E s \in Range(spans) : c \in s.start..(s.end - 1)
    <3>1. c \in Int /\ c # -1 /\ \E i \in 1..Len(masked) : masked[i] = c
      BY <2>2, <2>3, <2>7
    <3>2. /\ c \in 0..(L - 1)
          /\ \A k \in 1..N : ~(spans[k].start <= c /\ c < spans[k].end)
      BY <2>1, <3>1
    <3>3. \A k \in 1..N : c \notin spans[k].start..(spans[k].end - 1)
      BY <2>5, <3>1, <3>2
    <3> QED  BY <2>4, <3>2, <3>3
  <2>8. ASSUME NEW c \in 0..(L - 1), ~\E s \in Range(spans) : c \in s.start..(s.end - 1)
        PROVE  c \in Range(masked) \ {-1}
    <3>1. c \in Int /\ c # -1
      BY <2>6
    <3>2. \E i \in 1..Len(masked) : masked[i] = c
      BY <2>1, <2>4, <2>5, <2>8, <3>1
    <3> QED  BY <2>2, <3>1, <3>2
  <2> QED  BY <2>7, <2>8
<1>9. {i \in 1..Len(masked) : masked[i] = -1} = UNION {(m.from + 1)..m.to : m \in Range(masks)}
  <2>1. \A i \in Int : (i \in 1..Len(masked) /\ masked[i] = -1) <=>
            \E k \in 1..N : Hole(i, ranges[k], D[k - 1] - D[0])
    BY <1>6, <1>7 DEF Replaced
  <2>2. \A m : m \in Range(masks) <=> \E k \in 1..N : m = masks[k]
    BY <1>3, <1>5 DEF Range, masks
  <2>3. ASSUME NEW i, NEW k \in 1..N
        PROVE  /\ i \in (masks[k].from + 1)..masks[k].to <=>
                      i \in Int /\ Hole(i, ranges[k], D[k - 1] - D[0])
    <3>1. masks[k] = [from |-> ranges[k].start + D[k - 1],
                      to |-> ranges[k].start + D[k - 1] + ranges[k].width]
      BY <1>3, <1>5 DEF masks
    <3>2. k - 1 \in 0..N /\ D[k - 1] \in Int /\ D[0] = 0
      BY <1>2, <1>3, <1>5 DEF Shifts
    <3>3. ranges[k].start \in Nat /\ ranges[k].width \in Nat
      BY <1>2, <1>3
    <3> DEFINE a == ranges[k].start + D[k - 1]
               b == ranges[k].start + D[k - 1] + ranges[k].width
    <3>4. a \in Int /\ b \in Int
      <4>1. \A x, y \in Nat, d \in Int : x + d \in Int /\ x + d + y \in Int
        OBVIOUS
      <4> QED  BY <3>2, <3>3, <4>1
    <3>6. masks[k].from = a /\ masks[k].to = b
      BY <3>1
    <3>5. Hole(i, ranges[k], D[k - 1] - D[0]) <=> a < i /\ i <= b
      <4>1. D[k - 1] - D[0] = D[k - 1]
        BY <3>2
      <4> QED  BY <3>2, <3>3, <4>1 DEF Hole
    <3> HIDE DEF a, b
    <3>7. i \in (a + 1)..b <=> i \in Int /\ a < i /\ i <= b
      BY <3>4
    <3> QED  BY <3>5, <3>6, <3>7
  <2>4. \A i : i \in 1..Len(masked) => i \in Int
    OBVIOUS
  <2> HIDE DEF N
  <2>5. \A i : (\E m \in Range(masks) : i \in (m.from + 1)..m.to) <=>
             i \in Int /\ \E k \in 1..N : Hole(i, ranges[k], D[k - 1] - D[0])
    BY <2>2, <2>3
  <2>6. \A i : (i \in 1..Len(masked) /\ masked[i] = -1) <=>
             \E m \in Range(masks) : i \in (m.from + 1)..m.to
    BY <2>1, <2>4, <2>5
  <2> QED  BY <2>6
<1>10. \A i, j \in 1..Len(masked) :
           i < j /\ masked[i] # -1 /\ masked[j] # -1 => masked[i] < masked[j]
  BY <1>6 DEF Replaced
<1>11. score >= t.mask => out.text = out.masked
  <2>1. score \in Nat
    BY <1>2, RiskScoreType
  <2>2. out.action # "BLOCK"
    BY DEF out
  <2> HIDE DEF score
  <2> QED  BY <1>1, <2>1, <2>2 DEF EvaluatePolicy, EvaluateBlock, EvaluateAllowWithMask
<1>12. out.masked = masked /\ out.masks = masks /\ out.spans = spans
  BY <1>1 DEF masked, masks
<1>13. AsReported(out, prompt, t)
  BY <1>8, <1>9, <1>10, <1>11, <1>12 DEF AsReported
<1> QED  BY <1>13 DEF out

\* A request as it goes through the controls: what it holds is what was loaded,
\* and what it may send is what the prompt gave under the thresholds it loaded.
ChatOK(c) ==
    /\ DOMAIN c = {"stage", "user", "prompt", "policy", "out"}
    /\ c.stage # "idle" => c.prompt \in Prompts /\ c.policy \in Thresholds
    /\ c.stage \in {"decided", "sent"} =>
           AsReported(c.out, c.prompt, c.policy) /\ Resolved(c.out, c.prompt)

ChatsInv ==
    /\ policy \in Thresholds
    /\ chat = [r \in Chats |-> chat[r]]
    /\ \A r \in Chats : ChatOK(chat[r])

\* The inputs of the pipeline are what its lemmas ask for.
LEMMA PromptsPlausible ==
    /\ \A p \in Prompts : Plausible(p)
    /\ \A t \in Thresholds : t.mask \in Nat /\ t.block \in Nat
BY PromptAssumption, ThresholdAssumption DEF Plausible, Matches

\* Replacing one chat by a sound one keeps the invariant.
LEMMA ChatReplaced ==
    ASSUME ChatsInv, NEW r \in Chats, NEW c, ChatOK(c),
           chat' = [chat EXCEPT ![r] = c], policy' = policy
    PROVE  ChatsInv'
<1>1. \A q \in Chats : chat'[q] = IF q = r THEN c ELSE chat[q]
  BY DEF ChatsInv
<1>2. chat' = [q \in Chats |-> chat'[q]]
  BY DEF ChatsInv
<1>3. \A q \in Chats : ChatOK(chat'[q])
  BY <1>1 DEF ChatsInv
<1> HIDE DEF ChatOK
<1> QED  BY <1>2, <1>3 DEF ChatsInv

\* ChatsInv is inductive.
LEMMA ChatsInvStep == ASSUME ChatsInv, [AdmissionNext]_admissionVars PROVE ChatsInv'
<1>1. CASE UNCHANGED <<policy, chat>>
  <2>1. \A r \in Chats : ChatOK(chat[r])' <=> ChatOK(chat[r])
    BY <1>1
  <2> QED  BY <1>1, <2>1 DEF ChatsInv
<1>2. ChatOK(NoChat)
  BY DEF ChatOK, NoChat
<1>3. \A r \in Chats : DOMAIN chat[r] = {"stage", "user", "prompt", "policy", "out"}
  BY DEF ChatsInv, ChatOK
<1>4. ASSUME NEW t \in Thresholds, UpdatePolicy(t) PROVE ChatsInv'
  <2>1. chat' = chat /\ policy' = t
    BY <1>4 DEF UpdatePolicy
  <2> QED  BY <2>1 DEF ChatsInv
<1>5. ASSUME NEW r \in Chats, NEW u \in Users, NEW p \in Prompts, LoadOrganisation(r, u, p)
      PROVE  ChatsInv'
  <2> DEFINE c == [NoChat EXCEPT !.stage = "loaded", !.user = u, !.prompt = p, !.policy = policy]
  <2>1. chat' = [chat EXCEPT ![r] = c] /\ policy' = policy
    BY <1>5 DEF LoadOrganisation
  <2>2. /\ DOMAIN c = {"stage", "user", "prompt", "policy", "out"}
        /\ c.stage = "loaded" /\ c.prompt = p /\ c.policy = policy
    BY DEF NoChat
  <2> HIDE DEF c
  <2>3. ChatOK(c)
    BY <2>2 DEF ChatOK, ChatsInv
  <2> QED  BY <2>1, <2>3, ChatReplaced
<1>6. ASSUME NEW r \in Chats, chat' = [chat EXCEPT ![r] = NoChat], policy' = policy
      PROVE  ChatsInv'
  BY <1>2, <1>6, ChatReplaced
<1>7. ASSUME NEW r \in Chats, PassRateLimit(r) PROVE ChatsInv'
  <2> DEFINE c == [chat[r] EXCEPT !.stage = "rated"]
  <2>1. chat' = [chat EXCEPT ![r] = c] /\ policy' = policy /\ chat[r].stage = "loaded"
    BY <1>7 DEF PassRateLimit
  <2>2. /\ DOMAIN c = {"stage", "user", "prompt", "policy", "out"}
        /\ c.stage = "rated" /\ c.prompt = chat[r].prompt /\ c.policy = chat[r].policy
    BY <1>3
  <2>3. ChatOK(chat[r])
    BY DEF ChatsInv
  <2> HIDE DEF c
  <2>4. ChatOK(c)
    BY <2>1, <2>2, <2>3 DEF ChatOK
  <2> QED  BY <2>1, <2>4, ChatReplaced
<1>8. ASSUME NEW r \in Chats, NEW exceeded \in BOOLEAN, Decide(r, exceeded) PROVE ChatsInv'
  <2> DEFINE out == ProcessPrompt(chat[r].prompt, exceeded, chat[r].policy)
             c == [chat[r] EXCEPT !.stage = "decided", !.out = out]
  <2>1. chat[r].stage = "rated" /\ policy' = policy
        /\ chat' = [chat EXCEPT ![r] = IF out.action = "BLOCK" THEN NoChat ELSE c]
    BY <1>8 DEF Decide
  <2>2. CASE out.action = "BLOCK"
    BY <1>6, <2>1, <2>2
  <2>3. CASE out.action # "BLOCK"
    <3>1. chat[r].prompt \in Prompts /\ chat[r].policy \in Thresholds
      BY <2>1 DEF ChatsInv, ChatOK
    <3>2. /\ Plausible(chat[r].prompt)
          /\ chat[r].policy.mask \in Nat /\ chat[r].policy.block \in Nat
      BY <3>1, PromptsPlausible
    <3>3. AsReported(out, chat[r].prompt, chat[r].policy)
      BY <2>3, <3>2, PromptMasked, PlaceholderAssumption
    <3>4. Resolved(out, chat[r].prompt)
      BY <3>2, PromptResolved
    <3> HIDE DEF out
    <3>5. /\ DOMAIN c = {"stage", "user", "prompt", "policy", "out"}
          /\ c.stage = "decided" /\ c.prompt = chat[r].prompt
          /\ c.policy = chat[r].policy /\ c.out = out
      BY <1>3
    <3> HIDE DEF c
    <3>6. ChatOK(c)
      BY <3>1, <3>3, <3>4, <3>5 DEF ChatOK
    <3>7. chat' = [chat EXCEPT ![r] = c]
      BY <2>1, <2>3
    <3> QED  BY <2>1, <3>6, <3>7, ChatReplaced
  <2> QED  BY <2>2, <2>3
<1>9. ASSUME NEW r \in Chats, SelectProvider(r) PROVE ChatsInv'
  <2> DEFINE c == [chat[r] EXCEPT !.stage = "sent"]
  <2>1. PICK state \in ReadHealth :
            chat' = [chat EXCEPT ![r] = IF Unavailable(state) THEN NoChat ELSE c]
    BY <1>9 DEF SelectProvider
  <2>2. chat[r].stage = "decided" /\ policy' = policy
    BY <1>9 DEF SelectProvider
  <2>3. CASE Unavailable(state)
    BY <1>6, <2>1, <2>2, <2>3
  <2>4. CASE ~Unavailable(state)
    <3>1. /\ DOMAIN c = {"stage", "user", "prompt", "policy", "out"}
          /\ c.stage = "sent" /\ c.prompt = chat[r].prompt
          /\ c.policy = chat[r].policy /\ c.out = chat[r].out
      BY <1>3
    <3>2. ChatOK(chat[r])
      BY DEF ChatsInv
    <3>3. chat' = [chat EXCEPT ![r] = c]
      BY <2>1, <2>4
    <3> HIDE DEF c
    <3>4. ChatOK(c)
      BY <2>2, <3>1, <3>2 DEF ChatOK
    <3> QED  BY <2>2, <3>3, <3>4, ChatReplaced
  <2> QED  BY <2>3, <2>4
<1>10. QED
  <2>1. CASE Tick
    BY <1>1, <2>1 DEF Tick
  <2>2. ASSUME NEW a \in Attempts, LoginStep(a) \/ LoginArrives(a) PROVE ChatsInv'
    BY <1>1, <2>2 DEF LoginStep, LoginArrives
  <2>3. ASSUME NEW a \in Attempts, NEW i \in Addresses, DemoArrives(a, i) PROVE ChatsInv'
    BY <1>1, <2>3 DEF DemoArrives
  <2>4. CASE HealthStep
    BY <1>1, <2>4 DEF HealthStep
  <2>5. ASSUME NEW r \in Chats, ChatStep(r) PROVE ChatsInv'
    <3>1. CASE FailRateLimit(r)
      BY <1>6, <3>1 DEF FailRateLimit
    <3>2. CASE DecideFails(r) \/ Finish(r)
      BY <1>6, <3>2 DEF DecideFails, Finish
    <3> QED  BY <1>7, <1>8, <1>9, <2>5, <3>1, <3>2 DEF ChatStep
  <2>6. CASE UNCHANGED admissionVars
    BY <1>1, <2>6 DEF admissionVars
  <2> QED  BY <1>4, <1>5, <2>1, <2>2, <2>3, <2>4, <2>5, <2>6 DEF AdmissionNext

\* No chat has begun.
LEMMA ChatsInvInit == ASSUME AdmissionInit PROVE ChatsInv
<1>1. policy \in Thresholds /\ chat = [r \in Chats |-> NoChat]
  BY DEF AdmissionInit
<1>2. ChatOK(NoChat)
  BY DEF ChatOK, NoChat
<1> QED  BY <1>1, <1>2 DEF ChatsInv

\* ChatsInv holds in every state of the admission controls.
THEOREM ChatsInvariant == AdmissionSpec => []ChatsInv
BY ChatsInvInit, ChatsInvStep, PTL DEF AdmissionSpec

\* For prompts of any length with any matches, any placeholders and thresholds:
\* what a provider is sent has every detection masked once the risk reaches the
\* threshold, the masks are reported where they stand, the rest keeps its order,
\* and no overlap costs a match its effect: removeOverlaps, maskClassifiedPii,
\* evaluateAllowWithMask.
THEOREM MaskingIsExact == AdmissionSpec => []MaskingExact
<1>1. ASSUME ChatsInv PROVE MaskingExact
  <2>1. \A r \in Chats : chat[r].stage = "sent" =>
            /\ AsReported(chat[r].out, chat[r].prompt, chat[r].policy)
            /\ Resolved(chat[r].out, chat[r].prompt)
    BY <1>1 DEF ChatsInv, ChatOK
  <2>2. MaskedAsReported
    BY <2>1 DEF MaskedAsReported, AsReported
  <2>3. OverlapsResolved
    BY <2>1 DEF OverlapsResolved, Resolved
  <2> QED  BY <2>2, <2>3 DEF MaskingExact
<1> QED  BY <1>1, ChatsInvariant, PTL
===============================================================================
