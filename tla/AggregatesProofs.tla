-------------------------- MODULE AggregatesProofs --------------------------
(***************************************************************************)
(* Safety of the billing and analytics aggregates for any number of        *)
(* requests, users, jobs and workers, and the refinement of the job ledger *)
(* by workers whose awaits are steps of their own.                         *)
(*                                                                         *)
(* What is stored is a total of some prefix of the log.  That is inductive *)
(* once it is said of every value on its way into a document as well: the  *)
(* check's and the workers' reads, the pending verdict.  Appending keeps   *)
(* it because a query over a prefix keeps its answer.  That reported usage *)
(* plus reservation covers consumption is a fact about sums over any log.  *)
(***************************************************************************)
EXTENDS Aggregates, FiniteSetTheorems, WellFoundedInduction, TLAPS

\* The theorems on the job ledger, about the coarse stages.
Claims == INSTANCE JobLedgerProofs
            WITH stage <- [w \in Workers |->
                              IF stage[w] \in FineStages THEN "apply" ELSE stage[w]]

-----------------------------------------------------------------------------
(***************************************************************************)
(* Sums over a finite set.  SumFunction folds over the set; the facts below *)
(* unfold it, and go by the least cardinality of a counterexample.         *)
(***************************************************************************)
\* A set of natural numbers has a least element.
LEMMA NatMinimum ==
    ASSUME NEW T, T \subseteq Nat, T # {}
    PROVE  \E m \in T : \A n \in T : m <= n
<1> DEFINE R == OpToRel(<, Nat)
<1>1. IsWellFoundedOn(R, Nat)
  BY NatLessThanWellFounded
<1> HIDE DEF R
<1>2. PICK m \in T : \A n \in T : <<n, m>> \notin R
  BY <1>1, WFMin
<1>3. \A n \in T : ~(n < m)
  BY <1>2 DEF R, OpToRel
<1> QED
  BY <1>3

\* Induction over the subsets of a finite set, by removing an element.
LEMMA SubsetInduction ==
    ASSUME NEW S, IsFiniteSet(S), NEW Good, Good \subseteq SUBSET S, {} \in Good,
           \A s \in SUBSET S :
               s # {} /\ (\A x \in s : s \ {x} \in Good) => s \in Good
    PROVE  Good = SUBSET S
<1> SUFFICES ASSUME Good # SUBSET S PROVE FALSE
  OBVIOUS
<1> DEFINE Bad == {Cardinality(s) : s \in (SUBSET S) \ Good}
<1>1. \A s \in SUBSET S : IsFiniteSet(s) /\ Cardinality(s) \in Nat
  BY FS_Subset, FS_CardinalityType
<1>2. Bad \subseteq Nat /\ Bad # {}
  BY <1>1
<1>3. PICK m \in Bad : \A n \in Bad : m <= n
  BY <1>2, NatMinimum
<1>4. PICK s \in (SUBSET S) \ Good : Cardinality(s) = m
  BY <1>3
<1>5. PICK x \in s : s \ {x} \notin Good
  <2>1. s \in SUBSET S /\ s \notin Good
    OBVIOUS
  <2>2. s # {}
    BY <2>1, Zenon
  <2> QED
    BY <2>1, <2>2, Zenon
<1>6. Cardinality(s \ {x}) = m - 1 /\ m \in Nat
  BY <1>1, <1>4, FS_RemoveElement
<1>7. Cardinality(s \ {x}) \in Bad
  BY <1>4, <1>5
<1>8. m <= Cardinality(s \ {x})
  <2> HIDE DEF Bad
  <2> QED  BY <1>3, <1>7
<1> QED
  BY <1>6, <1>8

\* The element a fold removes first, and the value it has then.
First(s) == CHOOSE x \in s : TRUE
SumStep(f, s, g) == IF s = {} THEN 0 ELSE f[First(s)] + g[s \ {First(s)}]
ArePartialSums(g, f, S) == g = [s \in SUBSET S |-> SumStep(f, s, g)]
PartialSums(f, S) == CHOOSE g : ArePartialSums(g, f, S)

\* The fold behind SumFunction, as a function of the subsets.
LEMMA SumIsPartialSum ==
    ASSUME NEW S, NEW f, DOMAIN f = S
    PROVE  SumFunction(f) = PartialSums(f, S)[S]
<1>1. SumFunction(f) = FoldFunctionOnSet(+, 0, f, S)
  BY DEF SumFunction, SumFunctionOnSet
<1> QED
  BY <1>1 DEF FoldFunctionOnSet, MapThenFoldSet, PartialSums, ArePartialSums, SumStep, First

\* The recursion has a solution on the subsets of at most n elements, for each n.
LEMMA PartialSumsExist ==
    ASSUME NEW S, IsFiniteSet(S), NEW f
    PROVE  \E g : ArePartialSums(g, f, S)
<1> DEFINE Small(n) == {s \in SUBSET S : Cardinality(s) <= n}
           Solves(g, n) == g = [s \in Small(n) |-> SumStep(f, s, g)]
           Bad == {n \in Nat : \A g : ~Solves(g, n)}
<1>1. \A s \in SUBSET S : /\ IsFiniteSet(s) /\ Cardinality(s) \in Nat
                          /\ Cardinality(s) <= Cardinality(S)
                          /\ Cardinality(s) = 0 <=> s = {}
                          /\ \A x \in s : Cardinality(s \ {x}) = Cardinality(s) - 1
  BY FS_Subset, FS_CardinalityType, FS_EmptySet, FS_RemoveElement
<1>2. 0 \notin Bad
  <2> DEFINE g == [s \in Small(0) |-> 0]
  <2>1. \A s \in Small(0) : s = {}
    BY <1>1
  <2>2. g = [s \in Small(0) |-> SumStep(f, s, g)]
    BY <2>1 DEF SumStep
  <2> QED
    BY <2>2
<1>3. ASSUME NEW n \in Nat, n \notin Bad PROVE n + 1 \notin Bad
  <2>1. PICK h : Solves(h, n)
    BY <1>3
  <2> DEFINE g == [s \in Small(n + 1) |-> SumStep(f, s, h)]
  <2>2. ASSUME NEW s \in Small(n + 1), s # {}
        PROVE  s \ {First(s)} \in Small(n) /\ s \ {First(s)} \in Small(n + 1)
    <3>1. First(s) \in s
      BY <2>2 DEF First
    <3> QED
      BY <1>1, <2>2, <3>1
  <2>3. ASSUME NEW t \in Small(n), t \in Small(n + 1) PROVE g[t] = h[t]
    <3>1. h[t] = SumStep(f, t, h)
      BY <2>1
    <3> QED
      BY <2>3, <3>1
  <2>4. ASSUME NEW s \in Small(n + 1) PROVE SumStep(f, s, h) = SumStep(f, s, g)
    <3>1. CASE s = {}
      BY <3>1 DEF SumStep
    <3>2. CASE s # {}
      <4>1. g[s \ {First(s)}] = h[s \ {First(s)}]
        BY <2>2, <2>3, <3>2
      <4> HIDE DEF g
      <4> QED
        BY <3>2, <4>1 DEF SumStep
    <3> QED
      BY <3>1, <3>2
  <2>5. g = [s \in Small(n + 1) |-> SumStep(f, s, g)]
    <3> HIDE DEF Small
    <3> QED  BY <2>4
  <2> QED
    BY <2>5
<1>4. Bad = {}
  <2> SUFFICES ASSUME Bad # {} PROVE FALSE
    OBVIOUS
  <2>1. PICK m \in Bad : \A n \in Bad : m <= n
    <3> HIDE DEF Solves
    <3>1. Bad \subseteq Nat
      OBVIOUS
    <3> HIDE DEF Bad
    <3> QED
      BY <3>1, NatMinimum
  <2> HIDE DEF Solves
  <2>2. m # 0 /\ m \in Nat
    BY <1>2
  <2>3. m - 1 \in Nat /\ m - 1 \notin Bad
    BY <2>1, <2>2
  <2>4. (m - 1) + 1 \notin Bad
    <3> HIDE DEF Bad
    <3> QED  BY <1>3, <2>3
  <2> QED
    BY <2>1, <2>2, <2>4
<1>5. Small(Cardinality(S)) = SUBSET S /\ Cardinality(S) \in Nat
  BY <1>1, FS_CardinalityType
<1>6. PICK g : Solves(g, Cardinality(S))
  BY <1>4, <1>5
<1> QED
  BY <1>5, <1>6 DEF ArePartialSums

\* So the partial sums satisfy their recursion.
LEMMA PartialSumsUnfold ==
    ASSUME NEW S, IsFiniteSet(S), NEW f, NEW s \in SUBSET S
    PROVE  PartialSums(f, S)[s] = SumStep(f, s, PartialSums(f, S))
<1>1. ArePartialSums(PartialSums(f, S), f, S)
  BY PartialSumsExist DEF PartialSums
<1> QED
  BY <1>1 DEF ArePartialSums

\* A sum of natural numbers is one.
LEMMA SumType ==
    ASSUME NEW S, IsFiniteSet(S), NEW f \in [S -> Nat]
    PROVE  SumFunction(f) \in Nat
<1> DEFINE P == PartialSums(f, S)
           Good == {s \in SUBSET S : P[s] \in Nat}
<1>1. ASSUME NEW s \in SUBSET S, \A x \in s : s \ {x} \in Good PROVE s \in Good
  <2>1. P[s] = SumStep(f, s, P)
    BY PartialSumsUnfold
  <2>2. CASE s = {}
    BY <2>1, <2>2 DEF SumStep
  <2>3. CASE s # {}
    <3>1. First(s) \in s
      BY <2>3 DEF First
    <3>2. f[First(s)] \in Nat /\ P[s \ {First(s)}] \in Nat
      BY <1>1, <3>1
    <3> HIDE DEF P
    <3> QED
      BY <2>1, <2>3, <3>2 DEF SumStep
  <2> QED
    BY <2>2, <2>3
<1>2. Good = SUBSET S
  <2>1. {} \in Good
    BY <1>1
  <2> HIDE DEF Good
  <2>2. Good \subseteq SUBSET S
    BY DEF Good
  <2> QED
    BY <1>1, <2>1, <2>2, SubsetInduction
<1>3. P[S] \in Nat
  BY <1>2
<1> QED
  BY <1>3, SumIsPartialSum

\* A sum whose terms exceed those of another by at most c, and only on U,
\* exceeds it by at most c for every element of U.
LEMMA SumBound ==
    ASSUME NEW S, IsFiniteSet(S), NEW f \in [S -> Nat], NEW g \in [S -> Nat],
           NEW U \in SUBSET S, NEW c \in Nat,
           \A i \in S : g[i] <= (IF i \in U THEN f[i] + c ELSE f[i])
    PROVE  SumFunction(g) <= SumFunction(f) + c * Cardinality(U)
<1> DEFINE F == PartialSums(f, S)
           G == PartialSums(g, S)
           Extra(s) == c * Cardinality(s \cap U)
           Good == {s \in SUBSET S : /\ F[s] \in Nat /\ G[s] \in Nat
                                     /\ G[s] <= F[s] + Extra(s)}
<1>1. ASSUME NEW s \in SUBSET S, \A x \in s : s \ {x} \in Good PROVE s \in Good
  <2>1. F[s] = SumStep(f, s, F) /\ G[s] = SumStep(g, s, G)
    BY PartialSumsUnfold
  <2>2. IsFiniteSet(s \cap U) /\ Cardinality(s \cap U) \in Nat
    BY FS_Subset, FS_CardinalityType
  <2>3. CASE s = {}
    <3>1. Extra(s) \in Nat
      BY <2>2
    <3> QED
      BY <2>1, <2>3, <3>1 DEF SumStep
  <2>4. CASE s # {}
    <3> DEFINE x == First(s)
               t == s \ {x}
    <3>1. x \in s
      BY <2>4 DEF First
    <3>2. f[x] \in Nat /\ g[x] \in Nat /\ t \in Good
      BY <1>1, <3>1
    <3>3. F[s] = f[x] + F[t] /\ G[s] = g[x] + G[t]
      BY <2>1, <2>4 DEF SumStep
    <3>4. CASE x \in U
      <4>1. t \cap U = (s \cap U) \ {x} /\ x \in s \cap U
        BY <3>1, <3>4
      <4>2. Cardinality(t \cap U) = Cardinality(s \cap U) - 1
        <5> DEFINE a == s \cap U
                   b == t \cap U
        <5>1. IsFiniteSet(a) /\ x \in a /\ b = a \ {x}
          BY <2>2, <4>1
        <5> HIDE DEF a, b, x
        <5>2. Cardinality(b) = Cardinality(a) - 1
          BY <5>1, FS_RemoveElement
        <5> QED
          BY <5>2 DEF a, b
      <4>3. Extra(s) = Extra(t) + c /\ Extra(t) \in Nat /\ Extra(s) \in Nat
        <5> DEFINE k == Cardinality(s \cap U)
        <5>1. k \in Nat /\ Cardinality(t \cap U) = k - 1
          BY <2>2, <4>2
        <5>2. k - 1 \in Nat
          BY <2>2, <4>1, FS_EmptySet
        <5> HIDE DEF k
        <5>3. c * k = c * (k - 1) + c /\ c * (k - 1) \in Nat /\ c * k \in Nat
          BY <5>1, <5>2
        <5> QED
          BY <5>1, <5>3 DEF k
      <4>4. g[x] <= f[x] + c
        BY <3>1, <3>4
      <4> HIDE DEF F, G, Extra, x, t
      <4>5. G[t] <= F[t] + Extra(t) /\ G[t] \in Nat /\ F[t] \in Nat
        BY <3>2
      <4>6. G[s] \in Nat /\ F[s] \in Nat /\ G[s] <= F[s] + Extra(s)
        BY <3>2, <3>3, <4>3, <4>4, <4>5
      <4> QED
        BY <4>6
    <3>5. CASE x \notin U
      <4>1. t \cap U = s \cap U
        BY <3>5
      <4>2. Extra(s) = Extra(t) /\ Extra(s) \in Nat
        <5> DEFINE k == Cardinality(s \cap U)
        <5>1. k \in Nat /\ Cardinality(t \cap U) = k
          BY <2>2, <4>1, Zenon
        <5> HIDE DEF k
        <5>2. c * k \in Nat
          BY <5>1
        <5> QED
          BY <5>1, <5>2 DEF k
      <4>3. g[x] <= f[x]
        BY <3>1, <3>5
      <4> HIDE DEF F, G, Extra, x, t
      <4>4. G[t] <= F[t] + Extra(t) /\ G[t] \in Nat /\ F[t] \in Nat
        BY <3>2
      <4>5. G[s] \in Nat /\ F[s] \in Nat /\ G[s] <= F[s] + Extra(s)
        BY <3>2, <3>3, <4>2, <4>3, <4>4
      <4> QED
        BY <4>5
    <3> QED
      BY <3>4, <3>5
  <2> QED
    BY <2>3, <2>4
<1>2. Good = SUBSET S
  <2>1. {} \in Good
    BY <1>1
  <2> HIDE DEF Good
  <2>2. Good \subseteq SUBSET S
    BY DEF Good
  <2> QED
    BY <1>1, <2>1, <2>2, SubsetInduction
<1>3. G[S] <= F[S] + Extra(S) /\ S \cap U = U
  BY <1>2
<1> QED
  BY <1>3, SumIsPartialSum

-----------------------------------------------------------------------------
(***************************************************************************)
(* The inductive invariant.                                                *)
(***************************************************************************)
Requests == {RequestOf(j) : j \in Jobs}
Rows == [request : Requests, user : Users, status : {o.status : o \in Outcomes},
         known : BOOLEAN, tokens : 0..ReservedTokens]
Usages == [usedTokens : Nat, sourceRequestCount : Nat, unresolved : Nat]
Works == [scope : {Organisation, "USER"}, used : Usages \cup {NoDocument},
          values : [Scopes -> DailyDocuments \cup {NoDocument}]]

StageOK == stage \in [Workers -> WorkerStages \cup FineStages]
AggregateTypeOK ==
    /\ StageOK
    /\ daily \in [Scopes -> DailyDocuments \cup {NoDocument}]
    /\ work \in [Workers -> Works]
    /\ DOMAIN alerts = Users

\* A request is logged once, and a blocked one without usage.
RowsOK ==
    /\ log \in Seq(Rows)
    /\ \A i \in 1..Len(log) : log[i].status = "BLOCKED" => ~log[i].known /\ log[i].tokens = 0
    /\ \A i, k \in 1..Len(log) : log[i].request = log[k].request => i = k

\* A job that runs or may run is that of a logged request.
JobsLogged ==
    /\ \A j \in Jobs : jobState[j] \in {"waiting", "active"} => RequestOf(j) \in Logged
    /\ \A w \in Workers : stage[w] # "idle" => RequestOf(runJob[w]) \in Logged
    /\ events \subseteq Logged

\* Analytics tells before it is done.
ToldOK == \A j \in Jobs \ BillingJobs : j \in applied => RequestOf(j) \in events

\* What is written to the rollup is a total of some prefix of the log.
Totals == {PeriodUsage(n) : n \in 0..Len(log)}
BillingOK ==
    /\ rollup # NoDocument =>
           \E usage \in Totals : usage.unresolved = 0 /\ rollup = RollupOf(usage)
    /\ check # NoDocument => check \in Totals

\* A daily document summarises a prefix of the log; its provider requests were
\* counted by a query of their own, over a longer one.
Summaries(s) == {[DailySummary(s, n) EXCEPT !.providerRequests = p] :
                     n \in 0..Len(log), p \in Nat}
DailyOK == \A s \in Scopes : daily[s] # NoDocument => daily[s] \in Summaries(s)

\* A worker runs the processor of its queue, holds totals and summaries only,
\* and has read what it is about to write.
HasRead(w, s) == work[w].values[s] # NoDocument
WorkerOK(w) ==
    /\ stage[w] \notin FineStages \ {"apply"} => work[w].scope = Organisation
    /\ stage[w] = "upsert" =>
           IsBilling(w) /\ work[w].used \in Totals /\ work[w].used.unresolved = 0
    /\ stage[w] \in {"providers", "update", "find", "create", "event"} => ~IsBilling(w)
    /\ \A s \in Scopes : HasRead(w, s) => work[w].values[s] \in Summaries(s)
    /\ stage[w] = "summary" /\ ~IsBilling(w) /\ work[w].scope # Organisation =>
           HasRead(w, Organisation)
    /\ stage[w] = "providers" => HasRead(w, Organisation) /\ HasRead(w, ScopeOf(w))
    /\ stage[w] \in {"update", "find", "create"} =>
           HasRead(w, Organisation) /\ HasRead(w, EntryOf(runJob[w]).user)
WorkersOK == \A w \in Workers : WorkerOK(w)

\* The user's totals at the points at which all usage was known.
KnownTotals(u) == {DailySummary(u, n).totalTokens :
                       n \in {m \in 0..Len(log) : DailySummary(u, m).unknownUsage = 0}}
Deserved(u, alert) ==
    /\ alert.observedTokens \in KnownTotals(u)
    /\ ExceedsBaseline(alert.observedTokens)
AlertsOK ==
    /\ verdict # NoDocument => \E u \in Users : verdict.user = u /\ Deserved(u, verdict)
    /\ \A u \in Users : alerts[u] # NoDocument => Deserved(u, alerts[u])

AInv ==
    /\ AggregateTypeOK /\ RowsOK /\ JobsLogged /\ ToldOK
    /\ BillingOK /\ DailyOK /\ WorkersOK /\ AlertsOK
    /\ Claims!LInv
-----------------------------------------------------------------------------
(***************************************************************************)
(* The refinement.  Between the claim and its completion a worker moves    *)
(* from one fine stage to another, which the job ledger does not see; the  *)
(* last move, and every failure, is the ledger's "apply".                  *)
(***************************************************************************)
Coarse(at) == IF at \in FineStages THEN "apply" ELSE at

\* A worker's move is the move between the coarse stages.
LEMMA GotoMaps ==
    ASSUME StageOK, NEW w \in Workers, NEW next, Goto(w, next)
    PROVE  Ledger!Goto(w, Coarse(next))
  BY DEF StageOK, Goto, Ledger!Goto, Coarse

\* A move from one await to the next is no step of the ledger.
LEMMA InsideStutters ==
    ASSUME StageOK, NEW w \in Workers, NEW from \in FineStages, NEW to \in FineStages,
           Inside(w, from, to)
    PROVE  UNCHANGED Ledger!ledgerVars
<1>1. [v \in Workers |-> IF stage'[v] \in FineStages THEN "apply" ELSE stage'[v]]
        = [v \in Workers |-> IF stage[v] \in FineStages THEN "apply" ELSE stage[v]]
  BY DEF StageOK, Inside, Goto
<1> QED
  BY <1>1 DEF Inside, queueVars, Ledger!ledgerVars, Ledger!queueVars, Ledger!workerVars

\* The last write, or finding nothing to write, is the ledger's "apply".
LEMMA AppliedApplies ==
    ASSUME StageOK, NEW w \in Workers, NEW from \in FineStages, Applied(w, from)
    PROVE  Ledger!Apply(w)
<1>1. Ledger!Goto(w, "complete")
  BY GotoMaps DEF Applied, Coarse, FineStages
<1> QED
  BY <1>1 DEF Applied, Ledger!Apply, queueVars, Ledger!queueVars

\* So is a failure on the way.
LEMMA ApplyFailsApplies ==
    ASSUME StageOK, NEW w \in Workers, ApplyFails(w)
    PROVE  Ledger!Apply(w)
<1>1. Ledger!Goto(w, "release")
  BY GotoMaps DEF ApplyFails, Coarse, FineStages
<1> QED
  BY <1>1 DEF ApplyFails, Fault, Ledger!Fault, Ledger!Apply, queueVars, Ledger!queueVars

\* The steps of a processor between claim and completion.
LEMMA ApplyStepMaps ==
    ASSUME StageOK, NEW w \in Workers, ApplyStep(w)
    PROVE  Ledger!Apply(w) \/ UNCHANGED Ledger!ledgerVars
<1>1. CASE \/ \E from \in FineStages : Applied(w, from)
           \/ \E from, to \in FineStages : Inside(w, from, to)
  BY <1>1, AppliedApplies, InsideStutters
<1>2. CASE FindLog(w)
  BY <1>1, <1>2 DEF FindLog, FineStages
<1>3. CASE ReadUsage(w)
  BY <1>1, <1>3 DEF ReadUsage, FineStages
<1>4. CASE UpsertRollup(w)
  BY <1>1, <1>4 DEF UpsertRollup, FineStages
<1>5. CASE ReadSummary(w)
  BY <1>1, <1>5 DEF ReadSummary, FineStages
<1>6. CASE ReadProviders(w)
  <2>1. \E to \in FineStages : Inside(w, "providers", to)
    BY <1>6 DEF ReadProviders, FineStages
  <2> QED
    BY <1>1, <2>1 DEF FineStages
<1>7. ASSUME NEW from \in FineStages, ScopeDone(w, from)
      PROVE  \E to \in FineStages : Inside(w, from, to)
  BY <1>7 DEF ScopeDone, FineStages
<1>8. CASE UpdateDaily(w)
  BY <1>1, <1>7, <1>8 DEF UpdateDaily, FineStages
<1>9. CASE FindDaily(w)
  BY <1>1, <1>7, <1>9 DEF FindDaily, FineStages
<1>10. CASE CreateDaily(w)
  BY <1>1, <1>7, <1>10 DEF CreateDaily, FineStages
<1>11. CASE EnqueueUsageUpdated(w)
  BY <1>1, <1>11 DEF EnqueueUsageUpdated, FineStages
<1> QED
  BY <1>2, <1>3, <1>4, <1>5, <1>6, <1>8, <1>9, <1>10, <1>11 DEF ApplyStep

\* Outside "apply" the stages are the same, and so are the steps.
LEMMA ClaimStepMaps ==
    ASSUME StageOK, NEW w \in Workers, ClaimStep(w) \/ Crash(w)
    PROVE  \/ Ledger!WorkerStep(w) \/ Ledger!Crash(w)
           \/ \E j \in Jobs : Ledger!Deliver(w, j)
<1> USE DEF queueVars, Ledger!queueVars, Fault, Ledger!Fault
<1>1. ASSUME NEW at \in WorkerStages, at # "apply"
      PROVE  stage[w] = at <=> Coarse(stage[w]) = at
  BY <1>1 DEF Coarse, FineStages, WorkerStages
<1>2. ASSUME NEW next \in WorkerStages, Goto(w, next)
      PROVE  Ledger!Goto(w, next)
  BY <1>2, GotoMaps DEF Coarse, FineStages, WorkerStages
<1>3. CASE Acquire(w)
  <2>1. Coarse(stage[w]) = "acquire"
    BY <1>1, <1>3 DEF Acquire, WorkerStages
  <2>2. \A next \in {"apply", "lookup", "throw"} : Goto(w, next) => Ledger!Goto(w, next)
    BY <1>2 DEF WorkerStages
  <2>3. Ledger!Acquire(w)
    BY <1>3, <2>1, <2>2 DEF Acquire, Ledger!Acquire, Coarse
  <2> QED
    BY <2>3 DEF Ledger!WorkerStep
<1>4. CASE Lookup(w)
  <2>1. Coarse(stage[w]) = "lookup"
    BY <1>1, <1>4 DEF Lookup, WorkerStages
  <2>2. \A next \in {"apply", "return", "throw"} : Goto(w, next) => Ledger!Goto(w, next)
    BY <1>2 DEF WorkerStages
  <2>3. MayTakeOver(w) <=> Ledger!MayTakeOver(w)
    BY DEF MayTakeOver, Ledger!MayTakeOver
  <2>4. ASSUME ledger[runJob[w]] = "PROCESSING", UNCHANGED faults,
               Goto(w, IF MayTakeOver(w) THEN "apply" ELSE "return")
        PROVE  Ledger!Lookup(w)
    <3> DEFINE to == IF Ledger!MayTakeOver(w) THEN "apply" ELSE "return"
    <3>1. to = IF MayTakeOver(w) THEN "apply" ELSE "return"
      BY DEF MayTakeOver, Ledger!MayTakeOver
    <3>2. to \in {"apply", "return"}
      OBVIOUS
    <3> HIDE DEF to
    <3>3. Ledger!Goto(w, to)
      <4>1. stage' = [stage EXCEPT ![w] = to]
        BY <2>4, <3>1 DEF Goto
      <4> QED
        BY <3>2, <4>1 DEF StageOK, Ledger!Goto, FineStages
    <3>4. [v \in Workers |-> IF stage[v] \in FineStages THEN "apply" ELSE stage[v]][w]
            = "lookup"
      BY <2>1 DEF Coarse
    <3>5. UNCHANGED <<Ledger!queueVars, ledger, applied, runJob, runAttempts>>
      BY <1>4 DEF Lookup
    <3> QED
      BY <2>4, <3>3, <3>4, <3>5, Zenon DEF Ledger!Lookup, to
  <2>5. ASSUME \/ ledger[runJob[w]] = "NONE" /\ Goto(w, "throw") /\ UNCHANGED faults
               \/ ledger[runJob[w]] = "COMPLETED" /\ Goto(w, "return") /\ UNCHANGED faults
               \/ Goto(w, "throw") /\ Fault("acquire")
        PROVE  Ledger!Lookup(w)
    BY <1>4, <2>1, <2>2, <2>5 DEF Lookup, Ledger!Lookup, Coarse
  <2>6. Ledger!Lookup(w)
    BY <1>4, <2>4, <2>5 DEF Lookup
  <2> QED
    BY <2>6 DEF Ledger!WorkerStep
<1>5. CASE Complete(w)
  BY <1>1, <1>2, <1>5 DEF Complete, Ledger!Complete, Ledger!WorkerStep, WorkerStages, Coarse
<1>6. CASE ReleaseClaim(w)
  BY <1>1, <1>2, <1>6 DEF ReleaseClaim, DeleteProcessing, Ledger!ReleaseClaim,
     Ledger!DeleteProcessing, Ledger!WorkerStep, WorkerStages, Coarse
<1>7. CASE JobReturns(w)
  BY <1>1, <1>2, <1>7 DEF JobReturns, Idle, HoldsLock, Ledger!JobReturns, Ledger!Idle,
     Ledger!HoldsLock, Ledger!WorkerStep, WorkerStages, Coarse
<1>8. CASE JobThrows(w)
  BY <1>1, <1>2, <1>8 DEF JobThrows, Idle, HoldsLock, Ledger!JobThrows, Ledger!Idle,
     Ledger!HoldsLock, Ledger!WorkerStep, WorkerStages, Coarse
<1>9. CASE Crash(w)
  BY <1>1, <1>2, <1>9 DEF Crash, Idle, HoldsLock, Ledger!Crash, Ledger!Idle,
     Ledger!HoldsLock, WorkerStages, Coarse
<1>10. ASSUME NEW j \in Jobs, Deliver(w, j) PROVE Ledger!Deliver(w, j)
  BY <1>1, <1>2, <1>10 DEF Deliver, Ledger!Deliver, WorkerStages, Coarse
<1> QED
  BY <1>3, <1>4, <1>5, <1>6, <1>7, <1>8, <1>9, <1>10 DEF ClaimStep

\* Every step of the aggregates is a step of the job ledger or none.
LEMMA StepMaps ==
    ASSUME StageOK, [AggregateNext]_aggregateVars
    PROVE  [Ledger!LedgerNext]_(Ledger!ledgerVars)
<1>1. ASSUME UNCHANGED ledgerVars PROVE UNCHANGED Ledger!ledgerVars
  BY <1>1 DEF ledgerVars, queueVars, workerVars, Ledger!ledgerVars, Ledger!queueVars,
     Ledger!workerVars
<1>2. CASE UNCHANGED ledgerVars
  BY <1>1, <1>2
<1>3. ASSUME NEW w \in Workers, ApplyStep(w) \/ ApplyFails(w) \/ ClaimStep(w) \/ Crash(w)
      PROVE  [Ledger!LedgerNext]_(Ledger!ledgerVars)
  BY <1>3, ApplyStepMaps, ApplyFailsApplies, ClaimStepMaps
     DEF Ledger!LedgerNext, Ledger!WorkerStep
<1>4. ASSUME NEW j \in Jobs, PublishJob(j) \/ Stall(j) \/ Evict(j)
      PROVE  Ledger!LedgerNext
  <2>1. CASE PublishJob(j)
    BY <2>1 DEF PublishJob, Publish, workerVars, queueVars, Ledger!PublishJob, Ledger!Publish,
       Ledger!workerVars, Ledger!queueVars, Ledger!LedgerNext
  <2>2. CASE Stall(j)
    BY <2>2 DEF Stall, StalledTooOften, Fault, workerVars, Ledger!Stall,
       Ledger!StalledTooOften, Ledger!Fault, Ledger!workerVars, Ledger!LedgerNext
  <2>3. CASE Evict(j)
    BY <2>3 DEF Evict, workerVars, Ledger!Evict, Ledger!workerVars, Ledger!LedgerNext
  <2> QED
    BY <1>4, <2>1, <2>2, <2>3
<1>5. CASE \E r \in Requests : JudgeUsage(r) \/ \E o \in Outcomes : AppendUsage(r, o)
  BY <1>2, <1>5 DEF JudgeUsage, AppendUsage
<1>6. CASE BudgetRead \/ BudgetWrite \/ RecordAlert
  BY <1>2, <1>6 DEF BudgetRead, BudgetWrite, RecordAlert
<1>7. CASE UNCHANGED aggregateVars
  BY <1>2, <1>7 DEF aggregateVars
<1>8. ASSUME NEW j \in Jobs, PublishLogged(j) PROVE PublishJob(j)
  BY <1>8 DEF PublishLogged
<1> QED
  BY <1>3, <1>4, <1>5, <1>6, <1>7, <1>8 DEF AggregateNext, Requests

-----------------------------------------------------------------------------
(***************************************************************************)
(* The log only grows, so a query over a prefix keeps its answer.          *)
(***************************************************************************)
Grows ==
    /\ Len(log) \in Nat /\ Len(log') \in Nat /\ Len(log) <= Len(log')
    /\ \A i \in 1..Len(log) : log'[i] = log[i]

\* Only AppendUsage writes the log, at its end, and never a second row of a
\* request.
LEMMA LogStep ==
    ASSUME RowsOK, [AggregateNext]_aggregateVars
    PROVE  Grows /\ RowsOK'
<1>1. CASE UNCHANGED log
  BY <1>1 DEF RowsOK, Grows
<1>2. ASSUME NEW r \in Requests, NEW o \in Outcomes, AppendUsage(r, o)
      PROVE  Grows /\ RowsOK'
  <2> DEFINE row == [request |-> r, user |-> o.user, status |-> o.status,
                     known |-> o.known, tokens |-> o.tokens]
  <2>1. row \in Rows
    BY OutcomeAssumption DEF Rows
  <2>2. row.status = "BLOCKED" => ~row.known /\ row.tokens = 0
    BY OutcomeAssumption
  <2>3. row.request = r
    OBVIOUS
  <2> HIDE DEF row
  <2>4. log' = Append(log, row) /\ \A i \in 1..Len(log) : log[i].request # r
    BY <1>2 DEF AppendUsage, Logged, row
  <2>5. log' \in Seq(Rows) /\ Len(log') = Len(log) + 1 /\ Len(log) \in Nat
    BY <2>1, <2>4 DEF RowsOK
  <2>6. \A i \in 1..Len(log) : log'[i] = log[i]
    BY <2>4 DEF RowsOK
  <2>7. log'[Len(log')] = row
    BY <2>4 DEF RowsOK
  <2>8. \A i \in 1..Len(log') : i \in 1..Len(log) \/ i = Len(log')
    BY <2>5
  <2> QED
    BY <2>2, <2>3, <2>4, <2>5, <2>6, <2>7, <2>8 DEF RowsOK, Grows
<1>3. CASE UNCHANGED aggregateVars
  BY <1>1, <1>3 DEF aggregateVars, writeVars
<1>4. CASE \E w \in Workers :
              \/ ApplyStep(w) \/ ApplyFails(w) \/ (ClaimStep(w) /\ UNCHANGED writeVars)
              \/ Crash(w) /\ ForgetWork(w)
  BY <1>1, <1>4 DEF ApplyStep, FindLog, ReadUsage, UpsertRollup, ReadSummary, ReadProviders,
     UpdateDaily, FindDaily, CreateDaily, EnqueueUsageUpdated, ScopeDone, Inside, Applied,
     ApplyFails, ForgetWork, writeVars
<1>5. CASE \/ \E j \in Jobs : PublishLogged(j) \/ ((Stall(j) \/ Evict(j)) /\ UNCHANGED writeVars)
           \/ BudgetRead \/ BudgetWrite \/ RecordAlert
           \/ \E r \in Requests : JudgeUsage(r)
  BY <1>1, <1>5 DEF PublishLogged, BudgetRead, BudgetWrite, RecordAlert, JudgeUsage, writeVars
<1> QED
  BY <1>2, <1>3, <1>4, <1>5 DEF AggregateNext, Requests

\* The queries keep their answers over the rows they have seen.
LEMMA QueriesStable ==
    ASSUME Grows, NEW n \in 0..Len(log)
    PROVE  /\ n \in 0..Len(log')
           /\ PeriodUsage(n)' = PeriodUsage(n)
           /\ \A s \in Scopes : DailySummary(s, n)' = DailySummary(s, n)
<1>1. n \in 0..Len(log') /\ \A i \in 1..n : log'[i] = log[i]
  BY DEF Grows
<1>2. Billable(n)' = Billable(n) /\ Billable(n) \subseteq 1..n
  BY <1>1 DEF Billable
<1>3. ASSUME NEW rows, rows \subseteq 1..n
      PROVE  KnownOf(rows)' = KnownOf(rows) /\ TokensOf(rows)' = TokensOf(rows)
  <2>1. [i \in rows |-> Recorded(i)]' = [i \in rows |-> Recorded(i)]
    BY <1>1, <1>3 DEF Recorded
  <2> QED
    BY <1>1, <1>3, <2>1 DEF KnownOf, TokensOf
<1>4. PeriodUsage(n)' = PeriodUsage(n)
  BY <1>2, <1>3 DEF PeriodUsage
<1>5. ASSUME NEW s \in Scopes PROVE DailySummary(s, n)' = DailySummary(s, n)
  <2>1. InScope(s, n)' = InScope(s, n) /\ InScope(s, n) \subseteq 1..n
    BY <1>1 DEF InScope
  <2> QED
    BY <1>2, <1>3, <2>1 DEF DailySummary
<1> QED
  BY <1>1, <1>4, <1>5

\* So what was a total, a summary or a fully known total stays one.
LEMMA TotalsStay ==
    ASSUME Grows
    PROVE  /\ Totals \subseteq Totals'
           /\ \A s \in Scopes : Summaries(s) \subseteq Summaries(s)'
           /\ \A s \in Scopes : KnownTotals(s) \subseteq KnownTotals(s)'
<1>1. Totals \subseteq Totals'
  BY QueriesStable DEF Totals
<1>2. ASSUME NEW s \in Scopes, NEW doc \in Summaries(s) PROVE doc \in Summaries(s)'
  <2>1. PICK n \in 0..Len(log), p \in Nat :
           doc = [DailySummary(s, n) EXCEPT !.providerRequests = p]
    BY <1>2 DEF Summaries
  <2>2. n \in 0..Len(log') /\ DailySummary(s, n)' = DailySummary(s, n)
    BY QueriesStable
  <2> QED
    BY <2>1, <2>2 DEF Summaries
<1>3. ASSUME NEW s \in Scopes, NEW tokens \in KnownTotals(s) PROVE tokens \in KnownTotals(s)'
  <2>1. PICK n \in 0..Len(log) :
           DailySummary(s, n).unknownUsage = 0 /\ tokens = DailySummary(s, n).totalTokens
    BY <1>3 DEF KnownTotals
  <2>2. n \in 0..Len(log') /\ DailySummary(s, n)' = DailySummary(s, n)
    BY QueriesStable
  <2> QED
    BY <2>1, <2>2 DEF KnownTotals
<1> QED
  BY <1>1, <1>2, <1>3

\* The row of a logged request is unique, so EntryOf keeps finding it.
LEMMA EntryStable ==
    ASSUME RowsOK, RowsOK', Grows, NEW j, RequestOf(j) \in Logged
    PROVE  /\ RequestOf(j) \in Logged'
           /\ EntryOf(j)' = EntryOf(j)
           /\ EntryOf(j).user \in Users
<1>1. PICK i \in 1..Len(log) : log[i].request = RequestOf(j)
  BY DEF Logged
<1>2. i \in 1..Len(log') /\ log'[i] = log[i]
  BY <1>1 DEF Grows
<1>3. EntryOf(j) = log[i]
  BY <1>1 DEF EntryOf, RowsOK
<1>4. EntryOf(j)' = log'[i]
  BY <1>1, <1>2 DEF EntryOf, RowsOK
<1>5. log[i] \in Rows
  BY <1>1 DEF RowsOK
<1> QED
  BY <1>1, <1>2, <1>3, <1>4, <1>5 DEF Logged, Rows

\* What the queries return are counts.
LEMMA QueryTypes ==
    ASSUME RowsOK, NEW n \in 0..Len(log)
    PROVE  /\ PeriodUsage(n) \in Usages
           /\ \A s \in Scopes : /\ DailySummary(s, n) \in DailyDocuments
                                /\ ProviderRequests(s, n) \in Nat
<1>1. IsFiniteSet(1..n) /\ n \in Nat /\ \A i \in 1..n : log[i] \in Rows
  BY FS_Interval DEF RowsOK
<1>2. ASSUME NEW rows \in SUBSET (1..n)
      PROVE  Cardinality(rows) \in Nat /\ TokensOf(rows) \in Nat /\ KnownOf(rows) \subseteq 1..n
  <2>1. IsFiniteSet(rows)
    BY <1>1, FS_Subset
  <2>2. [i \in rows |-> Recorded(i)] \in [rows -> Nat]
    BY <1>1, <1>2, OutcomeAssumption DEF Recorded, Rows
  <2>3. SumFunction([i \in rows |-> Recorded(i)]) \in Nat
    BY <2>1, <2>2, SumType
  <2> QED
    BY <2>1, <2>3, FS_CardinalityType DEF TokensOf, KnownOf
<1>3. Billable(n) \in SUBSET (1..n) /\ KnownOf(1..n) \in SUBSET (1..n)
  BY <1>2 DEF Billable
<1>4. PeriodUsage(n) \in Usages
  BY <1>2, <1>3 DEF PeriodUsage, Usages
<1>5. ASSUME NEW s \in Scopes
      PROVE  DailySummary(s, n) \in DailyDocuments /\ ProviderRequests(s, n) \in Nat
  <2>1. InScope(s, n) \in SUBSET (1..n)
    BY DEF InScope
  <2> QED
    BY <1>2, <1>3, <2>1 DEF DailySummary, ProviderRequests, DailyDocuments
<1> QED
  BY <1>4, <1>5

\* Reported usage and the reservation for the unreported cover what was used.
LEMMA BudgetCovers == RowsOK => BudgetCoversConsumption
<1> SUFFICES ASSUME RowsOK, NEW n \in 0..Len(log)
             PROVE  BudgetStatus(PeriodUsage(n)).budgetedTokens
                        >= SumFunction([i \in Billable(n) |-> log[i].tokens])
  BY DEF BudgetCoversConsumption
<1> DEFINE rows == Billable(n)
           unknown == rows \ KnownOf(rows)
           f == [i \in rows |-> Recorded(i)]
           g == [i \in rows |-> log[i].tokens]
<1>1. IsFiniteSet(1..n) /\ n \in Nat /\ \A i \in 1..n : log[i] \in Rows
  BY FS_Interval DEF RowsOK
<1>2. IsFiniteSet(rows) /\ rows \subseteq 1..n
  BY <1>1, FS_Subset DEF Billable
<1>3. f \in [rows -> Nat] /\ g \in [rows -> Nat] /\ ReservedTokens \in Nat
  BY <1>1, <1>2, OutcomeAssumption DEF Recorded, Rows
<1>4. \A i \in rows : g[i] <= (IF i \in unknown THEN f[i] + ReservedTokens ELSE f[i])
  BY <1>1, <1>2, OutcomeAssumption DEF Recorded, Rows, KnownOf
<1>5. unknown \in SUBSET rows
  OBVIOUS
<1>6. BudgetStatus(PeriodUsage(n)).budgetedTokens
        = SumFunction(f) + ReservedTokens * Cardinality(unknown)
  BY DEF BudgetStatus, Reservation, PeriodUsage, TokensOf
<1>7. SumFunction(f) \in Nat /\ SumFunction(g) \in Nat
  BY <1>2, <1>3, SumType
<1>8. ReservedTokens * Cardinality(unknown) \in Nat
  <2>1. Cardinality(unknown) \in Nat
    BY <1>2, <1>5, FS_Subset, FS_CardinalityType
  <2> QED
    BY <1>3, <2>1
<1>9. SumFunction(g) <= SumFunction(f) + ReservedTokens * Cardinality(unknown)
  <2> HIDE DEF rows, unknown, f, g
  <2> QED  BY <1>2, <1>3, <1>4, <1>5, SumBound
<1> QED
  <2> HIDE DEF f, unknown
  <2> QED  BY <1>6, <1>7, <1>8, <1>9

-----------------------------------------------------------------------------
(***************************************************************************)
(* The invariant, step by step.                                            *)
(***************************************************************************)
\* Steps that write nothing, steps of the API and the anomaly worker, and
\* the steps between a claim and its completion: there are no others.
QuietKind ==
    \/ \E w \in Workers : (ClaimStep(w) /\ UNCHANGED writeVars) \/ ApplyFails(w)
                         \/ (Crash(w) /\ ForgetWork(w))
    \/ \E j \in Jobs : PublishLogged(j) \/ ((Stall(j) \/ Evict(j)) /\ UNCHANGED writeVars)
    \/ UNCHANGED aggregateVars
AsideKind ==
    \/ \E r \in Requests : JudgeUsage(r) \/ \E o \in Outcomes : AppendUsage(r, o)
    \/ BudgetRead \/ BudgetWrite \/ RecordAlert

\* The three kinds are all there are.
LEMMA StepKinds ==
    ASSUME [AggregateNext]_aggregateVars
    PROVE  QuietKind \/ AsideKind \/ \E w \in Workers : ApplyStep(w)
<1>1. CASE \E r \in {RequestOf(j) : j \in Jobs} :
             JudgeUsage(r) \/ \E o \in Outcomes : AppendUsage(r, o)
  BY <1>1 DEF AsideKind, Requests
<1>2. CASE \E j \in Jobs : PublishLogged(j) \/ ((Stall(j) \/ Evict(j)) /\ UNCHANGED writeVars)
  BY <1>2 DEF QuietKind
<1>3. CASE BudgetRead \/ BudgetWrite \/ RecordAlert
  BY <1>3 DEF AsideKind
<1>4. CASE \E w \in Workers :
              \/ ApplyStep(w) \/ ApplyFails(w) \/ (ClaimStep(w) /\ UNCHANGED writeVars)
              \/ Crash(w) /\ ForgetWork(w)
  BY <1>4 DEF QuietKind
<1>5. CASE UNCHANGED aggregateVars
  BY <1>5 DEF QuietKind
<1> QED
  BY <1>1, <1>2, <1>3, <1>4, <1>5 DEF AggregateNext

\* What a claimed worker runs is a job.
LEMMA RunsAJob ==
    ASSUME Claims!LInv, StageOK, NEW w \in Workers, stage[w] # "idle"
    PROVE  runJob[w] \in Jobs
  BY DEF Claims!LInv, Claims!LedgerTypeOK, StageOK, FineStages

\* BullMQ's steps, those of the claim, and a failure: nothing is written, and
\* a worker that gets into the middle of its work was there before.
Quiet ==
    /\ UNCHANGED <<log, rollup, daily, check, events, verdict, alerts, applied>>
    /\ StageOK' /\ work' \in [Workers -> Works]
    /\ \A w \in Workers :
           /\ stage'[w] \in FineStages \ {"apply"} =>
                  stage'[w] = stage[w] /\ runJob'[w] = runJob[w] /\ work'[w] = work[w]
           /\ work'[w] \in {work[w], NoWork}
           /\ stage[w] \in FineStages \ {"apply"} /\ stage'[w] # stage[w] => work'[w] = NoWork

\* Those steps are quiet.
LEMMA QuietSteps ==
    ASSUME AggregateTypeOK, Claims!LInv, QuietKind
    PROVE  Quiet
<1> USE DEF AggregateTypeOK, StageOK, Quiet
<1>0. NoWork \in Works
  BY DEF NoWork, Works
<1>1. ASSUME NEW w \in Workers, ClaimStep(w), UNCHANGED writeVars PROVE Quiet
  <2>1. \E next \in WorkerStages \ (FineStages \ {"apply"}) :
           stage[w] \notin FineStages \ {"apply"} /\ stage' = [stage EXCEPT ![w] = next]
    BY <1>1 DEF ClaimStep, Acquire, Lookup, Complete, ReleaseClaim, JobReturns, JobThrows,
       Deliver, Idle, Goto, WorkerStages, FineStages
  <2>2. applied' = applied /\ \A v \in Workers : v # w => runJob'[v] = runJob[v]
    <3>1. \/ UNCHANGED <<applied, runJob>>
          \/ applied' = applied /\ \E j : runJob' = [runJob EXCEPT ![w] = j]
      BY <1>1 DEF ClaimStep, Acquire, Lookup, Complete, ReleaseClaim, JobReturns, JobThrows,
         Deliver, Idle
    <3>2. runJob \in [Workers -> Jobs \cup {Nobody}]
      BY DEF Claims!LInv, Claims!LedgerTypeOK
    <3> QED
      BY <3>1, <3>2
  <2> QED
    BY <1>1, <2>1, <2>2 DEF writeVars
<1>2. ASSUME NEW w \in Workers, ApplyFails(w) PROVE Quiet
  BY <1>0, <1>2 DEF ApplyFails, ForgetWork, Goto, FineStages, WorkerStages
<1>3. ASSUME NEW w \in Workers, Crash(w), ForgetWork(w) PROVE Quiet
  BY <1>0, <1>3 DEF Crash, Idle, ForgetWork, Goto, FineStages, WorkerStages
<1>4. ASSUME NEW j \in Jobs, PublishLogged(j) PROVE Quiet
  BY <1>4 DEF PublishLogged, PublishJob, writeVars, workerVars
<1>5. ASSUME NEW j \in Jobs, Stall(j) \/ Evict(j), UNCHANGED writeVars PROVE Quiet
  BY <1>5 DEF Stall, Evict, writeVars, workerVars
<1>6. CASE UNCHANGED aggregateVars
  BY <1>6 DEF aggregateVars, ledgerVars, writeVars, workerVars
<1> QED
  BY <1>1, <1>2, <1>3, <1>4, <1>5, <1>6 DEF QuietKind

\* The facts about the documents and about the workers.
DocumentsOK == ToldOK /\ BillingOK /\ DailyOK /\ WorkersOK /\ AlertsOK

\* A quiet step keeps them.
LEMMA QuietKeeps ==
    ASSUME AggregateTypeOK, RowsOK, DocumentsOK, Quiet
    PROVE  AggregateTypeOK' /\ DocumentsOK'
<1>1. AggregateTypeOK'
  BY DEF AggregateTypeOK, Quiet
<1>2. ToldOK'
  BY DEF DocumentsOK, ToldOK, Quiet
<1>3. /\ Totals \subseteq Totals'
      /\ \A s \in Scopes : Summaries(s) \subseteq Summaries(s)'
      /\ \A s \in Scopes : KnownTotals(s) \subseteq KnownTotals(s)'
  BY TotalsStay DEF Quiet, Grows, RowsOK
<1>4. BillingOK' /\ DailyOK'
  BY <1>3 DEF DocumentsOK, BillingOK, DailyOK, Quiet
<1>5. ASSUME NEW w \in Workers PROVE WorkerOK(w)'
  <2>1. \A s \in Scopes : HasRead(w, s)' => work'[w].values[s] \in Summaries(s)'
    BY <1>3 DEF DocumentsOK, WorkersOK, WorkerOK, Quiet, HasRead, NoWork
  <2>2. CASE stage'[w] \notin FineStages \ {"apply"}
    <3>1. work'[w].scope = Organisation
      BY <2>2 DEF DocumentsOK, WorkersOK, WorkerOK, Quiet, NoWork
    <3> QED
      BY <2>1, <2>2, <3>1 DEF WorkerOK, FineStages
  <2>3. CASE stage'[w] \in FineStages \ {"apply"}
    <3>1. /\ stage'[w] = stage[w] /\ work'[w] = work[w] /\ runJob'[w] = runJob[w]
          /\ EntryOf(runJob[w])' = EntryOf(runJob[w])
      BY <2>3 DEF Quiet, EntryOf, RequestOf
    <3>2. ScopeOf(w)' = ScopeOf(w) /\ IsBilling(w)' = IsBilling(w)
      BY <3>1 DEF ScopeOf, IsBilling
    <3> QED
      BY <1>3, <2>1, <3>1, <3>2 DEF DocumentsOK, WorkersOK, WorkerOK, HasRead
  <2> QED
    BY <2>2, <2>3
<1>6. AlertsOK'
  BY <1>3 DEF DocumentsOK, AlertsOK, Deserved, ExceedsBaseline, Quiet, Scopes
<1> QED
  BY <1>1, <1>2, <1>4, <1>5, <1>6 DEF DocumentsOK, WorkersOK

\* A worker's own move: the log, the checks and the other workers stay.
WorkMove(w) ==
    /\ UNCHANGED <<log, check, verdict, alerts, runJob>>
    /\ StageOK' /\ work' \in [Workers -> Works]
    /\ daily' \in [Scopes -> DailyDocuments \cup {NoDocument}]
    /\ \A v \in Workers : v # w => stage'[v] = stage[v] /\ work'[v] = work[v]

\* It is enough to look at that worker and at the documents.
LEMMA WorkMoveKeeps ==
    ASSUME AggregateTypeOK, RowsOK, DocumentsOK, NEW w \in Workers, WorkMove(w),
           WorkerOK(w)', ToldOK', BillingOK', DailyOK'
    PROVE  AggregateTypeOK' /\ DocumentsOK'
<1>1. AggregateTypeOK'
  BY DEF AggregateTypeOK, WorkMove
<1>2. /\ Totals \subseteq Totals'
      /\ \A s \in Scopes : Summaries(s) \subseteq Summaries(s)'
      /\ \A s \in Scopes : KnownTotals(s) \subseteq KnownTotals(s)'
  BY TotalsStay DEF WorkMove, Grows, RowsOK
<1>3. ASSUME NEW v \in Workers, v # w PROVE WorkerOK(v)'
  <2>1. /\ stage'[v] = stage[v] /\ work'[v] = work[v] /\ runJob'[v] = runJob[v]
        /\ EntryOf(runJob[v])' = EntryOf(runJob[v])
    BY <1>3 DEF WorkMove, EntryOf, RequestOf
  <2>2. ScopeOf(v)' = ScopeOf(v) /\ IsBilling(v)' = IsBilling(v)
    BY <2>1 DEF ScopeOf, IsBilling
  <2> QED
    BY <1>2, <2>1, <2>2 DEF DocumentsOK, WorkersOK, WorkerOK, HasRead
<1>4. AlertsOK'
  BY <1>2 DEF DocumentsOK, AlertsOK, Deserved, ExceedsBaseline, WorkMove, Scopes
<1> QED
  BY <1>1, <1>3, <1>4 DEF DocumentsOK, WorkersOK

\* The scope a worker writes is that of its job's row.
LEMMA ScopeFacts ==
    ASSUME AggregateTypeOK, RowsOK, JobsLogged, NEW w \in Workers, stage[w] # "idle"
    PROVE  /\ EntryOf(runJob[w]).user \in Users
           /\ Organisation \notin Users /\ Organisation \in Scopes /\ Users \subseteq Scopes
           /\ ScopeOf(w) \in Scopes
           /\ work[w] \in Works
           /\ ScopeOf(w) = IF work[w].scope = Organisation THEN Organisation
                                                         ELSE EntryOf(runJob[w]).user
<1>1. EntryOf(runJob[w]).user \in Users
  <2>1. PICK i \in 1..Len(log) : log[i].request = RequestOf(runJob[w])
    BY DEF JobsLogged, Logged
  <2>2. EntryOf(runJob[w]) = log[i]
    BY <2>1 DEF EntryOf, RowsOK
  <2>3. log[i] \in Rows
    BY DEF RowsOK
  <2> QED
    BY <2>2, <2>3 DEF Rows
<1> QED
  BY <1>1, OutcomeAssumption DEF AggregateTypeOK, Scopes, ScopeOf

\* Once all is applied the worker knows nothing any more.
LEMMA AppliedMove ==
    ASSUME AggregateTypeOK, DocumentsOK, NEW w \in Workers, NEW from, Applied(w, from),
           UNCHANGED <<check, verdict, alerts, daily>>
    PROVE  WorkMove(w) /\ WorkerOK(w)' /\ DailyOK'
<1>1. WorkMove(w)
  BY DEF AggregateTypeOK, StageOK, Applied, WorkMove, Goto, WorkerStages, NoWork, Works
<1>2. stage'[w] = "complete" /\ work'[w] = NoWork
  BY DEF AggregateTypeOK, StageOK, Applied, Goto
<1>3. WorkerOK(w)'
  BY <1>2 DEF WorkerOK, HasRead, NoWork
<1>4. DailyOK'
  <2>1. \A s \in Scopes : Summaries(s) \subseteq Summaries(s)'
    BY <1>1 DEF WorkMove, Summaries, DailySummary, InScope, KnownOf, TokensOf,
       Billable, Recorded
  <2> QED
    BY <2>1 DEF DocumentsOK, DailyOK
<1> QED
  BY <1>1, <1>3, <1>4

\* A worker between two awaits: how far it gets, and with what.
LEMMA InsideMove ==
    ASSUME AggregateTypeOK, NEW w \in Workers, NEW from, NEW to \in FineStages,
           Inside(w, from, to), work' \in [Workers -> Works],
           \A v \in Workers : v # w => work'[v] = work[v],
           daily' \in [Scopes -> DailyDocuments \cup {NoDocument}],
           UNCHANGED <<check, verdict, alerts>>
    PROVE  /\ WorkMove(w)
           /\ stage'[w] = to /\ stage[w] = from
           /\ UNCHANGED <<log, runJob, applied>>
           /\ EntryOf(runJob[w])' = EntryOf(runJob[w])
           /\ Totals' = Totals /\ \A s \in Scopes : Summaries(s)' = Summaries(s)
<1>1. WorkMove(w) /\ stage'[w] = to /\ stage[w] = from /\ UNCHANGED <<log, runJob, applied>>
  BY DEF AggregateTypeOK, StageOK, Inside, WorkMove, Goto
<1>2. EntryOf(runJob[w])' = EntryOf(runJob[w])
  BY <1>1 DEF EntryOf, RequestOf
<1>3. Totals' = Totals /\ \A s \in Scopes : Summaries(s)' = Summaries(s)
  BY <1>1 DEF Totals, PeriodUsage, Summaries, DailySummary, InScope, KnownOf, TokensOf,
     Billable, Recorded
<1> QED
  BY <1>1, <1>2, <1>3

\* What every step of a worker between claim and completion establishes.
WorkDone(w) == WorkMove(w) /\ WorkerOK(w)' /\ ToldOK' /\ BillingOK' /\ DailyOK'

\* The step that ends the work, with nothing written or with the event.
LEMMA AppliedDone ==
    ASSUME AggregateTypeOK, DocumentsOK, NEW w \in Workers, NEW from, Applied(w, from),
           UNCHANGED <<check, verdict, alerts, daily>>,
           \/ IsBilling(w) /\ events' = events
           \/ events' = events \cup {RequestOf(runJob[w])},
           BillingOK'
    PROVE  WorkDone(w)
<1>1. ToldOK'
  BY DEF DocumentsOK, ToldOK, Applied, IsBilling, RequestOf
<1> QED
  BY <1>1, AppliedMove DEF WorkDone

\* findRequestUsage, and the return without usage.
LEMMA FindLogDone ==
    ASSUME AggregateTypeOK, RowsOK, JobsLogged, DocumentsOK, NEW w \in Workers, FindLog(w)
    PROVE  WorkDone(w)
<1>1. CASE IsBilling(w) /\ ~EntryOf(runJob[w]).known
  <2>1. Applied(w, "apply") /\ UNCHANGED <<rollup, daily, check, events, verdict, alerts, log>>
    BY <1>1 DEF FindLog, Applied
  <2>2. BillingOK'
    BY <2>1 DEF DocumentsOK, BillingOK, Totals, PeriodUsage, Billable, KnownOf, TokensOf,
       Recorded, RollupOf
  <2> QED
    BY <1>1, <2>1, <2>2, AppliedDone
<1>2. CASE ~(IsBilling(w) /\ ~EntryOf(runJob[w]).known)
  <2>1. /\ Inside(w, "apply", "summary")
        /\ UNCHANGED <<work, rollup, daily, check, events, verdict, alerts>>
    BY <1>2 DEF FindLog
  <2>2. /\ WorkMove(w) /\ stage'[w] = "summary" /\ UNCHANGED <<log, runJob, applied>>
        /\ EntryOf(runJob[w])' = EntryOf(runJob[w])
        /\ Totals' = Totals /\ \A s \in Scopes : Summaries(s)' = Summaries(s)
    BY <2>1, InsideMove DEF AggregateTypeOK, FineStages
  <2>3. ToldOK' /\ BillingOK' /\ DailyOK'
    BY <2>1, <2>2 DEF DocumentsOK, ToldOK, BillingOK, DailyOK, RequestOf, RollupOf
  <2>4. stage[w] = "apply" /\ work'[w] = work[w]
    BY <2>1 DEF Inside
  <2>5. WorkerOK(w)'
    BY <2>2, <2>4 DEF DocumentsOK, WorkersOK, WorkerOK, FineStages, HasRead, IsBilling
  <2> QED
    BY <2>2, <2>3, <2>5 DEF WorkDone
<1> QED
  BY <1>1, <1>2

\* Nothing but the worker and its documents move in a step inside the claim.
LEMMA InsideDone ==
    ASSUME DocumentsOK, NEW w \in Workers, WorkMove(w), WorkerOK(w)',
           UNCHANGED <<rollup, events, applied>>,
           \A s \in Scopes : daily'[s] = daily[s] \/ daily'[s] \in Summaries(s)',
           Totals' = Totals /\ \A s \in Scopes : Summaries(s)' = Summaries(s)
    PROVE  WorkDone(w)
<1>1. ToldOK' /\ BillingOK'
  BY DEF DocumentsOK, ToldOK, BillingOK, WorkMove, RequestOf, RollupOf
<1>2. DailyOK'
  BY DEF DocumentsOK, DailyOK
<1> QED
  BY <1>1, <1>2 DEF WorkDone

\* reconcileAuthoritativeTokenRollup reads: the total so far, if nothing in it
\* is unknown.
LEMMA ReadUsageDone ==
    ASSUME AggregateTypeOK, RowsOK, JobsLogged, DocumentsOK, NEW w \in Workers, ReadUsage(w)
    PROVE  WorkDone(w)
<1> DEFINE usage == PeriodUsage(Len(log))
<1>1. CASE usage.unresolved # 0
  <2>1. /\ Applied(w, "summary") /\ IsBilling(w)
        /\ UNCHANGED <<rollup, daily, check, events, verdict, alerts, log>>
    BY <1>1 DEF ReadUsage, Applied
  <2>2. BillingOK'
    BY <2>1 DEF DocumentsOK, BillingOK, Totals, PeriodUsage, Billable, KnownOf, TokensOf,
       Recorded, RollupOf
  <2> QED
    BY <2>1, <2>2, AppliedDone
<1>2. CASE usage.unresolved = 0
  <2>1. usage \in Usages /\ usage \in Totals
    BY QueryTypes DEF RowsOK, Totals
  <2>2. /\ Inside(w, "summary", "upsert") /\ work' = [work EXCEPT ![w].used = usage]
        /\ UNCHANGED <<rollup, daily, check, events, verdict, alerts>>
        /\ stage[w] = "summary" /\ IsBilling(w)
    BY <1>2 DEF ReadUsage
  <2> HIDE DEF usage
  <2>3. /\ work' \in [Workers -> Works] /\ work'[w].used = usage
        /\ work'[w].scope = work[w].scope /\ work'[w].values = work[w].values
        /\ \A v \in Workers : v # w => work'[v] = work[v]
    BY <2>1, <2>2 DEF AggregateTypeOK, Works
  <2>4. /\ WorkMove(w) /\ stage'[w] = "upsert" /\ UNCHANGED <<log, runJob, applied>>
        /\ Totals' = Totals /\ \A s \in Scopes : Summaries(s)' = Summaries(s)
    BY <2>2, <2>3, InsideMove DEF AggregateTypeOK, FineStages
  <2>5. WorkerOK(w)'
    BY <1>2, <2>1, <2>2, <2>3, <2>4
       DEF DocumentsOK, WorkersOK, WorkerOK, FineStages, HasRead, IsBilling, usage
  <2> QED
    BY <2>2, <2>4, <2>5, InsideDone
<1> QED
  BY <1>1, <1>2

\* upsertBillingRollup writes the total that was read.
LEMMA UpsertRollupDone ==
    ASSUME AggregateTypeOK, RowsOK, JobsLogged, DocumentsOK, NEW w \in Workers, UpsertRollup(w)
    PROVE  WorkDone(w)
<1>1. /\ Applied(w, "upsert") /\ UNCHANGED <<daily, check, events, verdict, alerts, log>>
      /\ stage[w] = "upsert" /\ rollup' = RollupOf(work[w].used)
  BY DEF UpsertRollup, Applied
<1>2. IsBilling(w) /\ work[w].used \in Totals /\ work[w].used.unresolved = 0
  BY <1>1 DEF DocumentsOK, WorkersOK, WorkerOK
<1>3. Totals' = Totals
  BY <1>1 DEF Totals, PeriodUsage, Billable, KnownOf, TokensOf, Recorded
<1>4. BillingOK'
  BY <1>1, <1>2, <1>3 DEF DocumentsOK, BillingOK, RollupOf
<1> QED
  BY <1>1, <1>2, <1>4, AppliedDone

\* aggregateDaily, first query.
LEMMA ReadSummaryDone ==
    ASSUME AggregateTypeOK, RowsOK, JobsLogged, DocumentsOK, NEW w \in Workers, ReadSummary(w)
    PROVE  WorkDone(w)
<1> DEFINE s == ScopeOf(w)
           read == DailySummary(s, Len(log))
<1>1. /\ Inside(w, "summary", "providers") /\ work' = [work EXCEPT ![w].values[s] = read]
      /\ UNCHANGED <<rollup, daily, check, events, verdict, alerts>>
      /\ stage[w] = "summary" /\ ~IsBilling(w)
  BY DEF ReadSummary
<1>2. s \in Scopes /\ work[w] \in Works /\ Organisation \in Scopes
  BY <1>1, ScopeFacts
<1>3. read \in DailyDocuments /\ read \in Summaries(s) /\ read # NoDocument
  <2>1. Len(log) \in 0..Len(log) /\ read \in DailyDocuments
    BY <1>2, QueryTypes DEF RowsOK
  <2>2. read.providerRequests = 0
    BY DEF DailySummary
  <2>3. read = [read EXCEPT !.providerRequests = 0]
    <3> HIDE DEF read
    <3> QED  BY <2>1, <2>2 DEF DailyDocuments
  <2> QED
    BY <2>1, <2>3, NullAssumption DEF Summaries
<1> HIDE DEF read
<1>4. /\ work' \in [Workers -> Works] /\ work'[w].values = [work[w].values EXCEPT ![s] = read]
      /\ work'[w].scope = work[w].scope
      /\ \A v \in Workers : v # w => work'[v] = work[v]
  BY <1>1, <1>2, <1>3 DEF AggregateTypeOK, Works
<1>5. /\ WorkMove(w) /\ stage'[w] = "providers" /\ UNCHANGED <<log, runJob, applied>>
      /\ EntryOf(runJob[w])' = EntryOf(runJob[w])
      /\ Totals' = Totals /\ \A t \in Scopes : Summaries(t)' = Summaries(t)
  BY <1>1, <1>4, InsideMove DEF AggregateTypeOK, FineStages
<1>6. ScopeOf(w)' = s
  BY <1>4, <1>5 DEF ScopeOf
<1>7. /\ work'[w].values[s] = read
      /\ \A t \in Scopes : t # s => work'[w].values[t] = work[w].values[t]
  BY <1>2, <1>4 DEF Works
<1>8. work'[w].values[s] # NoDocument /\ HasRead(w, Organisation)'
  <2>1. work[w].scope # Organisation => HasRead(w, Organisation)
    BY <1>1 DEF DocumentsOK, WorkersOK, WorkerOK
  <2>2. s = Organisation \/ HasRead(w, Organisation)
    BY <2>1 DEF ScopeOf
  <2> QED
    BY <1>2, <1>3, <1>7, <2>2 DEF HasRead
<1>9. WorkerOK(w)'
  <2>1. \A t \in Scopes : HasRead(w, t)' => work'[w].values[t] \in Summaries(t)'
    BY <1>3, <1>5, <1>7 DEF DocumentsOK, WorkersOK, WorkerOK, HasRead
  <2>2. ~IsBilling(w)'
    BY <1>1, <1>5 DEF IsBilling
  <2>3. HasRead(w, ScopeOf(w))'
    BY <1>6, <1>8 DEF HasRead
  <2> QED
    BY <1>5, <1>8, <2>1, <2>2, <2>3 DEF WorkerOK, FineStages
<1> QED
  BY <1>1, <1>5, <1>9, InsideDone

\* A summary whose provider requests are counted anew is a summary.
LEMMA Recounted ==
    ASSUME RowsOK, NEW s \in Scopes, NEW doc \in Summaries(s), NEW p \in Nat
    PROVE  /\ doc \in DailyDocuments
           /\ [doc EXCEPT !.providerRequests = p] \in Summaries(s)
           /\ [doc EXCEPT !.providerRequests = p] \in DailyDocuments
<1>1. PICK n \in 0..Len(log), q \in Nat :
         doc = [DailySummary(s, n) EXCEPT !.providerRequests = q]
  BY DEF Summaries
<1>2. DailySummary(s, n) \in DailyDocuments
  BY QueryTypes
<1>3. [doc EXCEPT !.providerRequests = p] = [DailySummary(s, n) EXCEPT !.providerRequests = p]
  BY <1>1, <1>2 DEF DailyDocuments
<1> QED
  BY <1>1, <1>2, <1>3 DEF Summaries, DailyDocuments

\* aggregateDaily, second query: the organisation's, then the user's.
LEMMA ReadProvidersDone ==
    ASSUME AggregateTypeOK, RowsOK, JobsLogged, DocumentsOK, NEW w \in Workers, ReadProviders(w)
    PROVE  WorkDone(w)
<1> DEFINE s == ScopeOf(w)
           user == EntryOf(runJob[w]).user
           read == [ValuesOf(w) EXCEPT !.providerRequests = ProviderRequests(s, Len(log))]
           to == IF work[w].scope = Organisation THEN "summary" ELSE "update"
           next == IF work[w].scope = Organisation THEN "USER" ELSE Organisation
<1>1. /\ Inside(w, "providers", to)
      /\ work' = [work EXCEPT ![w].values[s] = read, ![w].scope = next]
      /\ UNCHANGED <<rollup, daily, check, events, verdict, alerts>>
      /\ stage[w] = "providers"
  BY DEF ReadProviders, Inside
<1>2. /\ s \in Scopes /\ work[w] \in Works /\ Organisation \in Scopes /\ user \in Scopes
      /\ s = IF work[w].scope = Organisation THEN Organisation ELSE user
  BY <1>1, ScopeFacts
<1>3. ~IsBilling(w) /\ HasRead(w, Organisation) /\ HasRead(w, s)
  BY <1>1 DEF DocumentsOK, WorkersOK, WorkerOK
<1>4. read \in DailyDocuments /\ read \in Summaries(s) /\ read # NoDocument
  <2>1. ProviderRequests(s, Len(log)) \in Nat
    BY <1>2, QueryTypes DEF RowsOK
  <2>2. ValuesOf(w) \in Summaries(s)
    BY <1>2, <1>3 DEF DocumentsOK, WorkersOK, WorkerOK, HasRead, ValuesOf
  <2> QED
    BY <1>2, <2>1, <2>2, Recounted, NullAssumption
<1>5. next \in {Organisation, "USER"} /\ to \in FineStages
  BY DEF FineStages
<1> HIDE DEF read, to, next
<1>6. /\ work' \in [Workers -> Works] /\ work'[w].values = [work[w].values EXCEPT ![s] = read]
      /\ work'[w].scope = next
      /\ \A v \in Workers : v # w => work'[v] = work[v]
  BY <1>1, <1>2, <1>4, <1>5 DEF AggregateTypeOK, Works
<1>7. /\ WorkMove(w) /\ stage'[w] = to /\ UNCHANGED <<log, runJob, applied>>
      /\ EntryOf(runJob[w])' = EntryOf(runJob[w])
      /\ Totals' = Totals /\ \A t \in Scopes : Summaries(t)' = Summaries(t)
  BY <1>1, <1>5, <1>6, InsideMove DEF AggregateTypeOK
<1>8. /\ work'[w].values[s] = read
      /\ \A t \in Scopes : t # s => work'[w].values[t] = work[w].values[t]
  BY <1>2, <1>6 DEF Works
<1>9. HasRead(w, Organisation)' /\ work'[w].values[s] # NoDocument
  BY <1>2, <1>3, <1>4, <1>8 DEF HasRead
<1>10. to = "update" => work'[w].values[user] # NoDocument
  BY <1>2, <1>9 DEF to
<1>11. WorkerOK(w)'
  <2>1. \A t \in Scopes : HasRead(w, t)' => work'[w].values[t] \in Summaries(t)'
    BY <1>4, <1>7, <1>8 DEF DocumentsOK, WorkersOK, WorkerOK, HasRead
  <2>2. ~IsBilling(w)'
    BY <1>3, <1>7 DEF IsBilling
  <2>3. to = "update" => HasRead(w, EntryOf(runJob[w]).user)'
    BY <1>7, <1>10 DEF HasRead
  <2>4. to \in {"summary", "update"}
    BY DEF to
  <2> QED
    BY <1>7, <1>9, <2>1, <2>2, <2>3, <2>4 DEF WorkerOK, FineStages
<1> QED
  BY <1>1, <1>7, <1>11, InsideDone

Upserting == {"update", "find", "create"}

\* A worker that upserts has read both scopes, and holds a summary of its own.
LEMMA UpsertFacts ==
    ASSUME AggregateTypeOK, RowsOK, JobsLogged, DocumentsOK, NEW w \in Workers,
           stage[w] \in Upserting
    PROVE  /\ ScopeOf(w) \in Scopes
           /\ ValuesOf(w) \in Summaries(ScopeOf(w))
           /\ ValuesOf(w) \in DailyDocuments
           /\ ValuesOf(w) # NoDocument
<1>1. /\ ScopeOf(w) \in Scopes
      /\ ScopeOf(w) = IF work[w].scope = Organisation THEN Organisation
                                                     ELSE EntryOf(runJob[w]).user
  BY ScopeFacts DEF Upserting
<1>2. HasRead(w, Organisation) /\ HasRead(w, EntryOf(runJob[w]).user)
  BY DEF DocumentsOK, WorkersOK, WorkerOK, Upserting
<1>3. HasRead(w, ScopeOf(w))
  BY <1>1, <1>2
<1>4. ValuesOf(w) \in Summaries(ScopeOf(w)) /\ ValuesOf(w) # NoDocument
  BY <1>1, <1>3 DEF DocumentsOK, WorkersOK, WorkerOK, HasRead, ValuesOf
<1> QED
  BY <1>1, <1>4, Recounted

\* A scope is done, its document written or found newer.
LEMMA ScopeDoneDone ==
    ASSUME AggregateTypeOK, RowsOK, JobsLogged, DocumentsOK, NEW w \in Workers,
           NEW from \in Upserting, ScopeDone(w, from),
           UNCHANGED <<rollup, check, events, verdict, alerts>>,
           daily' \in {daily, [daily EXCEPT ![ScopeOf(w)] = ValuesOf(w)]}
    PROVE  WorkDone(w)
<1> DEFINE to == IF work[w].scope = Organisation THEN "update" ELSE "event"
<1>1. /\ Inside(w, from, to) /\ work' = [work EXCEPT ![w].scope = "USER"]
      /\ stage[w] \in Upserting
  BY DEF ScopeDone, Inside
<1>2. /\ ScopeOf(w) \in Scopes /\ ValuesOf(w) \in Summaries(ScopeOf(w))
      /\ ValuesOf(w) \in DailyDocuments
  BY <1>1, UpsertFacts
<1>3. to \in {"update", "event"} /\ to \in FineStages
  BY DEF FineStages
<1> HIDE DEF to
<1>4. /\ work' \in [Workers -> Works] /\ work'[w].values = work[w].values
      /\ \A v \in Workers : v # w => work'[v] = work[v]
  BY <1>1 DEF AggregateTypeOK, Works
<1>5. daily' \in [Scopes -> DailyDocuments \cup {NoDocument}]
  BY <1>2 DEF AggregateTypeOK
<1>6. /\ WorkMove(w) /\ stage'[w] = to /\ UNCHANGED <<log, runJob, applied>>
      /\ EntryOf(runJob[w])' = EntryOf(runJob[w])
      /\ Totals' = Totals /\ \A t \in Scopes : Summaries(t)' = Summaries(t)
  BY <1>1, <1>3, <1>4, <1>5, InsideMove
<1>7. \A t \in Scopes : daily'[t] = daily[t] \/ daily'[t] \in Summaries(t)'
  BY <1>2, <1>6 DEF AggregateTypeOK
<1>8. WorkerOK(w)'
  <2>1. \A t \in Scopes : HasRead(w, t)' => work'[w].values[t] \in Summaries(t)'
    BY <1>4, <1>6 DEF DocumentsOK, WorkersOK, WorkerOK, HasRead
  <2>2. ~IsBilling(w)'
    BY <1>1, <1>6 DEF DocumentsOK, WorkersOK, WorkerOK, IsBilling, Upserting
  <2>3. HasRead(w, Organisation)' /\ HasRead(w, EntryOf(runJob[w]).user)'
    BY <1>1, <1>4, <1>6 DEF DocumentsOK, WorkersOK, WorkerOK, HasRead, Upserting
  <2> QED
    BY <1>3, <1>6, <2>1, <2>2, <2>3 DEF WorkerOK, FineStages
<1> QED
  BY <1>6, <1>7, <1>8, InsideDone

\* A move from one of the three calls to the next, with nothing written.
LEMMA UpsertMoves ==
    ASSUME AggregateTypeOK, RowsOK, JobsLogged, DocumentsOK, NEW w \in Workers,
           NEW from \in Upserting, NEW to \in Upserting, Inside(w, from, to),
           UNCHANGED <<work, rollup, daily, check, events, verdict, alerts>>
    PROVE  WorkDone(w)
<1>1. /\ WorkMove(w) /\ stage'[w] = to /\ stage[w] = from /\ UNCHANGED <<log, runJob, applied>>
      /\ EntryOf(runJob[w])' = EntryOf(runJob[w])
      /\ Totals' = Totals /\ \A t \in Scopes : Summaries(t)' = Summaries(t)
  BY InsideMove DEF AggregateTypeOK, FineStages, Upserting
<1>2. WorkerOK(w)'
  BY <1>1 DEF DocumentsOK, WorkersOK, WorkerOK, HasRead, IsBilling, Upserting, FineStages
<1> QED
  BY <1>1, <1>2, InsideDone

\* upsertDailyAggregate.
LEMMA DailyDone ==
    ASSUME AggregateTypeOK, RowsOK, JobsLogged, DocumentsOK, NEW w \in Workers,
           UpdateDaily(w) \/ FindDaily(w) \/ CreateDaily(w)
    PROVE  WorkDone(w)
<1>1. CASE UpdateDaily(w)
  BY <1>1, ScopeDoneDone, UpsertMoves DEF UpdateDaily, Upserting
<1>2. CASE FindDaily(w)
  BY <1>2, ScopeDoneDone, UpsertMoves DEF FindDaily, Upserting
<1>3. CASE CreateDaily(w)
  BY <1>3, ScopeDoneDone DEF CreateDaily, Upserting
<1> QED
  BY <1>1, <1>2, <1>3

\* enqueueUsageUpdatedJob, the last step of analytics.
LEMMA EventDone ==
    ASSUME AggregateTypeOK, RowsOK, JobsLogged, DocumentsOK, NEW w \in Workers,
           EnqueueUsageUpdated(w)
    PROVE  WorkDone(w)
<1>1. /\ Applied(w, "event") /\ UNCHANGED <<rollup, daily, check, verdict, alerts, log>>
      /\ events' = events \cup {RequestOf(runJob[w])}
  BY DEF EnqueueUsageUpdated, Applied
<1>2. BillingOK'
  BY <1>1 DEF DocumentsOK, BillingOK, Totals, PeriodUsage, Billable, KnownOf, TokensOf,
     Recorded, RollupOf
<1> QED
  BY <1>1, <1>2, AppliedDone

\* Steps of the API and of the anomaly worker: the log may have grown, the
\* workers have not moved.
LEMMA AsideKeeps ==
    ASSUME AggregateTypeOK, RowsOK, RowsOK', JobsLogged, DocumentsOK, Grows,
           UNCHANGED <<stage, runJob, applied, daily, work, events>>
    PROVE  ToldOK' /\ DailyOK' /\ WorkersOK'
<1>1. /\ Totals \subseteq Totals'
      /\ \A s \in Scopes : Summaries(s) \subseteq Summaries(s)'
  BY TotalsStay
<1>2. ToldOK' /\ DailyOK'
  BY <1>1 DEF DocumentsOK, ToldOK, DailyOK, RequestOf
<1>3. ASSUME NEW w \in Workers PROVE WorkerOK(w)'
  <2>1. CASE stage[w] = "idle"
    BY <1>1, <2>1 DEF DocumentsOK, WorkersOK, WorkerOK, HasRead
  <2>2. CASE stage[w] # "idle"
    <3>1. EntryOf(runJob[w])' = EntryOf(runJob[w])
      <4>1. RequestOf(runJob[w]) \in Logged
        BY <2>2 DEF JobsLogged
      <4>2. PICK j : j = runJob[w]
        OBVIOUS
      <4>3. EntryOf(j)' = EntryOf(j)
        BY <4>1, <4>2, EntryStable
      <4> QED
        BY <4>2, <4>3 DEF EntryOf, RequestOf
    <3>2. ScopeOf(w)' = ScopeOf(w) /\ IsBilling(w)' = IsBilling(w)
      BY <3>1 DEF ScopeOf, IsBilling
    <3> QED
      BY <1>1, <3>1, <3>2 DEF DocumentsOK, WorkersOK, WorkerOK, HasRead
  <2> QED
    BY <2>1, <2>2
<1> QED
  BY <1>2, <1>3 DEF WorkersOK

\* A document of the day as the anomaly worker reads it.
LEMMA SummaryFields ==
    ASSUME RowsOK, NEW s \in Scopes, NEW doc \in Summaries(s), doc.unknownUsage = 0
    PROVE  doc.totalTokens \in KnownTotals(s)
<1>1. PICK n \in 0..Len(log), p \in Nat :
         doc = [DailySummary(s, n) EXCEPT !.providerRequests = p]
  BY DEF Summaries
<1>2. DailySummary(s, n) \in DailyDocuments
  BY QueryTypes
<1>3. /\ doc.unknownUsage = DailySummary(s, n).unknownUsage
      /\ doc.totalTokens = DailySummary(s, n).totalTokens
  BY <1>1, <1>2 DEF DailyDocuments
<1> QED
  BY <1>3 DEF KnownTotals

\* The API and the anomaly worker keep the facts.
LEMMA AsideDone ==
    ASSUME AggregateTypeOK, RowsOK, RowsOK', JobsLogged, DocumentsOK, Grows, AsideKind
    PROVE  AggregateTypeOK' /\ DocumentsOK'
<1> USE DEF AsideKind, ledgerVars, workerVars
<1>0. /\ Totals \subseteq Totals'
      /\ \A s \in Scopes : KnownTotals(s) \subseteq KnownTotals(s)'
  BY TotalsStay
<1>1. UNCHANGED <<stage, runJob, applied, daily, work, events>>
  BY DEF JudgeUsage, AppendUsage, BudgetRead, BudgetWrite, RecordAlert
<1>2. ToldOK' /\ DailyOK' /\ WorkersOK'
  BY <1>1, AsideKeeps
<1>3. AggregateTypeOK'
  BY <1>1 DEF AggregateTypeOK, StageOK, JudgeUsage, AppendUsage, BudgetRead, BudgetWrite,
     RecordAlert
<1>4. BillingOK'
  <2>1. CASE \/ \E r \in Requests : JudgeUsage(r) \/ \E o \in Outcomes : AppendUsage(r, o)
             \/ RecordAlert
    BY <1>0, <2>1 DEF DocumentsOK, BillingOK, RollupOf, JudgeUsage, AppendUsage, RecordAlert
  <2>2. CASE BudgetRead
    <3>1. check' \in Totals /\ rollup' = rollup
      BY <2>2 DEF BudgetRead, Totals, RowsOK
    <3> QED
      BY <1>0, <3>1 DEF DocumentsOK, BillingOK, RollupOf
  <2>3. CASE BudgetWrite
    <3>1. check \in Totals /\ check' = NoDocument
      BY <2>3 DEF DocumentsOK, BillingOK, BudgetWrite
    <3>2. check.unresolved \in Nat
      BY <3>1, QueryTypes DEF Totals, Usages
    <3>3. Reservation(check) = 0 => check.unresolved = 0
      BY <3>2, OutcomeAssumption DEF Reservation
    <3> QED
      BY <1>0, <2>3, <3>1, <3>3 DEF DocumentsOK, BillingOK, RollupOf, BudgetWrite
  <2> QED
    BY <2>1, <2>2, <2>3
<1>5. AlertsOK'
  <2>1. CASE BudgetRead \/ BudgetWrite \/ \E r \in Requests, o \in Outcomes : AppendUsage(r, o)
    BY <1>0, <2>1 DEF DocumentsOK, AlertsOK, Deserved, ExceedsBaseline, Scopes, BudgetRead,
       BudgetWrite, AppendUsage
  <2>2. CASE RecordAlert
    BY <1>0, <2>2 DEF DocumentsOK, AlertsOK, Deserved, ExceedsBaseline, Scopes, RecordAlert,
       AggregateTypeOK
  <2>3. ASSUME NEW r \in Requests, JudgeUsage(r) PROVE AlertsOK'
    <3> DEFINE u == EntryOf(<<r>>).user
               doc == daily[u]
    <3>1. /\ verdict' = [user |-> u, observedTokens |-> doc.totalTokens]
          /\ r \in events /\ doc # NoDocument /\ doc.unknownUsage = 0
          /\ ExceedsBaseline(doc.totalTokens) /\ UNCHANGED <<log, alerts>>
      BY <2>3 DEF JudgeUsage, HasCompleteUsage
    <3>2. u \in Users
      <4>1. RequestOf(<<r>>) \in Logged
        BY <3>1 DEF JobsLogged, RequestOf
      <4> QED
        BY <4>1, EntryStable
    <3>3. doc.totalTokens \in KnownTotals(u)
      <4>1. u \in Scopes /\ doc \in Summaries(u)
        BY <3>1, <3>2 DEF DocumentsOK, DailyOK, Scopes
      <4> QED
        BY <3>1, <4>1, SummaryFields
    <3> HIDE DEF u, doc
    <3>4. PICK v \in Users : v = u
      BY <3>2
    <3>5. /\ verdict'.user = v /\ verdict'.observedTokens = doc.totalTokens
          /\ doc.totalTokens \in KnownTotals(v)'
      BY <1>0, <3>1, <3>3, <3>4 DEF Scopes
    <3>6. \A x \in Users : alerts'[x] # NoDocument => Deserved(x, alerts[x])'
      BY <1>0, <3>1 DEF DocumentsOK, AlertsOK, Deserved, ExceedsBaseline, Scopes
    <3> QED
      BY <3>1, <3>5, <3>6 DEF AlertsOK, Deserved, ExceedsBaseline
  <2> QED
    BY <2>1, <2>2, <2>3
<1> QED
  BY <1>2, <1>3, <1>4, <1>5 DEF DocumentsOK

\* A job is published, delivered and retried only for a logged request.
LEMMA JobsLoggedStep ==
    ASSUME AggregateTypeOK, RowsOK, JobsLogged, Claims!LInv, Grows, [AggregateNext]_aggregateVars
    PROVE  JobsLogged'
<1> USE DEF AggregateTypeOK, StageOK
<1>1. Logged \subseteq Logged'
  BY DEF Logged, Grows
<1>2. /\ jobState \in [Jobs -> JobStates] /\ runJob \in [Workers -> Jobs \cup {Nobody}]
  BY DEF Claims!LInv, Claims!LedgerTypeOK, JobStates, Claims!JobStates
<1>3. ASSUME events' = events, UNCHANGED jobState,
             \A w \in Workers : stage'[w] # "idle" => stage[w] # "idle" /\ runJob'[w] = runJob[w]
      PROVE  JobsLogged'
  BY <1>1, <1>3 DEF JobsLogged, RequestOf
<1>4. CASE \/ \E r \in Requests : JudgeUsage(r) \/ \E o \in Outcomes : AppendUsage(r, o)
           \/ BudgetRead \/ BudgetWrite \/ RecordAlert \/ UNCHANGED aggregateVars
  BY <1>3, <1>4 DEF JudgeUsage, AppendUsage, BudgetRead, BudgetWrite, RecordAlert,
     aggregateVars, writeVars, ledgerVars, queueVars, workerVars
<1>5. ASSUME NEW w \in Workers, ApplyStep(w) PROVE JobsLogged'
  <2>1. /\ UNCHANGED <<jobState, runJob>> /\ stage[w] # "idle"
        /\ \E next \in FineStages \cup {"complete"} : stage' = [stage EXCEPT ![w] = next]
    <3>1. CASE \/ \E from \in FineStages : Applied(w, from)
               \/ \E from, to \in FineStages : Inside(w, from, to)
      BY <3>1 DEF Applied, Inside, Goto, FineStages, queueVars
    <3>2. CASE FindLog(w) \/ ReadUsage(w) \/ UpsertRollup(w) \/ EnqueueUsageUpdated(w)
      BY <3>1, <3>2 DEF FindLog, ReadUsage, UpsertRollup, EnqueueUsageUpdated, FineStages
    <3>3. CASE ReadSummary(w)
      BY <3>1, <3>3 DEF ReadSummary, FineStages
    <3>4. CASE ReadProviders(w)
      <4>1. \E to \in FineStages : Inside(w, "providers", to)
        BY <3>4 DEF ReadProviders, FineStages
      <4> QED
        BY <3>1, <4>1 DEF FineStages
    <3>5. ASSUME NEW from \in FineStages, ScopeDone(w, from)
          PROVE  \E to \in FineStages : Inside(w, from, to)
      BY <3>5 DEF ScopeDone, FineStages
    <3>6. CASE UpdateDaily(w) \/ FindDaily(w) \/ CreateDaily(w)
      BY <3>1, <3>5, <3>6 DEF UpdateDaily, FindDaily, CreateDaily, FineStages
    <3> QED
      BY <1>5, <3>2, <3>3, <3>4, <3>6 DEF ApplyStep
  <2>2. \A v \in Workers : stage'[v] # "idle" => stage[v] # "idle" /\ runJob'[v] = runJob[v]
    BY <2>1
  <2>3. events' = events \/ events' = events \cup {RequestOf(runJob[w])}
    BY <1>5 DEF ApplyStep, FindLog, ReadUsage, UpsertRollup, ReadSummary, ReadProviders,
       UpdateDaily, FindDaily, CreateDaily, EnqueueUsageUpdated
  <2>4. RequestOf(runJob[w]) \in Logged
    BY <2>1 DEF JobsLogged
  <2> QED
    BY <1>1, <2>1, <2>2, <2>3, <2>4 DEF JobsLogged, RequestOf
<1>6. ASSUME NEW w \in Workers, ApplyFails(w) \/ (Crash(w) /\ ForgetWork(w)) PROVE JobsLogged'
  BY <1>2, <1>3, <1>6 DEF ApplyFails, Crash, ForgetWork, Idle, Goto, queueVars, FineStages
<1>7. ASSUME NEW w \in Workers, ClaimStep(w), UNCHANGED writeVars PROVE JobsLogged'
  <2>0. events' = events
    BY <1>7 DEF writeVars
  <2>1. CASE Acquire(w) \/ Lookup(w) \/ Complete(w) \/ ReleaseClaim(w)
    BY <1>2, <1>3, <2>0, <2>1 DEF Acquire, Lookup, Complete, ReleaseClaim, Goto, queueVars
  <2>2. ASSUME NEW j \in Jobs, Deliver(w, j) PROVE JobsLogged'
    BY <1>1, <1>2, <2>0, <2>2 DEF JobsLogged, Deliver, Goto, RequestOf
  <2>3. CASE JobReturns(w)
    BY <1>1, <1>2, <2>0, <2>3 DEF JobsLogged, JobReturns, Idle, Goto, RequestOf
  <2>4. CASE JobThrows(w)
    <3>1. RequestOf(runJob[w]) \in Logged
      BY <2>4 DEF JobsLogged, JobThrows
    <3>2. \A j \in Jobs : jobState'[j] = jobState[j] \/ j = runJob[w]
      BY <1>2, <2>4 DEF JobThrows
    <3> QED
      BY <1>1, <1>2, <2>0, <2>4, <3>1, <3>2 DEF JobsLogged, JobThrows, Idle, Goto, RequestOf
  <2> QED
    BY <1>7, <2>1, <2>2, <2>3, <2>4 DEF ClaimStep
<1>8. ASSUME NEW j \in Jobs, PublishLogged(j) PROVE JobsLogged'
  <2>1. /\ RequestOf(j) \in Logged /\ events' = events /\ UNCHANGED <<stage, runJob>>
        /\ \A k \in Jobs : jobState'[k] = jobState[k] \/ k = j
    BY <1>2, <1>8 DEF PublishLogged, PublishJob, Publish, writeVars, workerVars, queueVars
  <2> QED
    BY <1>1, <2>1 DEF JobsLogged, RequestOf
<1>9. ASSUME NEW j \in Jobs, Stall(j) \/ Evict(j), UNCHANGED writeVars PROVE JobsLogged'
  BY <1>1, <1>2, <1>9 DEF JobsLogged, Stall, Evict, writeVars, workerVars, RequestOf
<1> QED
  BY <1>4, <1>5, <1>6, <1>7, <1>8, <1>9 DEF AggregateNext, Requests

\* A step of the job ledger, by either name of its instance.
LEMMA SameLedger ==
    ASSUME [Ledger!LedgerNext]_(Ledger!ledgerVars)
    PROVE  [Claims!LedgerNext]_(Claims!ledgerVars)
  BY DEF Ledger!LedgerNext, Ledger!ledgerVars, Ledger!queueVars, Ledger!workerVars,
     Ledger!WorkerStep, Ledger!Acquire, Ledger!Lookup, Ledger!Apply, Ledger!Complete,
     Ledger!ReleaseClaim, Ledger!JobReturns, Ledger!JobThrows, Ledger!Crash, Ledger!Deliver,
     Ledger!PublishJob, Ledger!Publish, Ledger!Stall, Ledger!Evict, Ledger!Goto, Ledger!Fault,
     Ledger!Idle, Ledger!HoldsLock, Ledger!MayTakeOver, Ledger!DeleteProcessing,
     Ledger!StalledTooOften,
     Claims!LedgerNext, Claims!ledgerVars, Claims!queueVars, Claims!workerVars,
     Claims!WorkerStep, Claims!Acquire, Claims!Lookup, Claims!Apply, Claims!Complete,
     Claims!ReleaseClaim, Claims!JobReturns, Claims!JobThrows, Claims!Crash, Claims!Deliver,
     Claims!PublishJob, Claims!Publish, Claims!Stall, Claims!Evict, Claims!Goto, Claims!Fault,
     Claims!Idle, Claims!HoldsLock, Claims!MayTakeOver, Claims!DeleteProcessing,
     Claims!StalledTooOften

\* The claims seen through the coarse stages are those of the job ledger.
LEMMA ClaimsStep ==
    ASSUME Claims!LInv, StageOK, [AggregateNext]_aggregateVars
    PROVE  Claims!LInv'
<1>1. [Claims!LedgerNext]_(Claims!ledgerVars)
  BY StepMaps, SameLedger
<1> QED
  BY <1>1, Claims!LInvStep, JobAssumption, LimitAssumption, FaultsAssumption
     DEF FaultKinds, Claims!FaultKinds

\* The invariant holds before anything is logged.
LEMMA AggregatesInit == AggregateInit => AInv
<1> SUFFICES ASSUME AggregateInit PROVE AInv
  OBVIOUS
<1>1. AggregateTypeOK
  BY DEF AggregateInit, LedgerInit, AggregateTypeOK, StageOK, WorkerStages, NoWork, Works
<1>2. RowsOK /\ Logged = {} /\ JobsLogged
  BY DEF AggregateInit, LedgerInit, RowsOK, Logged, JobsLogged
<1>3. ToldOK /\ BillingOK /\ DailyOK /\ AlertsOK
  BY DEF AggregateInit, LedgerInit, ToldOK, BillingOK, DailyOK, AlertsOK
<1>4. WorkersOK
  BY DEF AggregateInit, LedgerInit, WorkersOK, WorkerOK, NoWork, HasRead, FineStages
<1>5. Claims!LInv
  <2>1. [w \in Workers |-> IF stage[w] \in FineStages THEN "apply" ELSE stage[w]]
          = [w \in Workers |-> "idle"]
    BY DEF AggregateInit, LedgerInit, FineStages
  <2>2. Claims!LedgerInit
    BY <2>1 DEF AggregateInit, LedgerInit, Claims!LedgerInit
  <2> QED
    BY <2>2, Claims!InitLInv, JobAssumption, LimitAssumption, FaultsAssumption
       DEF FaultKinds, Claims!FaultKinds
<1> QED
  BY <1>1, <1>2, <1>3, <1>4, <1>5 DEF AInv

\* Every step keeps it.
LEMMA AggregatesStep == AInv /\ [AggregateNext]_aggregateVars => AInv'
<1> SUFFICES ASSUME AInv, [AggregateNext]_aggregateVars PROVE AInv'
  OBVIOUS
<1>1. /\ AggregateTypeOK /\ RowsOK /\ JobsLogged /\ DocumentsOK /\ Claims!LInv /\ StageOK
  BY DEF AInv, DocumentsOK, AggregateTypeOK
<1>2. Grows /\ RowsOK'
  BY <1>1, LogStep
<1>3. JobsLogged' /\ Claims!LInv'
  BY <1>1, <1>2, JobsLoggedStep, ClaimsStep
<1>4. AggregateTypeOK' /\ DocumentsOK'
  <2>1. ASSUME NEW w \in Workers, ApplyStep(w) PROVE AggregateTypeOK' /\ DocumentsOK'
    <3>1. WorkDone(w)
      BY <1>1, <2>1, FindLogDone, ReadUsageDone, UpsertRollupDone, ReadSummaryDone,
         ReadProvidersDone, DailyDone, EventDone DEF ApplyStep
    <3> QED
      BY <1>1, <3>1, WorkMoveKeeps DEF WorkDone
  <2>2. CASE QuietKind
    BY <1>1, <2>2, QuietSteps, QuietKeeps
  <2>3. CASE AsideKind
    BY <1>1, <1>2, <2>3, AsideDone
  <2> QED
    BY <2>1, <2>2, <2>3, StepKinds
<1> QED
  BY <1>2, <1>3, <1>4 DEF AInv, DocumentsOK

-----------------------------------------------------------------------------
(***************************************************************************)
(* Theorems.                                                               *)
(***************************************************************************)
\* The inductive invariant of the aggregates.
THEOREM AggregatesInvariant == AggregateSpec => []AInv
  BY AggregatesInit, AggregatesStep, PTL DEF AggregateSpec

\* The workers, with every await of theirs a step of its own, implement the
\* claim protocol of the job ledger.
THEOREM AggregatesRefineLedger == AggregateSpec => LedgerProtocol
<1>1. AggregateInit => Ledger!LedgerInit
  <2> SUFFICES ASSUME AggregateInit PROVE Ledger!LedgerInit
    OBVIOUS
  <2>1. [w \in Workers |-> IF stage[w] \in FineStages THEN "apply" ELSE stage[w]]
          = [w \in Workers |-> "idle"]
    BY DEF AggregateInit, LedgerInit, FineStages
  <2> QED
    BY <2>1 DEF AggregateInit, LedgerInit, Ledger!LedgerInit
<1>2. AInv /\ [AggregateNext]_aggregateVars => [Ledger!LedgerNext]_(Ledger!ledgerVars)
  BY StepMaps DEF AInv, AggregateTypeOK
<1> QED
  BY <1>1, <1>2, AggregatesInvariant, PTL DEF AggregateSpec, LedgerProtocol, Ledger!LedgerSpec

\* The totals the budget is judged by: the rollup is the total of a prefix of
\* the log whose usage is all known, and reported usage plus reservation
\* covers what was consumed, for every log.
THEOREM TotalsAreExact == AggregateSpec => []TotalsExact
<1>1. AInv => TotalsExact
  <2> SUFFICES ASSUME AInv PROVE TotalsExact
    OBVIOUS
  <2>1. RollupIsATotal
    BY DEF AInv, BillingOK, Totals, RollupIsATotal, RollupOf
  <2>2. BudgetCoversConsumption
    BY BudgetCovers DEF AInv
  <2> QED
    BY <2>1, <2>2 DEF TotalsExact
<1> QED
  BY <1>1, AggregatesInvariant, PTL

\* A completed analytics job has told the anomaly worker, and an alert names a
\* total of the day that was fully known and exceeds the baseline.
THEOREM AlertsAreExact == AggregateSpec => []AlertsExact
<1>1. AInv => AlertsExact
  <2> SUFFICES ASSUME AInv PROVE AlertsExact
    OBVIOUS
  <2>1. CompletedMeansTold
    BY DEF AInv, ToldOK, CompletedMeansTold, Claims!LInv, Claims!ClaimsOK,
       Claims!CompletedMeansApplied
  <2>2. AlertDeserved
    <3> SUFFICES ASSUME NEW u \in Users, alerts[u] # NoDocument
                 PROVE  \E n \in 0..Len(log) :
                           /\ DailySummary(u, n).unknownUsage = 0
                           /\ DailySummary(u, n).totalTokens = alerts[u].observedTokens
                           /\ alerts[u].observedTokens * BaselineDays > 2 * BaselineTokens
      BY DEF AlertDeserved
    <3>1. Deserved(u, alerts[u])
      BY DEF AInv, AlertsOK
    <3> QED
      BY <3>1 DEF Deserved, KnownTotals, ExceedsBaseline, ThresholdMultiplier
  <2> QED
    BY <2>1, <2>2 DEF AlertsExact
<1> QED
  BY <1>1, AggregatesInvariant, PTL

\* The ledger documents keep their meaning while the work behind "apply" is
\* spread over many awaits.
THEOREM AggregatesLedgerSound == AggregateSpec => []LedgerSound
<1>1. AInv => LedgerSound
  <2> SUFFICES ASSUME AInv PROVE LedgerSound
    OBVIOUS
  <2>1. CompletedMeansApplied
    BY DEF AInv, Claims!LInv, Claims!ClaimsOK, CompletedMeansApplied,
       Claims!CompletedMeansApplied
  <2>2. \A w \in Workers : Claiming(w) <=> Claims!Claiming(w)
    BY DEF Claiming, Claims!Claiming, FineStages
  <2>3. AnalyticsExclusive
    BY <2>2 DEF AInv, Claims!LInv, Claims!ClaimsOK, AnalyticsExclusive,
       Claims!AnalyticsExclusive
  <2> QED
    BY <2>1, <2>3 DEF LedgerSound
<1> QED
  BY <1>1, AggregatesInvariant, PTL

\* A worker that read early and writes late does not undo a newer aggregate.
THEOREM DailyOnlyGrows == AggregateSpec => DailyNeverGoesBack
<1> DEFINE Forward == \A s \in Scopes : daily[s] # NoDocument =>
                         /\ daily'[s] # NoDocument
                         /\ daily'[s].totalRequests >= daily[s].totalRequests
<1>1. ASSUME AInv, [AggregateNext]_aggregateVars PROVE [Forward]_aggregateVars
  <2>0. daily \in [Scopes -> DailyDocuments \cup {NoDocument}]
    BY <1>1 DEF AInv, AggregateTypeOK
  <2>1. ASSUME UNCHANGED daily PROVE Forward
    BY <2>0, <2>1 DEF DailyDocuments
  <2>2. ASSUME NEW w \in Workers, stage[w] \in Upserting,
               daily' = [daily EXCEPT ![ScopeOf(w)] = ValuesOf(w)],
               daily[ScopeOf(w)] = NoDocument \/ NotNewer(w)
        PROVE  Forward
    <3>1. /\ ScopeOf(w) \in Scopes /\ ValuesOf(w) # NoDocument
          /\ ValuesOf(w) \in DailyDocuments
      BY <1>1, <2>2, UpsertFacts DEF AInv, DocumentsOK
    <3> QED
      BY <2>0, <2>2, <3>1 DEF NotNewer, DailyDocuments
  <2>3. ASSUME NEW w \in Workers, ApplyStep(w) PROVE Forward
    <3>1. CASE UpdateDaily(w)
      BY <2>1, <2>2, <3>1 DEF UpdateDaily, Upserting
    <3>2. CASE CreateDaily(w)
      BY <2>1, <2>2, <3>2 DEF CreateDaily, Upserting
    <3> QED
      BY <2>1, <2>3, <3>1, <3>2 DEF ApplyStep, FindLog, ReadUsage, UpsertRollup, ReadSummary,
         ReadProviders, FindDaily, EnqueueUsageUpdated
  <2>4. CASE QuietKind \/ AsideKind
    BY <2>1, <2>4 DEF QuietKind, AsideKind, aggregateVars, writeVars, ApplyFails, ForgetWork,
       PublishLogged, JudgeUsage, AppendUsage, BudgetRead, BudgetWrite, RecordAlert
  <2> QED
    BY <1>1, <2>3, <2>4, StepKinds
<1> QED
  BY <1>1, AggregatesInvariant, PTL DEF AggregateSpec, DailyNeverGoesBack

\* COMPLETED is final for the workers with their awaits as well: what the job
\* ledger promises carries over through the refinement.
THEOREM AggregatesCompletedIsFinal == AggregateSpec => CompletedIsFinal
<1>1. AInv /\ [AggregateNext]_aggregateVars => [Claims!LedgerNext]_(Claims!ledgerVars)
  BY StepMaps, SameLedger DEF AInv, AggregateTypeOK
<1>2. AggregateInit => Claims!LedgerInit
  <2> SUFFICES ASSUME AggregateInit PROVE Claims!LedgerInit
    OBVIOUS
  <2>1. [w \in Workers |-> IF stage[w] \in FineStages THEN "apply" ELSE stage[w]]
          = [w \in Workers |-> "idle"]
    BY DEF AggregateInit, LedgerInit, FineStages
  <2> QED
    BY <2>1 DEF AggregateInit, LedgerInit, Claims!LedgerInit
<1>3. AggregateSpec => Claims!LedgerSpec
  BY <1>1, <1>2, AggregatesInvariant, PTL DEF AggregateSpec, Claims!LedgerSpec
<1>4. Faults \subseteq Claims!FaultKinds
  BY FaultsAssumption DEF FaultKinds, Claims!FaultKinds
<1>5. Claims!LedgerSpec => Claims!CompletedIsFinal
  BY <1>4, Claims!CompletedNeverUndone, JobAssumption, LimitAssumption
<1> DEFINE Final == \A j \in Jobs : ledger[j] = "COMPLETED" => ledger'[j] = "COMPLETED"
<1>6. [Final]_(Claims!ledgerVars) => [Final]_ledgerVars
  BY DEF Claims!ledgerVars
<1>7. Claims!CompletedIsFinal => CompletedIsFinal
  BY <1>6, PTL DEF Claims!CompletedIsFinal, CompletedIsFinal
<1> QED
  BY <1>3, <1>5, <1>7, PTL
=============================================================================
