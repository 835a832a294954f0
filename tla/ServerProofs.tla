---------------------------- MODULE ServerProofs -----------------------------
(***************************************************************************)
(* What the server promises its clients in time, for any number of         *)
(* requests of any kinds, any size of the pool, any backoff configuration  *)
(* and any durations.                                                      *)
(*                                                                         *)
(* The shutdown.  The main goroutine learns whether requests are in flight *)
(* only once, when Shutdown returns.  DrainInv says what remains true of   *)
(* that answer: after nil nobody can come back into flight, because every  *)
(* step of a request starts from one that is in flight already, and a      *)
(* request meets the closed pool or the exit only after the deadline.      *)
(*                                                                         *)
(* The pool.  PoolFits relates the queue and the connections to what each  *)
(* request is at: it waits or holds for one query at a time.  The number   *)
(* of connections used is a sum over a function (FoldFunction), of which   *)
(* SumUpdate says what one entry does to it.                               *)
(*                                                                         *)
(* The deadlines.  BudgetInv accounts for the time of a request: preamble, *)
(* attempts, delays.  The powers in a delay and the sum of the delays are  *)
(* recursive functions; Recursion says that such functions exist, and what *)
(* they are follows by NaturalInduction, induction for a set of naturals.  *)
(***************************************************************************)
EXTENDS Lifecycle, Deadlines, FiniteSetTheorems, SequenceTheorems, WellFoundedInduction, TLAPS

-----------------------------------------------------------------------------
(* Induction and recursion *)

LEMMA LeastNatural ==
    ASSUME NEW S, S \subseteq Nat, S /= {}
    PROVE  \E n \in S : \A m \in S : n <= m
<1> DEFINE Less == OpToRel(<, Nat)
<1>1. PICK n \in S : \A m \in S : <<m, n>> \notin Less
  <2> HIDE DEF Less
  <2>1. IsWellFoundedOn(Less, Nat)
    BY NatLessThanWellFounded DEF Less
  <2> QED
    BY <2>1, WFMin
<1>2. \A m \in S : m < n => <<m, n>> \in Less
  BY DEF OpToRel
<1> HIDE DEF Less
<1>3. \A m \in S : ~(m < n)
  BY <1>1, <1>2
<1> QED
  BY <1>3

\* Induction over the naturals, for a set that holds 0 and the successors of its
\* members.
LEMMA NaturalInduction ==
    ASSUME NEW P, 0 \in P, \A n \in Nat : n \in P => n + 1 \in P
    PROVE  Nat \subseteq P
<1> SUFFICES ASSUME Nat \ P /= {} PROVE FALSE
  OBVIOUS
<1>1. PICK n \in Nat \ P : \A m \in Nat \ P : n <= m
  <2>1. Nat \ P \subseteq Nat
    OBVIOUS
  <2> QED
    BY <2>1, LeastNatural
<1>2. n - 1 \in Nat /\ n - 1 < n /\ (n - 1) + 1 = n
  BY <1>1
<1> QED
  BY <1>1, <1>2

\* f begins with a and follows g for n steps.
Follows(f, a, g, n) ==
    f[0] = a /\ \A i \in 0..(n - 1) : f[i + 1] = g[<<i, f[i]>>]

LEMMA FollowsOneMore ==
    ASSUME NEW a \in Nat, NEW g \in [Nat \X Nat -> Nat], NEW n \in Nat,
           NEW f \in [Nat -> Nat], Follows(f, a, g, n)
    PROVE  \E h \in [Nat -> Nat] : Follows(h, a, g, n + 1)
<1>1. PICK x \in Nat : x = g[<<n, f[n]>>]
  OBVIOUS
<1>2. PICK m \in Nat : m = n + 1 /\ m /= 0 /\ m - 1 = n
  OBVIOUS
<1>3. PICK h : h = [f EXCEPT ![m] = x]
  OBVIOUS
<1>4. h \in [Nat -> Nat] /\ h[m] = x /\ \A i \in Nat : i /= m => h[i] = f[i]
  BY <1>1, <1>2, <1>3
<1>5. ASSUME NEW i \in 0..n PROVE h[i + 1] = g[<<i, h[i]>>]
  <2>1. i \in Nat /\ i /= m
    BY <1>2
  <2>2. CASE i = n
    BY <1>1, <1>2, <1>4, <2>1, <2>2
  <2>3. CASE i \in 0..(n - 1)
    <3>1. f[i + 1] = g[<<i, f[i]>>]
      BY <2>3 DEF Follows
    <3>2. i + 1 \in Nat /\ i + 1 /= m
      BY <1>2, <2>3
    <3> QED
      BY <1>4, <2>1, <3>1, <3>2
  <2> QED
    BY <2>2, <2>3
<1> QED
  BY <1>2, <1>4, <1>5 DEF Follows

LEMMA SomeFollows ==
    ASSUME NEW a \in Nat, NEW g \in [Nat \X Nat -> Nat]
    PROVE  \A n \in Nat : \E f \in [Nat -> Nat] : Follows(f, a, g, n)
<1> DEFINE P == {n \in Nat : \E f \in [Nat -> Nat] : Follows(f, a, g, n)}
<1>1. 0 \in P
  <2>1. [i \in Nat |-> a] \in [Nat -> Nat]
    OBVIOUS
  <2>2. Follows([i \in Nat |-> a], a, g, 0)
    BY DEF Follows
  <2> QED
    BY <2>1, <2>2
<1>2. ASSUME NEW n \in Nat, n \in P PROVE n + 1 \in P
  <2>1. PICK f \in [Nat -> Nat] : Follows(f, a, g, n)
    BY <1>2
  <2>2. \E h \in [Nat -> Nat] : Follows(h, a, g, n + 1)
    BY <2>1, FollowsOneMore
  <2> QED
    BY <2>2
<1>3. Nat \subseteq P
  <2> HIDE DEF P
  <2> QED
    BY <1>1, <1>2, NaturalInduction
<1> QED
  BY <1>3

LEMMA FollowersAgree ==
    ASSUME NEW a, NEW g, NEW n \in Nat, NEW f, NEW h,
           Follows(f, a, g, n), Follows(h, a, g, n)
    PROVE  \A i \in 0..n : f[i] = h[i]
<1> DEFINE Bad == {i \in 0..n : f[i] /= h[i]}
<1> SUFFICES ASSUME Bad /= {} PROVE FALSE
  OBVIOUS
<1>1. PICK i \in Bad : \A j \in Bad : i <= j
  <2>1. Bad \subseteq Nat
    OBVIOUS
  <2> HIDE DEF Bad
  <2> QED
    BY <2>1, LeastNatural
<1>2. i /= 0
  BY DEF Follows
<1>3. PICK k \in 0..(n - 1) : k + 1 = i
  <2>1. i - 1 \in 0..(n - 1) /\ (i - 1) + 1 = i
    BY <1>2
  <2> QED
    BY <2>1
<1>4. f[k] = h[k]
  BY <1>1, <1>3
<1> QED
  BY <1>3, <1>4 DEF Follows

\* Recursion over the naturals: what g makes of a, step by step.
LEMMA Recursion ==
    ASSUME NEW a \in Nat, NEW g \in [Nat \X Nat -> Nat]
    PROVE  \E f \in [Nat -> Nat] : f[0] = a /\ \A n \in Nat : f[n + 1] = g[<<n, f[n]>>]
<1> DEFINE F(n) == CHOOSE f \in [Nat -> Nat] : Follows(f, a, g, n)
<1>1. \A n \in Nat : F(n) \in [Nat -> Nat] /\ Follows(F(n), a, g, n)
  BY SomeFollows
<1> HIDE DEF F
<1>2. PICK f : f = [n \in Nat |-> F(n)[n]]
  OBVIOUS
<1>3. f \in [Nat -> Nat] /\ \A n \in Nat : f[n] = F(n)[n]
  BY <1>1, <1>2
<1>4. f[0] = a
  BY <1>1, <1>3 DEF Follows
<1>5. ASSUME NEW n \in Nat PROVE f[n + 1] = g[<<n, f[n]>>]
  <2>1. PICK m \in Nat : m = n + 1
    OBVIOUS
  <2>2. PICK h : h = F(m)
    OBVIOUS
  <2>3. Follows(h, a, g, m) /\ f[m] = h[m]
    BY <1>1, <1>3, <2>2
  <2>4. Follows(h, a, g, n) /\ h[m] = g[<<n, h[n]>>]
    BY <2>1, <2>3 DEF Follows
  <2>5. F(n)[n] = h[n]
    BY <1>1, <2>4, FollowersAgree
  <2> QED
    BY <1>3, <2>1, <2>3, <2>4, <2>5
<1> QED
  BY <1>3, <1>4, <1>5

-----------------------------------------------------------------------------
(* Sums over the entries of a function, as FoldFunction takes them *)

Some(s) == CHOOSE x \in s : TRUE

\* it sums f over every subset of S, taking the elements as FoldFunction does.
Sums(it, f, S) ==
    it = [s \in SUBSET S |-> IF s = {} THEN 0 ELSE f[Some(s)] + it[s \ {Some(s)}]]

SumsOf(f, S) == CHOOSE it : Sums(it, f, S)

LEMMA HeldIsSum == Held = SumsOf(holding, DOMAIN holding)[DOMAIN holding]
BY DEF Held, FoldFunction, FoldFunctionOnSet, MapThenFoldSet, SumsOf, Sums, Some

\* A set of subsets of S that holds the empty one, and each that it holds without
\* the element FoldFunction takes first, holds them all.
LEMMA SubsetInduction ==
    ASSUME NEW S, IsFiniteSet(S), NEW P, {} \in P,
           \A s \in SUBSET S : s /= {} /\ s \ {Some(s)} \in P => s \in P
    PROVE  SUBSET S \subseteq P
<1> SUFFICES ASSUME NEW t \in SUBSET S, t \notin P PROVE FALSE
  OBVIOUS
<1> DEFINE Sizes == {Cardinality(s) : s \in (SUBSET S) \ P}
<1>1. \A s \in SUBSET S : IsFiniteSet(s) /\ Cardinality(s) \in Nat
  BY FS_Subset, FS_CardinalityType
<1>2. PICK n \in Sizes : \A m \in Sizes : n <= m
  <2>1. Sizes \subseteq Nat /\ Sizes /= {}
    BY <1>1
  <2> HIDE DEF Sizes
  <2> QED
    BY <2>1, LeastNatural
<1>3. PICK s \in (SUBSET S) \ P : n = Cardinality(s)
  OBVIOUS
<1>4. s /= {}
  OBVIOUS
<1>5. Some(s) \in s
  BY <1>4 DEF Some
<1>6. PICK x : x = Some(s)
  OBVIOUS
<1>7. Cardinality(s \ {x}) = Cardinality(s) - 1
  BY <1>1, <1>5, <1>6, FS_RemoveElement
<1>8. s \ {x} \notin P
  BY <1>4, <1>6
<1>9. Cardinality(s \ {x}) \in Sizes
  BY <1>8
<1> HIDE DEF Sizes
<1>10. n <= Cardinality(s \ {x})
  BY <1>2, <1>9
<1> QED
  BY <1>1, <1>3, <1>7, <1>10

\* it is right for the subsets of at most n elements.
SumsUpTo(it, f, S, n) ==
    \A s \in SUBSET S : Cardinality(s) <= n =>
        it[s] = IF s = {} THEN 0 ELSE f[Some(s)] + it[s \ {Some(s)}]

LEMMA SumsOneMore ==
    ASSUME NEW S, IsFiniteSet(S), NEW f \in [S -> Nat], NEW n \in Nat,
           NEW it \in [SUBSET S -> Nat], SumsUpTo(it, f, S, n)
    PROVE  \E to \in [SUBSET S -> Nat] : SumsUpTo(to, f, S, n + 1)
<1>1. \A s \in SUBSET S : s /= {} => Some(s) \in S /\ Some(s) \in s /\ s \ {Some(s)} \in SUBSET S
  BY DEF Some
<1>2. PICK to : to = [s \in SUBSET S |-> IF s = {} THEN 0 ELSE f[Some(s)] + it[s \ {Some(s)}]]
  OBVIOUS
<1>3. \A s \in SUBSET S : to[s] = IF s = {} THEN 0 ELSE f[Some(s)] + it[s \ {Some(s)}]
  BY <1>2
<1>4. to \in [SUBSET S -> Nat]
  <2>1. ASSUME NEW s \in SUBSET S PROVE (IF s = {} THEN 0 ELSE f[Some(s)] + it[s \ {Some(s)}]) \in Nat
    BY <1>1
  <2> QED
    BY <1>2, <2>1
<1>5. \A s \in SUBSET S : Cardinality(s) <= n => to[s] = it[s]
  BY <1>3 DEF SumsUpTo
<1>6. ASSUME NEW s \in SUBSET S, Cardinality(s) <= n + 1
      PROVE  to[s] = IF s = {} THEN 0 ELSE f[Some(s)] + to[s \ {Some(s)}]
  <2>1. CASE s = {}
    BY <1>3, <2>1
  <2>2. CASE s /= {}
    <3>1. PICK x : x = Some(s) /\ x \in s
      BY <1>1, <2>2
    <3>2. IsFiniteSet(s) /\ Cardinality(s) \in Nat
      BY FS_Subset, FS_CardinalityType
    <3>3. Cardinality(s \ {x}) = Cardinality(s) - 1
      BY <3>1, <3>2, FS_RemoveElement
    <3>4. Cardinality(s \ {x}) <= n
      BY <1>6, <3>2, <3>3
    <3>5. to[s \ {x}] = it[s \ {x}]
      BY <1>5, <3>4
    <3> QED
      BY <1>3, <2>2, <3>1, <3>5
  <2> QED
    BY <2>1, <2>2
<1> QED
  BY <1>4, <1>6 DEF SumsUpTo

LEMMA SumsExist ==
    ASSUME NEW S, IsFiniteSet(S), NEW f \in [S -> Nat]
    PROVE  \E it \in [SUBSET S -> Nat] : Sums(it, f, S)
<1> DEFINE P == {n \in Nat : \E it \in [SUBSET S -> Nat] : SumsUpTo(it, f, S, n)}
<1>1. 0 \in P
  <2>1. PICK it \in [SUBSET S -> Nat] : \A s \in SUBSET S : it[s] = 0
    <3>1. [s \in SUBSET S |-> 0] \in [SUBSET S -> Nat]
      OBVIOUS
    <3> QED
      BY <3>1
  <2>2. \A s \in SUBSET S : Cardinality(s) <= 0 => s = {}
    BY FS_Subset, FS_EmptySet, FS_CardinalityType
  <2>3. SumsUpTo(it, f, S, 0)
    BY <2>1, <2>2 DEF SumsUpTo
  <2> QED
    BY <2>3
<1>2. ASSUME NEW n \in Nat, n \in P PROVE n + 1 \in P
  <2>1. PICK it \in [SUBSET S -> Nat] : SumsUpTo(it, f, S, n)
    BY <1>2
  <2>2. \E to \in [SUBSET S -> Nat] : SumsUpTo(to, f, S, n + 1)
    BY <2>1, SumsOneMore
  <2> QED
    BY <2>2
<1>3. Nat \subseteq P
  <2> HIDE DEF P
  <2> QED
    BY <1>1, <1>2, NaturalInduction
<1>4. PICK n \in Nat : n = Cardinality(S)
  BY FS_CardinalityType
<1>5. PICK it \in [SUBSET S -> Nat] : SumsUpTo(it, f, S, n)
  BY <1>3
<1>6. \A s \in SUBSET S : Cardinality(s) <= n
  BY <1>4, FS_Subset
<1>7. \A s \in SUBSET S : it[s] = IF s = {} THEN 0 ELSE f[Some(s)] + it[s \ {Some(s)}]
  BY <1>5, <1>6 DEF SumsUpTo
<1>8. it = [s \in SUBSET S |-> IF s = {} THEN 0 ELSE f[Some(s)] + it[s \ {Some(s)}]]
  BY <1>7
<1> QED
  BY <1>8, Zenon DEF Sums

LEMMA SumsMeans ==
    ASSUME NEW S, IsFiniteSet(S), NEW f \in [S -> Nat]
    PROVE  \A s \in SUBSET S :
              SumsOf(f, S)[s] = IF s = {} THEN 0 ELSE f[Some(s)] + SumsOf(f, S)[s \ {Some(s)}]
<1>1. Sums(SumsOf(f, S), f, S)
  BY SumsExist DEF SumsOf
<1>2. PICK it : it = SumsOf(f, S)
  OBVIOUS
<1>3. it = [s \in SUBSET S |-> IF s = {} THEN 0 ELSE f[Some(s)] + it[s \ {Some(s)}]]
  BY <1>1, <1>2, Zenon DEF Sums
<1>4. \A s \in SUBSET S : it[s] = IF s = {} THEN 0 ELSE f[Some(s)] + it[s \ {Some(s)}]
  BY <1>3
<1> QED
  BY <1>2, <1>4

LEMMA SumType ==
    ASSUME NEW S, IsFiniteSet(S), NEW f \in [S -> Nat]
    PROVE  \A s \in SUBSET S : SumsOf(f, S)[s] \in Nat
<1>1. PICK it : it = SumsOf(f, S)
  OBVIOUS
<1>2. \A s \in SUBSET S : it[s] = IF s = {} THEN 0 ELSE f[Some(s)] + it[s \ {Some(s)}]
  BY <1>1, SumsMeans
<1> DEFINE P == {s \in SUBSET S : it[s] \in Nat}
<1>3. {} \in P
  <2>1. {} \in SUBSET S
    OBVIOUS
  <2>2. it[{}] = 0
    BY <1>2, <2>1
  <2> QED
    BY <2>1, <2>2
<1>4. ASSUME NEW s \in SUBSET S, s /= {}, s \ {Some(s)} \in P PROVE s \in P
  <2>1. f[Some(s)] \in Nat
    BY <1>4 DEF Some
  <2>2. it[s \ {Some(s)}] \in Nat
    BY <1>4
  <2>3. it[s] = f[Some(s)] + it[s \ {Some(s)}]
    BY <1>2, <1>4
  <2> QED
    BY <2>1, <2>2, <2>3
<1>5. SUBSET S \subseteq P
  <2> HIDE DEF P
  <2> QED
    BY <1>3, <1>4, SubsetInduction
<1> QED
  BY <1>1, <1>5

\* Changing one entry changes the sum by as much.
LEMMA SumUpdate ==
    ASSUME NEW S, IsFiniteSet(S), NEW f \in [S -> Nat], NEW g \in [S -> Nat], NEW r \in S,
           \A x \in S : x /= r => g[x] = f[x]
    PROVE  SumsOf(g, S)[S] + f[r] = SumsOf(f, S)[S] + g[r]
<1>1. PICK it : it = SumsOf(f, S)
  OBVIOUS
<1>2. PICK to : to = SumsOf(g, S)
  OBVIOUS
<1>3. \A s \in SUBSET S : it[s] \in Nat /\ to[s] \in Nat
  BY <1>1, <1>2, SumType
<1>4. \A s \in SUBSET S : it[s] = IF s = {} THEN 0 ELSE f[Some(s)] + it[s \ {Some(s)}]
  BY <1>1, SumsMeans
<1>5. \A s \in SUBSET S : to[s] = IF s = {} THEN 0 ELSE g[Some(s)] + to[s \ {Some(s)}]
  BY <1>2, SumsMeans
<1> DEFINE P == {s \in SUBSET S : IF r \in s THEN to[s] + f[r] = it[s] + g[r] ELSE to[s] = it[s]}
<1>6. {} \in P
  BY <1>4, <1>5
<1>7. ASSUME NEW s \in SUBSET S, s /= {}, s \ {Some(s)} \in P PROVE s \in P
  <2>1. PICK x \in S : x = Some(s) /\ x \in s
    BY <1>7 DEF Some
  <2>2. PICK u \in SUBSET S : u = s \ {x}
    OBVIOUS
  <2>3. it[s] = f[x] + it[u] /\ to[s] = g[x] + to[u]
    BY <1>4, <1>5, <1>7, <2>1, <2>2
  <2>4. IF r \in u THEN to[u] + f[r] = it[u] + g[r] ELSE to[u] = it[u]
    BY <1>7, <2>1, <2>2
  <2>5. it[u] \in Nat /\ to[u] \in Nat /\ f[x] \in Nat /\ g[x] \in Nat /\ f[r] \in Nat /\ g[r] \in Nat
    BY <1>3
  <2>6. CASE x = r
    <3>1. r \in s /\ r \notin u
      BY <2>1, <2>2, <2>6
    <3> QED
      BY <2>3, <2>4, <2>5, <2>6, <3>1
  <2>7. CASE x /= r
    <3>1. (r \in s) = (r \in u) /\ f[x] = g[x]
      BY <2>1, <2>2, <2>7
    <3> QED
      BY <2>3, <2>4, <2>5, <2>7, <3>1
  <2> QED
    BY <2>6, <2>7
<1>8. SUBSET S \subseteq P
  <2> HIDE DEF P
  <2> QED
    BY <1>6, <1>7, SubsetInduction
<1> QED
  BY <1>1, <1>2, <1>8

LEMMA SumOfNothing ==
    ASSUME NEW S, IsFiniteSet(S)
    PROVE  SumsOf([x \in S |-> 0], S)[S] = 0
<1>1. PICK f : f = [x \in S |-> 0]
  OBVIOUS
<1> f \in [S -> Nat] /\ \A x \in S : f[x] = 0
  BY <1>1
<1>2. PICK it : it = SumsOf(f, S)
  OBVIOUS
<1>3. \A s \in SUBSET S : it[s] = IF s = {} THEN 0 ELSE f[Some(s)] + it[s \ {Some(s)}]
  BY <1>2, SumsMeans
<1> DEFINE P == {s \in SUBSET S : it[s] = 0}
<1>4. {} \in P
  BY <1>3
<1>5. ASSUME NEW s \in SUBSET S, s /= {}, s \ {Some(s)} \in P PROVE s \in P
  <2>1. Some(s) \in S
    BY <1>5 DEF Some
  <2> QED
    BY <1>1, <1>3, <1>5, <2>1
<1>6. SUBSET S \subseteq P
  <2> HIDE DEF P
  <2> QED
    BY <1>4, <1>5, SubsetInduction
<1> QED
  BY <1>1, <1>2, <1>6

LEMMA HeldIsSumNext == Held' = SumsOf(holding', DOMAIN holding')[DOMAIN holding']
BY DEF Held, FoldFunction, FoldFunctionOnSet, MapThenFoldSet, SumsOf, Sums, Some

-----------------------------------------------------------------------------
(* The shutdown *)

Stages == {"new", "lookup", "execute", "answered", "lost"}

\* Where the main goroutine is and what it knows of the requests.
DrainInv ==
    /\ stage \in [Requests -> Stages]
    /\ drain \in {"none", "nil", "deadline"}
    /\ main \in {"loading", "connecting", "serving", "draining"} => drain = "none"
    /\ main = "closing" => drain \in {"nil", "deadline"}
    /\ main /= "exited" => \A r \in Requests : stage[r] /= "lost"
    /\ drain = "nil" => \A r \in Requests : stage[r] \in {"new", "answered"}
    /\ refused /= {} => drain = "deadline"

-----------------------------------------------------------------------------
\* A request that moves on stays what it is or is answered; it never comes into
\* flight by it, and it moves no other request.
LEMMA Advance ==
    ASSUME NEW r \in Requests, stage \in [Requests -> Stages], InFlight(r),
           Succeeds(r) \/ Fails(r) \/ AnswerNow(r)
    PROVE  /\ stage' \in [Requests -> Stages]
           /\ \A q \in Requests : q /= r => stage'[q] = stage[q]
           /\ stage'[r] \in {"lookup", "execute", "answered"}
<1>1. CASE AnswerNow(r)
  BY <1>1 DEF AnswerNow, Stages
<1>2. CASE TryTool(r)
  BY <1>2 DEF TryTool, Stages
<1>3. CASE Continue(r)
  BY <1>3 DEF Continue, InFlight, Stages
<1>4. AnswerNow(r) \/ TryTool(r) \/ Continue(r)
  BY DEF Succeeds, Fails
<1> QED
  BY <1>1, <1>2, <1>3, <1>4

\* The step of a request that leaves the main goroutine alone keeps the invariant,
\* if it marks the request as refused only while the pool is closed.
LEMMA RequestMoves ==
    ASSUME NEW r \in Requests, DrainInv, InFlight(r), Alive,
           Succeeds(r) \/ Fails(r) \/ AnswerNow(r),
           UNCHANGED <<main, drain>>,
           refused' = refused \/ PoolClosed
    PROVE  DrainInv'
<1>1. /\ stage' \in [Requests -> Stages]
      /\ \A q \in Requests : q /= r => stage'[q] = stage[q]
      /\ stage'[r] /= "lost"
  BY Advance DEF DrainInv
<1>2. drain /= "nil"
  BY DEF DrainInv, InFlight
<1>3. (refused /= {} => drain = "deadline")'
  BY <1>2 DEF DrainInv, PoolClosed
<1> QED
  BY <1>1, <1>2, <1>3 DEF DrainInv

\* A step that changes no stage, no answer of Shutdown and no refusal.
LEMMA NothingMoves ==
    ASSUME DrainInv, UNCHANGED <<main, drain, stage, refused>>
    PROVE  DrainInv'
BY DEF DrainInv

\* The exit loses the requests in flight, of which there are none after nil.
LEMMA ExitKeeps ==
    ASSUME DrainInv, Exit
    PROVE  DrainInv'
<1>1. stage' \in [Requests -> Stages]
  BY DEF Exit, DrainInv, Stages, InFlight
<1>2. (drain = "nil" => \A r \in Requests : stage[r] \in {"new", "answered"})'
  BY DEF Exit, DrainInv, InFlight
<1> QED
  BY <1>1, <1>2 DEF Exit, DrainInv

-----------------------------------------------------------------------------
LEMMA InitDrains ==
    Init => DrainInv
BY DEF Init, DrainInv, Stages

LEMMA RequestStepDrains ==
    ASSUME NEW r \in Requests, DrainInv, RequestStep(r)
    PROVE  DrainInv'
<1>1. CASE Arrive(r)
  BY <1>1 DEF Arrive, DrainInv, Stages
<1>2. CASE Acquire(r)
  <2>1. CASE PoolClosed
    BY <1>2, <2>1, RequestMoves DEF Acquire, Ready
  <2>2. CASE ~PoolClosed
    BY <1>2, <2>2, NothingMoves DEF Acquire
  <2> QED
    BY <2>1, <2>2
<1>3. CASE Abandon(r)
  BY <1>3, RequestMoves DEF Abandon, StopWaiting, Ready
<1>4. CASE TurnAway(r)
  BY <1>4, RequestMoves DEF TurnAway, StopWaiting, Ready
<1>5. CASE QueryEnds(r)
  BY <1>5, RequestMoves DEF QueryEnds, Ready
<1>6. CASE Incomplete(r)
  BY <1>6, RequestMoves DEF Incomplete, Ready
<1>7. CASE RunEnds(r)
  BY <1>7, RequestMoves DEF RunEnds, Ready
<1>8. CASE ClientLeaves(r)
  BY <1>8, NothingMoves DEF ClientLeaves
<1> QED
  BY <1>1, <1>2, <1>3, <1>4, <1>5, <1>6, <1>7, <1>8 DEF RequestStep

LEMMA NextDrains ==
    ASSUME DrainInv, [Next]_vars
    PROVE  DrainInv'
<1>1. CASE LoadConfig
  BY <1>1, ExitKeeps DEF LoadConfig, GoOn, requestVars, DrainInv
<1>2. CASE Connect
  BY <1>2, ExitKeeps DEF Connect, GoOn, requestVars, DrainInv
<1>3. CASE Drained
  BY <1>3 DEF Drained, ShutdownReturns, requestVars, DrainInv, InFlight, Stages
<1>4. CASE DrainDeadline
  BY <1>4 DEF DrainDeadline, ShutdownReturns, requestVars, DrainInv
<1>5. CASE CloseReturns
  BY <1>5, ExitKeeps DEF CloseReturns
<1>6. CASE Signal
  BY <1>6, ExitKeeps DEF Signal, GoOn, requestVars, DrainInv
<1>7. CASE ListenFails
  BY <1>7, ExitKeeps DEF ListenFails
<1>8. CASE Grant
  BY <1>8, NothingMoves DEF Grant
<1>9. CASE \E r \in Requests : RequestStep(r)
  BY <1>9, RequestStepDrains
<1>10. CASE UNCHANGED vars
  BY <1>10, NothingMoves DEF vars, requestVars
<1> QED
  BY <1>1, <1>2, <1>3, <1>4, <1>5, <1>6, <1>7, <1>8, <1>9, <1>10 DEF Next, Main

\* The invariant of the shutdown holds in every state of the process.
THEOREM DrainInvHolds == Spec => []DrainInv
<1>1. DrainInv /\ [Next]_vars => DrainInv'
  BY NextDrains
<1> QED
  BY InitDrains, <1>1, PTL DEF Spec

\* When Shutdown returned nil, the exit cuts no request off.
THEOREM GracefulDrain == Spec => []DrainLosesNothing
<1>1. DrainInv => DrainLosesNothing
  BY DEF DrainInv, DrainLosesNothing
<1> QED
  BY DrainInvHolds, <1>1, PTL

\* Only after the deadline of the drain does a request meet a closed pool.
THEOREM PoolOutlivesRequests == Spec => []ClosedPoolNeedsDeadline
<1>1. DrainInv => ClosedPoolNeedsDeadline
  BY DEF DrainInv, ClosedPoolNeedsDeadline
<1> QED
  BY DrainInvHolds, <1>1, PTL

-----------------------------------------------------------------------------
(* The pool *)

USE LifecycleAssumption DEF LifecycleAssumption

Mains == {"loading", "connecting", "serving", "draining", "closing", "exited"}
Queues == {"query", "run"}

\* s is what remains of t.
Rest(s, t) ==
    Len(s) <= Len(t) /\ \A i \in 1..Len(s) : s[i] = t[i + (Len(t) - Len(s))]

\* What a request has yet to do is the rest of something, nothing only when it
\* is answered; its attempts are counted from the first.
WorkFits(r) ==
    /\ Rest(work[r], Lookups(kind[r])) \/ Rest(work[r], Attempt(kind[r]))
    /\ InFlight(r) => work[r] /= <<>>
    /\ stage[r] \in {"new", "lookup"} => tries[r] = 0

\* A request waits for a connection or has one only for the query it is at, and
\* it never waits for a second one.
PoolFits(r) ==
    /\ Waiting(r) \/ holding[r] > 0 => InFlight(r) /\ Head(work[r]) = "query"
    /\ Waiting(r) => holding[r] = 0

LifeInv ==
    /\ main \in Mains /\ drain \in {"none", "nil", "deadline"}
    /\ kind \in [Requests -> Kinds]
    /\ stage \in [Requests -> Stages]
    /\ work \in [Requests -> Seq(Queues)]
    /\ tries \in [Requests -> 0..MaxTries]
    /\ left \subseteq Requests /\ refused \subseteq Requests
    /\ waiters \in Seq(Requests) /\ IsInjective(waiters)
    /\ holding \in [Requests -> 0..1] /\ Held <= Conns
    /\ \A r \in Requests : WorkFits(r) /\ PoolFits(r)

LEMMA HeldUpdate ==
    ASSUME holding \in [Requests -> Nat], holding' \in [Requests -> Nat], NEW r \in Requests,
           \A q \in Requests : q /= r => holding'[q] = holding[q]
    PROVE  /\ Held \in Nat /\ Held' \in Nat
           /\ Held' + holding[r] = Held + holding'[r]
<1>1. PICK f \in [Requests -> Nat] : f = holding
  OBVIOUS
<1>2. PICK g \in [Requests -> Nat] : g = holding'
  OBVIOUS
<1>3. Held = SumsOf(f, Requests)[Requests] /\ Held' = SumsOf(g, Requests)[Requests]
  BY <1>1, <1>2, HeldIsSum, HeldIsSumNext
<1>4. SumsOf(f, Requests)[Requests] \in Nat /\ SumsOf(g, Requests)[Requests] \in Nat
  BY SumType
<1>5. SumsOf(g, Requests)[Requests] + f[r] = SumsOf(f, Requests)[Requests] + g[r]
  BY <1>1, <1>2, SumUpdate
<1> QED
  BY <1>1, <1>2, <1>3, <1>4, <1>5

LEMMA RestIsSuffix ==
    ASSUME NEW s \in Seq(Queues), NEW t \in Seq(Queues), Rest(s, t)
    PROVE  IsSuffix(s, t)
<1>1. PICK n \in Nat, m \in Nat : n = Len(s) /\ m = Len(t) /\ n <= m
  BY DEF Rest
<1>2. PICK u : u = Reverse(s)
  OBVIOUS
<1>3. PICK v : v = Reverse(t)
  OBVIOUS
<1>4. u \in Seq(Queues) /\ Len(u) = n /\ \A i \in 1..n : u[i] = s[(n - i) + 1]
  BY <1>1, <1>2 DEF Reverse
<1>5. v \in Seq(Queues) /\ Len(v) = m /\ \A i \in 1..m : v[i] = t[(m - i) + 1]
  BY <1>1, <1>3 DEF Reverse
<1>6. ASSUME NEW i \in 1..n PROVE u[i] = v[i]
  <2>1. PICK j \in 1..n : j = (n - i) + 1 /\ j + (m - n) = (m - i) + 1
    <3>1. (n - i) + 1 \in 1..n /\ ((n - i) + 1) + (m - n) = (m - i) + 1
      BY <1>1
    <3> QED
      BY <3>1
  <2>2. s[j] = t[j + (m - n)]
    BY <1>1 DEF Rest
  <2>3. u[i] = s[j]
    BY <1>4, <2>1
  <2>4. i \in 1..m
    BY <1>1
  <2>5. v[i] = t[j + (m - n)]
    BY <1>5, <2>1, <2>4
  <2> QED
    BY <2>2, <2>3, <2>5
<1>7. SubSeq(u, 1, n) = SubSeq(v, 1, n)
  BY <1>1, <1>4, <1>5, <1>6
<1> QED
  BY <1>1, <1>2, <1>3, <1>4, <1>5, <1>7 DEF IsSuffix, IsPrefix

LEMMA LifeTypes == LifeInv => TypeOK
<1> SUFFICES ASSUME LifeInv PROVE TypeOK
  OBVIOUS
<1>1. \A k \in KindType : Lookups(k) \in Seq(Queues) /\ Attempt(k) \in Seq(Queues)
  <2>1. /\ <<"query">> \in Seq(Queues) /\ <<"run">> \in Seq(Queues)
        /\ <<"query", "run">> \in Seq(Queues) /\ <<"run", "query">> \in Seq(Queues)
        /\ <<"query", "query", "query">> \in Seq(Queues)
    BY DEF Queues
  <2> QED
    BY <2>1, Zenon DEF Lookups, Attempt
<1>2. \A r \in Requests : IsSuffix(work[r], Lookups(kind[r])) \/ IsSuffix(work[r], Attempt(kind[r]))
  BY <1>1, RestIsSuffix DEF LifeInv, WorkFits
<1>3. \A r \in Requests : (Waiting(r) \/ holding[r] > 0) => InFlight(r)
  BY DEF LifeInv, PoolFits
<1>4. ToSet(waiters) \subseteq Requests
  BY DEF LifeInv, ToSet
<1> QED
  BY <1>2, <1>3, <1>4 DEF LifeInv, TypeOK, Stages, Mains

\* Taking somebody out of the queue.
LEMMA RemoveOne ==
    ASSUME NEW s \in Seq(Requests), IsInjective(s), NEW i \in 1..Len(s)
    PROVE  /\ RemoveAt(s, i) \in Seq(Requests)
           /\ IsInjective(RemoveAt(s, i))
           /\ ToSet(RemoveAt(s, i)) = ToSet(s) \ {s[i]}
<1>1. PICK n \in Nat : n = Len(s)
  OBVIOUS
<1>2. PICK u : u = SubSeq(s, 1, i - 1)
  OBVIOUS
<1>3. PICK v : v = SubSeq(s, i + 1, n)
  OBVIOUS
<1>4. u \in Seq(Requests) /\ Len(u) = i - 1 /\ \A j \in 1..(i - 1) : u[j] = s[j]
  BY <1>1, <1>2
<1>5. v \in Seq(Requests) /\ Len(v) = n - i /\ \A j \in 1..(n - i) : v[j] = s[i + j]
  BY <1>1, <1>3
<1>6. PICK t : t = u \o v
  OBVIOUS
<1>7. t \in Seq(Requests) /\ Len(t) = n - 1
  BY <1>1, <1>4, <1>5, <1>6
<1>8. \A j \in 1..(n - 1) : t[j] = IF j < i THEN s[j] ELSE s[j + 1]
  <2> SUFFICES ASSUME NEW j \in 1..(n - 1) PROVE t[j] = IF j < i THEN s[j] ELSE s[j + 1]
    OBVIOUS
  <2>1. CASE j < i
    BY <1>1, <1>4, <1>5, <1>6, <2>1
  <2>2. CASE ~(j < i)
    <3>1. PICK k \in 1..(n - i) : k = j - (i - 1) /\ i + k = j + 1
      BY <1>1, <2>2
    <3>2. t[j] = v[k]
      BY <1>1, <1>4, <1>5, <1>6, <2>2, <3>1
    <3> QED
      BY <1>5, <2>2, <3>1, <3>2
  <2> QED
    BY <2>1, <2>2
<1>9. RemoveAt(s, i) = t
  BY <1>1, <1>2, <1>3, <1>6 DEF RemoveAt
<1>10. \A j, k \in 1..n : s[j] = s[k] => j = k
  BY <1>1 DEF IsInjective
<1>11. IsInjective(t)
  BY <1>1, <1>7, <1>8, <1>10 DEF IsInjective
<1>12. ToSet(t) = ToSet(s) \ {s[i]}
  <2>1. ASSUME NEW x \in ToSet(t) PROVE x \in ToSet(s) \ {s[i]}
    <3>1. PICK j \in 1..(n - 1) : x = t[j]
      BY <1>7 DEF ToSet
    <3>2. j \in 1..n /\ j + 1 \in 1..n
      OBVIOUS
    <3> QED
      BY <1>1, <1>8, <1>10, <3>1, <3>2 DEF ToSet
  <2>2. ASSUME NEW x \in ToSet(s) \ {s[i]} PROVE x \in ToSet(t)
    <3>1. PICK j \in 1..n : x = s[j] /\ j /= i
      BY <1>1 DEF ToSet
    <3>2. CASE j < i
      <4>1. j \in 1..(n - 1) /\ t[j] = x
        BY <1>1, <1>8, <3>1, <3>2
      <4> QED
        BY <1>7, <4>1 DEF ToSet
    <3>3. CASE i < j
      <4>1. PICK k \in 1..(n - 1) : k + 1 = j /\ ~(k < i)
        <5>1. j - 1 \in 1..(n - 1) /\ (j - 1) + 1 = j /\ ~(j - 1 < i)
          BY <1>1, <3>3
        <5> QED
          BY <5>1
      <4>2. t[k] = x
        BY <1>8, <3>1, <4>1
      <4> QED
        BY <1>7, <4>2 DEF ToSet
    <3> QED
      BY <3>1, <3>2, <3>3
  <2> QED
    BY <2>1, <2>2
<1> QED
  BY <1>7, <1>9, <1>11, <1>12

LEMMA RestTail ==
    ASSUME NEW s \in Seq(Queues), NEW t \in Seq(Queues), s /= <<>>, Rest(s, t)
    PROVE  Tail(s) \in Seq(Queues) /\ Rest(Tail(s), t)
<1>1. PICK n \in Nat, m \in Nat : n = Len(s) /\ m = Len(t) /\ n <= m /\ n > 0
  BY DEF Rest
<1>2. PICK u : u = Tail(s)
  OBVIOUS
<1>3. PICK k \in Nat : k + 1 = n
  <2>1. n - 1 \in Nat /\ (n - 1) + 1 = n
    BY <1>1
  <2> QED
    BY <2>1
<1>4. u \in Seq(Queues) /\ Len(u) = k /\ \A i \in 1..k : u[i] = s[i + 1]
  BY <1>1, <1>2, <1>3
<1>5. ASSUME NEW i \in 1..k PROVE u[i] = t[i + (m - k)]
  <2>1. PICK j \in 1..n : j = i + 1 /\ j + (m - n) = i + (m - k)
    <3>1. i + 1 \in 1..n /\ (i + 1) + (m - n) = i + (m - k)
      BY <1>1, <1>3
    <3> QED
      BY <3>1
  <2>2. s[j] = t[j + (m - n)]
    BY <1>1 DEF Rest
  <2> QED
    BY <1>4, <2>1, <2>2
<1> QED
  BY <1>1, <1>2, <1>3, <1>4, <1>5 DEF Rest

LEMMA RestSelf ==
    ASSUME NEW t \in Seq(Queues)
    PROVE  Rest(t, t) /\ Rest(<<>>, t)
BY DEF Rest

LEMMA ThingsToDo ==
    ASSUME NEW k \in KindType
    PROVE  /\ Lookups(k) \in Seq(Queues) /\ Lookups(k) /= <<>> /\ Head(Lookups(k)) = "query"
           /\ Attempt(k) \in Seq(Queues) /\ Attempt(k) /= <<>>
<1>1. /\ <<"query">> \in Seq(Queues) /\ <<"run">> \in Seq(Queues)
      /\ <<"query", "run">> \in Seq(Queues) /\ <<"run", "query">> \in Seq(Queues)
      /\ <<"query", "query", "query">> \in Seq(Queues)
  BY DEF Queues
<1>2. /\ <<"query">> /= <<>> /\ <<"run">> /= <<>> /\ <<"query", "run">> /= <<>>
      /\ <<"run", "query">> /= <<>> /\ <<"query", "query", "query">> /= <<>>
      /\ Head(<<"query">>) = "query" /\ Head(<<"query", "query", "query">>) = "query"
  OBVIOUS
<1> QED
  BY <1>1, <1>2, Zenon DEF Lookups, Attempt

\* The step of a request that moves on or is answered.
LEMMA AdvanceFits ==
    ASSUME LifeInv, NEW r \in Requests, InFlight(r), UNCHANGED kind,
           Succeeds(r) \/ Fails(r) \/ AnswerNow(r)
    PROVE  /\ stage' \in [Requests -> Stages]
           /\ work' \in [Requests -> Seq(Queues)]
           /\ tries' \in [Requests -> 0..MaxTries]
           /\ \A q \in Requests : q /= r => /\ stage'[q] = stage[q]
                                            /\ work'[q] = work[q]
                                            /\ tries'[q] = tries[q]
           /\ WorkFits(r)'
<1>1. /\ stage \in [Requests -> Stages] /\ work \in [Requests -> Seq(Queues)]
      /\ tries \in [Requests -> 0..MaxTries] /\ kind[r] \in KindType
  BY DEF LifeInv
<1>2. /\ Lookups(kind[r]) \in Seq(Queues)
      /\ Attempt(kind[r]) \in Seq(Queues) /\ Attempt(kind[r]) /= <<>>
  BY <1>1, ThingsToDo
<1>3. WorkFits(r) /\ work[r] \in Seq(Queues) /\ work[r] /= <<>>
  BY DEF LifeInv, WorkFits
<1>4. CASE AnswerNow(r)
  <2>1. stage'[r] = "answered" /\ work'[r] = <<>>
    BY <1>1, <1>4 DEF AnswerNow
  <2>2. Rest(<<>>, Lookups(kind[r]))
    BY <1>2, RestSelf
  <2>3. WorkFits(r)'
    BY <2>1, <2>2 DEF WorkFits, InFlight
  <2> QED
    BY <1>1, <1>4, <2>3 DEF AnswerNow, Stages
<1>5. CASE TryTool(r) /\ tries[r] < MaxTries
  <2>1. stage'[r] = "execute" /\ work'[r] = Attempt(kind[r])
    BY <1>1, <1>5 DEF TryTool
  <2>2. Rest(Attempt(kind[r]), Attempt(kind[r]))
    BY <1>2, RestSelf
  <2>3. WorkFits(r)'
    BY <1>2, <2>1, <2>2 DEF WorkFits, InFlight
  <2>4. tries[r] + 1 \in 0..MaxTries
    BY <1>1, <1>5
  <2>5. tries' \in [Requests -> 0..MaxTries]
    BY <1>1, <1>5, <2>4 DEF TryTool
  <2> QED
    BY <1>1, <1>2, <1>5, <2>3, <2>5 DEF TryTool, Stages
<1>6. CASE Continue(r) /\ Len(work[r]) > 1
  <2>1. PICK s \in Seq(Queues) : s = work[r] /\ s /= <<>> /\ Len(s) > 1
    BY <1>3, <1>6
  <2>2. Tail(s) \in Seq(Queues) /\ Tail(s) /= <<>>
    <3>1. Tail(s) \in Seq(Queues) /\ Len(Tail(s)) = Len(s) - 1
      BY <2>1
    <3>2. PICK n \in Nat : n = Len(s) /\ n > 1
      BY <2>1
    <3>3. Len(Tail(s)) /= 0
      BY <3>1, <3>2
    <3> QED
      BY <3>1, <3>3
  <2>3. Rest(s, Lookups(kind[r])) \/ Rest(s, Attempt(kind[r]))
    BY <1>3, <2>1 DEF WorkFits
  <2>4. Rest(Tail(s), Lookups(kind[r])) \/ Rest(Tail(s), Attempt(kind[r]))
    BY <1>2, <2>1, <2>3, RestTail
  <2>5. work'[r] = Tail(s) /\ stage' = stage /\ tries' = tries
    BY <1>1, <1>6, <2>1 DEF Continue
  <2>6. WorkFits(r)'
    BY <1>3, <2>2, <2>4, <2>5 DEF WorkFits, InFlight
  <2> QED
    BY <1>1, <1>6, <2>1, <2>2, <2>5, <2>6 DEF Continue
<1>7. AnswerNow(r) \/ (TryTool(r) /\ tries[r] < MaxTries) \/ (Continue(r) /\ Len(work[r]) > 1)
  BY <1>1, <1>3 DEF Succeeds, Fails, WorkFits, InFlight
<1> QED
  BY <1>4, <1>5, <1>6, <1>7

\* What a request is at decides, with the queue, whether it fits.
LEMMA OthersFit ==
    ASSUME NEW q \in Requests, WorkFits(q), PoolFits(q),
           kind'[q] = kind[q], stage'[q] = stage[q], work'[q] = work[q],
           tries'[q] = tries[q], holding'[q] = holding[q], Waiting(q)' <=> Waiting(q)
    PROVE  WorkFits(q)' /\ PoolFits(q)'
BY DEF WorkFits, PoolFits, InFlight

\* A request that alone takes a step.
LEMMA OneMoves ==
    ASSUME LifeInv, NEW r \in Requests, UNCHANGED <<main, drain, kind>>,
           left' \subseteq Requests, refused' \subseteq Requests,
           stage' \in [Requests -> Stages],
           work' \in [Requests -> Seq(Queues)],
           tries' \in [Requests -> 0..MaxTries],
           waiters' \in Seq(Requests), IsInjective(waiters'),
           holding' \in [Requests -> 0..1],
           \A q \in Requests : q /= r => /\ stage'[q] = stage[q]
                                         /\ work'[q] = work[q]
                                         /\ tries'[q] = tries[q]
                                         /\ holding'[q] = holding[q]
                                         /\ Waiting(q)' <=> Waiting(q),
           holding'[r] \in {0, holding[r]} \/ Held < Conns,
           WorkFits(r)', PoolFits(r)'
    PROVE  LifeInv'
<1>1. ASSUME NEW q \in Requests PROVE WorkFits(q)' /\ PoolFits(q)'
  <2>1. CASE q = r
    BY <2>1
  <2>2. CASE q /= r
    BY <2>2, OthersFit DEF LifeInv
  <2> QED
    BY <2>1, <2>2
<1>2. Held' <= Conns
  <2>0. holding \in [Requests -> 0..1] /\ Held <= Conns
    BY DEF LifeInv
  <2>1. holding \in [Requests -> Nat] /\ holding' \in [Requests -> Nat]
    <3>1. 0..1 \subseteq Nat
      OBVIOUS
    <3> QED
      BY <2>0, <3>1
  <2>2. Held \in Nat /\ Held' \in Nat /\ Held' + holding[r] = Held + holding'[r]
    BY <2>1, HeldUpdate
  <2>4. holding[r] \in 0..1 /\ holding'[r] \in 0..1
    BY <2>0
  <2> QED
    BY <2>0, <2>2, <2>4
<1> QED
  BY <1>1, <1>2 DEF LifeInv

LEMMA ArriveFits ==
    ASSUME LifeInv, NEW r \in Requests, Arrive(r)
    PROVE  LifeInv'
<1>1. /\ stage[r] = "new" /\ stage' = [stage EXCEPT ![r] = "lookup"]
      /\ work' = [work EXCEPT ![r] = Lookups(kind[r])]
      /\ UNCHANGED <<main, drain, kind, tries, left, waiters, holding, refused>>
  BY DEF Arrive
<1>2. /\ stage \in [Requests -> Stages] /\ work \in [Requests -> Seq(Queues)]
      /\ kind[r] \in KindType /\ WorkFits(r) /\ PoolFits(r)
  BY DEF LifeInv
<1>3. Lookups(kind[r]) \in Seq(Queues) /\ Lookups(kind[r]) /= <<>>
  BY <1>2, ThingsToDo
<1>4. stage'[r] = "lookup" /\ work'[r] = Lookups(kind[r])
  BY <1>1, <1>2
<1>5. WorkFits(r)'
  <2>1. Rest(Lookups(kind[r]), Lookups(kind[r]))
    BY <1>3, RestSelf
  <2> QED
    BY <1>1, <1>2, <1>3, <1>4, <2>1 DEF WorkFits
<1>6. ~Waiting(r) /\ ~(holding[r] > 0)
  BY <1>1, <1>2 DEF PoolFits, InFlight
<1>7. \A q \in Requests : Waiting(q)' <=> Waiting(q)
  BY <1>1 DEF Waiting
<1>8. PoolFits(r)'
  BY <1>1, <1>6, <1>7 DEF PoolFits
<1>9. stage' \in [Requests -> Stages] /\ work' \in [Requests -> Seq(Queues)]
  BY <1>1, <1>2, <1>3 DEF Stages
<1>10. /\ left' \subseteq Requests /\ refused' \subseteq Requests
       /\ tries' \in [Requests -> 0..MaxTries]
       /\ waiters' \in Seq(Requests) /\ IsInjective(waiters')
       /\ holding' \in [Requests -> 0..1] /\ holding'[r] = holding[r]
  BY <1>1 DEF LifeInv
<1>11. \A q \in Requests : q /= r => /\ stage'[q] = stage[q] /\ work'[q] = work[q]
                                     /\ tries'[q] = tries[q] /\ holding'[q] = holding[q]
  BY <1>1, <1>2
<1> QED
  BY <1>1, <1>5, <1>7, <1>8, <1>9, <1>10, <1>11, OneMoves

\* A request that moves on without the pool: it neither waits nor holds.
LEMMA FreeMoveFits ==
    ASSUME LifeInv, NEW r \in Requests, InFlight(r), ~Waiting(r), holding[r] = 0,
           Succeeds(r) \/ Fails(r) \/ AnswerNow(r),
           UNCHANGED <<main, drain, kind, left, waiters, holding>>,
           refused' \subseteq Requests
    PROVE  LifeInv'
<1>1. /\ stage' \in [Requests -> Stages]
      /\ work' \in [Requests -> Seq(Queues)]
      /\ tries' \in [Requests -> 0..MaxTries]
      /\ \A q \in Requests : q /= r => /\ stage'[q] = stage[q]
                                       /\ work'[q] = work[q]
                                       /\ tries'[q] = tries[q]
      /\ WorkFits(r)'
  BY AdvanceFits
<1>2. \A q \in Requests : Waiting(q)' <=> Waiting(q)
  BY DEF Waiting
<1>3. PoolFits(r)'
  BY <1>2 DEF PoolFits
<1>4. /\ left' \subseteq Requests
      /\ waiters' \in Seq(Requests) /\ IsInjective(waiters')
      /\ holding' \in [Requests -> 0..1] /\ holding'[r] = holding[r]
  BY DEF LifeInv
<1> QED
  BY <1>1, <1>2, <1>3, <1>4, OneMoves

LEMMA AcquireFits ==
    ASSUME LifeInv, NEW r \in Requests, Acquire(r)
    PROVE  LifeInv'
<1>1. InFlight(r) /\ Head(work[r]) = "query" /\ ~Waiting(r) /\ holding[r] = 0
  BY DEF Acquire, Ready
<1>2. CASE PoolClosed
  BY <1>1, <1>2, FreeMoveFits DEF Acquire, LifeInv
<1>3. CASE ~PoolClosed
  <2>1. /\ waiters' = Append(waiters, r)
        /\ UNCHANGED <<main, drain, kind, stage, work, tries, left, holding, refused>>
    BY <1>3 DEF Acquire
  <2>2. PICK s \in Seq(Requests) : s = waiters /\ IsInjective(s)
    BY DEF LifeInv
  <2>3. PICK n \in Nat : n = Len(s)
    OBVIOUS
  <2>4. PICK t : t = Append(s, r)
    OBVIOUS
  <2>5. t \in Seq(Requests) /\ Len(t) = n + 1 /\ t[n + 1] = r /\ \A i \in 1..n : t[i] = s[i]
    BY <2>3, <2>4
  <2>6. \A i \in 1..n : s[i] /= r
    BY <1>1, <2>2, <2>3 DEF Waiting, ToSet
  <2>7. IsInjective(t)
    <3>1. \A i, j \in 1..n : s[i] = s[j] => i = j
      BY <2>2, <2>3 DEF IsInjective
    <3>2. \A i \in 1..(n + 1) : i = n + 1 \/ i \in 1..n
      OBVIOUS
    <3>3. \A i, j \in 1..(n + 1) : t[i] = t[j] => i = j
      BY <2>5, <2>6, <3>1, <3>2
    <3> QED
      BY <2>5, <3>3 DEF IsInjective
  <2>8. ToSet(t) = ToSet(s) \cup {r}
    BY <2>2, <2>3, <2>5 DEF ToSet
  <2>9. \A q \in Requests : q /= r => (Waiting(q)' <=> Waiting(q))
    BY <2>1, <2>2, <2>4, <2>8 DEF Waiting
  <2>10. WorkFits(r)' /\ PoolFits(r)'
    BY <1>1, <2>1 DEF LifeInv, WorkFits, PoolFits, InFlight
  <2>11. /\ left' \subseteq Requests /\ refused' \subseteq Requests
         /\ stage' \in [Requests -> Stages] /\ work' \in [Requests -> Seq(Queues)]
         /\ tries' \in [Requests -> 0..MaxTries]
         /\ holding' \in [Requests -> 0..1] /\ holding'[r] = holding[r]
    BY <2>1 DEF LifeInv
  <2>12. waiters' \in Seq(Requests) /\ IsInjective(waiters')
    BY <2>1, <2>2, <2>4, <2>5, <2>7
  <2> QED
    BY <2>1, <2>9, <2>10, <2>11, <2>12, OneMoves
<1> QED
  BY <1>2, <1>3

LEMMA GrantFits ==
    ASSUME LifeInv, Grant
    PROVE  LifeInv'
<1>1. /\ waiters /= <<>> /\ Held < Conns
      /\ holding' = [holding EXCEPT ![Head(waiters)] = @ + 1]
      /\ waiters' = Tail(waiters)
      /\ UNCHANGED <<main, drain, kind, stage, work, tries, left, refused>>
  BY DEF Grant
<1>2. PICK s \in Seq(Requests) : s = waiters /\ IsInjective(s) /\ s /= <<>>
  BY <1>1 DEF LifeInv
<1>3. PICK n \in Nat : n = Len(s) /\ n > 0
  BY <1>2
<1>4. PICK r \in Requests : r = Head(s) /\ r = s[1]
  BY <1>2
<1>5. PICK t : t = Tail(s)
  OBVIOUS
<1>6. t \in Seq(Requests) /\ Len(t) = n - 1 /\ \A i \in 1..(n - 1) : t[i] = s[i + 1]
  BY <1>2, <1>3, <1>5
<1>7. \A i, j \in 1..n : s[i] = s[j] => i = j
  BY <1>2, <1>3 DEF IsInjective
<1>8. IsInjective(t)
  <2>1. DOMAIN t = 1..(n - 1)
    BY <1>3, <1>6
  <2>2. ASSUME NEW i \in 1..(n - 1), NEW j \in 1..(n - 1), t[i] = t[j] PROVE i = j
    <3>1. s[i + 1] = s[j + 1] /\ i + 1 \in 1..n /\ j + 1 \in 1..n
      BY <1>3, <1>6, <2>2
    <3> QED
      BY <1>7, <3>1
  <2> QED
    BY <2>1, <2>2 DEF IsInjective
<1>9. ToSet(t) = ToSet(s) \ {r}
  <2>1. ASSUME NEW x \in ToSet(t) PROVE x \in ToSet(s) \ {r}
    <3>1. PICK i \in 1..(n - 1) : x = t[i]
      BY <1>6 DEF ToSet
    <3>2. i + 1 \in 1..n /\ 1 \in 1..n /\ i + 1 /= 1
      BY <1>3
    <3> QED
      BY <1>3, <1>4, <1>6, <1>7, <3>1, <3>2 DEF ToSet
  <2>2. ASSUME NEW x \in ToSet(s) \ {r} PROVE x \in ToSet(t)
    <3>1. PICK i \in 1..n : x = s[i] /\ i /= 1
      BY <1>3, <1>4 DEF ToSet
    <3>2. PICK j \in 1..(n - 1) : j + 1 = i
      <4>1. i - 1 \in 1..(n - 1) /\ (i - 1) + 1 = i
        BY <1>3, <3>1
      <4> QED
        BY <4>1
    <3>3. t[j] = x
      BY <1>6, <3>1, <3>2
    <3>4. j \in DOMAIN t
      BY <1>3, <1>6
    <3> QED
      BY <3>3, <3>4 DEF ToSet
  <2> QED
    BY <2>1, <2>2
<1>10. \A q \in Requests : Waiting(q)' <=> Waiting(q) /\ q /= r
  BY <1>1, <1>2, <1>5, <1>9 DEF Waiting
<1>11. Waiting(r)
  BY <1>2, <1>3, <1>4 DEF Waiting, ToSet
<1>12. holding[r] = 0 /\ InFlight(r) /\ Head(work[r]) = "query" /\ WorkFits(r)
       /\ holding \in [Requests -> 0..1]
  BY <1>11 DEF LifeInv, PoolFits
<1>13. /\ holding' \in [Requests -> 0..1] /\ holding'[r] = 1
       /\ \A q \in Requests : q /= r => holding'[q] = holding[q]
  BY <1>1, <1>2, <1>4, <1>12
<1>14. WorkFits(r)' /\ PoolFits(r)'
  BY <1>1, <1>10, <1>12, <1>13 DEF WorkFits, PoolFits, InFlight
<1> QED
  BY <1>1, <1>2, <1>5, <1>6, <1>8, <1>10, <1>13, <1>14, OneMoves DEF LifeInv

LEMMA StopWaitingFits ==
    ASSUME LifeInv, NEW r \in Requests, StopWaiting(r), refused' \subseteq Requests
    PROVE  LifeInv'
<1>1. /\ InFlight(r) /\ Waiting(r) /\ Fails(r)
      /\ UNCHANGED <<main, drain, kind, left, holding>>
  BY DEF StopWaiting, Ready
<1>2. PICK i \in 1..Len(waiters) : waiters[i] = r /\ waiters' = RemoveAt(waiters, i)
  BY DEF StopWaiting
<1>3. /\ waiters' \in Seq(Requests) /\ IsInjective(waiters')
      /\ ToSet(waiters') = ToSet(waiters) \ {r}
  BY <1>2, RemoveOne DEF LifeInv
<1>4. /\ stage' \in [Requests -> Stages]
      /\ work' \in [Requests -> Seq(Queues)]
      /\ tries' \in [Requests -> 0..MaxTries]
      /\ \A q \in Requests : q /= r => /\ stage'[q] = stage[q]
                                       /\ work'[q] = work[q]
                                       /\ tries'[q] = tries[q]
      /\ WorkFits(r)'
  BY <1>1, AdvanceFits
<1>5. \A q \in Requests : Waiting(q)' <=> Waiting(q) /\ q /= r
  BY <1>3 DEF Waiting
<1>6. holding[r] = 0
  BY <1>1 DEF LifeInv, PoolFits
<1>7. PoolFits(r)'
  BY <1>1, <1>5, <1>6 DEF PoolFits
<1>8. /\ left' \subseteq Requests
      /\ holding' \in [Requests -> 0..1] /\ holding'[r] = holding[r]
  BY <1>1 DEF LifeInv
<1> QED
  BY <1>1, <1>3, <1>4, <1>5, <1>7, <1>8, OneMoves

LEMMA QueryEndsFits ==
    ASSUME LifeInv, NEW r \in Requests, QueryEnds(r)
    PROVE  LifeInv'
<1>1. /\ InFlight(r) /\ holding[r] > 0 /\ (Succeeds(r) \/ Fails(r))
      /\ holding' = [holding EXCEPT ![r] = 0]
      /\ UNCHANGED <<main, drain, kind, left, waiters, refused>>
  BY DEF QueryEnds, Ready
<1>2. /\ stage' \in [Requests -> Stages]
      /\ work' \in [Requests -> Seq(Queues)]
      /\ tries' \in [Requests -> 0..MaxTries]
      /\ \A q \in Requests : q /= r => /\ stage'[q] = stage[q]
                                       /\ work'[q] = work[q]
                                       /\ tries'[q] = tries[q]
      /\ WorkFits(r)'
  BY <1>1, AdvanceFits
<1>3. /\ holding \in [Requests -> 0..1] /\ holding' \in [Requests -> 0..1] /\ holding'[r] = 0
      /\ \A q \in Requests : q /= r => holding'[q] = holding[q]
  BY <1>1 DEF LifeInv
<1>4. \A q \in Requests : Waiting(q)' <=> Waiting(q)
  BY <1>1 DEF Waiting
<1>5. ~Waiting(r)
  BY <1>1 DEF LifeInv, PoolFits
<1>6. PoolFits(r)'
  BY <1>3, <1>4, <1>5 DEF PoolFits
<1>7. holding'[r] \in {0, holding[r]}
  BY <1>3
<1> QED
  BY <1>1, <1>2, <1>3, <1>4, <1>6, <1>7, OneMoves DEF LifeInv

\* A run does not use the pool.
LEMMA RunEndsFits ==
    ASSUME LifeInv, NEW r \in Requests, RunEnds(r)
    PROVE  LifeInv'
<1>1. Head(work[r]) = "run" /\ InFlight(r)
  BY DEF RunEnds, Ready
<1>2. PoolFits(r) /\ holding[r] \in 0..1
  BY DEF LifeInv
<1>3. ~Waiting(r) /\ holding[r] = 0
  BY <1>1, <1>2 DEF PoolFits
<1> QED
  BY <1>1, <1>3, FreeMoveFits DEF RunEnds, LifeInv

\* Nothing of a request changes but whether its client is there.
LEMMA NothingFits ==
    ASSUME LifeInv, main' \in Mains, drain' \in {"none", "nil", "deadline"},
           left' \subseteq Requests,
           UNCHANGED <<kind, stage, work, tries, waiters, holding, refused>>
    PROVE  LifeInv'
<1>1. \A q \in Requests : Waiting(q)' <=> Waiting(q)
  BY DEF Waiting
<1>2. \A q \in Requests : WorkFits(q)' /\ PoolFits(q)'
  BY <1>1, OthersFit DEF LifeInv
<1>3. Held' = Held
  BY HeldIsSum, HeldIsSumNext
<1> QED
  BY <1>2, <1>3 DEF LifeInv

LEMMA ExitFits ==
    ASSUME LifeInv, Exit
    PROVE  LifeInv'
<1>1. /\ main' = "exited" /\ waiters' = <<>>
      /\ stage' = [r \in Requests |-> IF InFlight(r) THEN "lost" ELSE stage[r]]
      /\ holding' = [r \in Requests |-> 0]
      /\ UNCHANGED <<drain, kind, work, tries, left, refused>>
  BY DEF Exit
<1>2. Held' = 0
  <2>1. DOMAIN holding' = Requests
    BY <1>1
  <2> QED
    BY <1>1, <2>1, HeldIsSumNext, SumOfNothing
<1>3. stage' \in [Requests -> Stages] /\ \A q \in Requests : stage'[q] \notin {"lookup", "execute"}
      /\ (stage'[q] = "new" => stage[q] = "new")
  BY <1>1 DEF LifeInv, Stages, InFlight
<1>4. waiters' \in Seq(Requests) /\ IsInjective(waiters') /\ \A q \in Requests : ~Waiting(q)'
  BY <1>1 DEF IsInjective, Waiting, ToSet
<1>5. holding' \in [Requests -> 0..1] /\ \A q \in Requests : ~(holding'[q] > 0)
  BY <1>1
<1>6. ASSUME NEW q \in Requests PROVE WorkFits(q)' /\ PoolFits(q)'
  BY <1>1, <1>3, <1>4, <1>5 DEF LifeInv, WorkFits, PoolFits, InFlight
<1> QED
  BY <1>1, <1>2, <1>3, <1>4, <1>5, <1>6 DEF LifeInv, Mains

LEMMA InitFits == Init => LifeInv
<1> SUFFICES ASSUME Init PROVE LifeInv
  OBVIOUS
<1>1. Held = 0
  <2>1. DOMAIN holding = Requests /\ holding = [r \in Requests |-> 0]
    BY DEF Init
  <2> QED
    BY <2>1, HeldIsSum, SumOfNothing
<1>2. ASSUME NEW q \in Requests PROVE WorkFits(q) /\ PoolFits(q)
  <2>1. kind[q] \in KindType /\ stage[q] = "new" /\ work[q] = <<>> /\ tries[q] = 0
        /\ holding[q] = 0 /\ waiters = <<>>
    BY DEF Init
  <2>2. Rest(<<>>, Lookups(kind[q]))
    BY <2>1, ThingsToDo, RestSelf
  <2> QED
    BY <2>1, <2>2 DEF WorkFits, PoolFits, InFlight, Waiting, ToSet
<1>3. waiters \in Seq(Requests) /\ IsInjective(waiters)
  BY DEF Init, IsInjective
<1>4. <<>> \in Seq(Queues)
  OBVIOUS
<1> QED
  BY <1>1, <1>2, <1>3, <1>4 DEF Init, LifeInv, Mains, Stages

LEMMA RequestFits ==
    ASSUME LifeInv, NEW r \in Requests, RequestStep(r)
    PROVE  LifeInv'
<1>1. CASE Arrive(r)
  BY <1>1, ArriveFits
<1>2. CASE Acquire(r)
  BY <1>2, AcquireFits
<1>3. CASE Abandon(r)
  BY <1>3, StopWaitingFits DEF Abandon, LifeInv
<1>4. CASE TurnAway(r)
  BY <1>4, StopWaitingFits DEF TurnAway, LifeInv
<1>5. CASE QueryEnds(r)
  BY <1>5, QueryEndsFits
<1>6. CASE Incomplete(r)
  BY <1>6, FreeMoveFits DEF Incomplete, Ready, LifeInv
<1>7. CASE RunEnds(r)
  BY <1>7, RunEndsFits
<1>8. CASE ClientLeaves(r)
  BY <1>8, NothingFits DEF ClientLeaves, LifeInv
<1> QED
  BY <1>1, <1>2, <1>3, <1>4, <1>5, <1>6, <1>7, <1>8 DEF RequestStep

LEMMA LifeStep == LifeInv /\ [Next]_vars => LifeInv'
<1> SUFFICES ASSUME LifeInv, [Next]_vars PROVE LifeInv'
  OBVIOUS
<1>1. ASSUME NEW next \in Mains, GoOn(next) PROVE LifeInv'
  BY <1>1, NothingFits DEF GoOn, requestVars, LifeInv
<1>2. ASSUME NEW result \in {"nil", "deadline"}, ShutdownReturns(result) PROVE LifeInv'
  BY <1>2, NothingFits DEF ShutdownReturns, requestVars, LifeInv, Mains
<1>3. CASE LoadConfig
  BY <1>1, <1>3, ExitFits DEF LoadConfig, Mains
<1>4. CASE Connect
  BY <1>1, <1>4, ExitFits DEF Connect, Mains
<1>5. CASE Drained \/ DrainDeadline
  BY <1>2, <1>5 DEF Drained, DrainDeadline
<1>6. CASE CloseReturns \/ ListenFails
  BY <1>6, ExitFits DEF CloseReturns, ListenFails
<1>7. CASE Signal
  BY <1>1, <1>7, ExitFits DEF Signal, Mains
<1>8. CASE Grant
  BY <1>8, GrantFits
<1>9. CASE \E r \in Requests : RequestStep(r)
  BY <1>9, RequestFits
<1>10. CASE UNCHANGED vars
  BY <1>10, NothingFits DEF vars, requestVars, LifeInv
<1> QED
  BY <1>3, <1>4, <1>5, <1>6, <1>7, <1>8, <1>9, <1>10 DEF Next, Main

\* Every variable keeps its type, which says of the pool: no more connections are
\* used than it has, nobody waits twice, and a request never holds two.
THEOREM LifeTypeCorrect == Spec => []TypeOK
<1>1. Init => LifeInv
  BY InitFits
<1>2. LifeInv /\ [Next]_vars => LifeInv'
  BY LifeStep
<1>3. LifeInv => TypeOK
  BY LifeTypes
<1> QED
  BY <1>1, <1>2, <1>3, PTL DEF Spec

-----------------------------------------------------------------------------
(* The backoff *)

\* The equation that CHOOSE solves in Pow.
IsPow(p, b) == p = [n \in Nat |-> IF n = 0 THEN 1 ELSE b * p[n - 1]]

LEMMA PowSolves ==
    ASSUME NEW b \in Nat
    PROVE  IsPow(Pow(b), b)
<1>1. PICK g : g = [s \in Nat \X Nat |-> b * s[2]]
  OBVIOUS
<1>2. g \in [Nat \X Nat -> Nat] /\ \A n, x \in Nat : g[<<n, x>>] = b * x
  BY <1>1
<1>3. PICK f \in [Nat -> Nat] : f[0] = 1 /\ \A n \in Nat : f[n + 1] = g[<<n, f[n]>>]
  <2>1. PICK one \in Nat : one = 1
    OBVIOUS
  <2>2. \E f \in [Nat -> Nat] : f[0] = one /\ \A n \in Nat : f[n + 1] = g[<<n, f[n]>>]
    BY <1>2, Recursion, Zenon
  <2> QED
    BY <2>1, <2>2
<1>4. ASSUME NEW n \in Nat PROVE f[n] = IF n = 0 THEN 1 ELSE b * f[n - 1]
  <2>1. CASE n = 0
    BY <1>3, <2>1
  <2>2. CASE n /= 0
    <3>1. PICK k \in Nat : k = n - 1 /\ k + 1 = n
      BY <2>2
    <3>2. f[k + 1] = b * f[k]
      BY <1>2, <1>3
    <3> QED
      BY <2>2, <3>1, <3>2
  <2> QED
    BY <2>1, <2>2
<1>5. f = [n \in Nat |-> IF n = 0 THEN 1 ELSE b * f[n - 1]]
  BY <1>4
<1>6. \E p : IsPow(p, b)
  BY <1>5, Zenon DEF IsPow
<1>7. Pow(b) = CHOOSE p : IsPow(p, b)
  BY DEF Pow, IsPow
<1> QED
  BY <1>6, <1>7, Zenon

LEMMA PowMeans ==
    ASSUME NEW b \in Nat
    PROVE  Pow(b)[0] = 1 /\ \A n \in Nat : Pow(b)[n + 1] = b * Pow(b)[n]
<1>1. PICK p : p = Pow(b)
  OBVIOUS
<1>2. p = [n \in Nat |-> IF n = 0 THEN 1 ELSE b * p[n - 1]]
  BY <1>1, PowSolves DEF IsPow
<1>3. \A n \in Nat : p[n] = IF n = 0 THEN 1 ELSE b * p[n - 1]
  BY <1>2
<1>4. p[0] = 1
  BY <1>3
<1>5. ASSUME NEW n \in Nat PROVE p[n + 1] = b * p[n]
  <2>1. PICK m \in Nat : m = n + 1 /\ m /= 0 /\ m - 1 = n
    OBVIOUS
  <2>2. p[m] = b * p[m - 1]
    BY <1>3, <2>1
  <2> QED
    BY <2>1, <2>2
<1> QED
  BY <1>1, <1>4, <1>5

LEMMA PowIsPositive ==
    ASSUME NEW b \in Nat \ {0}
    PROVE  \A n \in Nat : Pow(b)[n] \in Nat \ {0}
<1> DEFINE P == {n \in Nat : Pow(b)[n] \in Nat \ {0}}
<1>1. 0 \in P
  BY PowMeans
<1>2. ASSUME NEW n \in Nat, n \in P PROVE n + 1 \in P
  <2>1. PICK x \in Nat \ {0} : x = Pow(b)[n]
    BY <1>2
  <2>2. Pow(b)[n + 1] = b * x
    BY <2>1, PowMeans
  <2>3. b * x \in Nat \ {0}
    OBVIOUS
  <2> QED
    BY <2>2, <2>3
<1>3. Nat \subseteq P
  <2> HIDE DEF P
  <2> QED
    BY <1>1, <1>2, NaturalInduction
<1> QED
  BY <1>3

LEMMA ProductsGrow ==
    ASSUME NEW n \in Nat, NEW l \in Nat, NEW k \in Nat, l <= k
    PROVE  n * l <= n * k /\ l * n <= k * n
<1>1. PICK e \in Nat : k = l + e
  <2>1. k - l \in Nat /\ k = l + (k - l)
    OBVIOUS
  <2> QED
    BY <2>1
<1>2. n * (l + e) = n * l + n * e /\ (l + e) * n = n * l + n * e /\ l * n = n * l
  OBVIOUS
<1>3. PICK u \in Nat, v \in Nat : u = n * e /\ v = n * l
  OBVIOUS
<1> QED
  BY <1>1, <1>2, <1>3

\* Multiplying a fraction by one of at least 1 does not shrink its quotient.
LEMMA QuotientGrows ==
    ASSUME NEW x \in Nat, NEW y \in Nat \ {0}, NEW n \in Nat, NEW d \in Nat \ {0}, d <= n
    PROVE  x \div y <= (n * x) \div (d * y)
<1>1. PICK q \in Nat : q = x \div y /\ q * y <= x
  OBVIOUS
<1>2. PICK z \in Nat \ {0} : z = d * y
  OBVIOUS
<1>3. q * z <= n * x
  <2>1. q * z = d * (q * y)
    BY <1>2
  <2>2. PICK w \in Nat : w = q * y
    OBVIOUS
  <2>3. d * w <= d * x
    BY <1>1, <2>2
  <2>4. d * x <= n * x
    OBVIOUS
  <2> QED
    BY <2>1, <2>2, <2>3, <2>4
<1>4. PICK v \in Nat : v = n * x
  OBVIOUS
<1>5. q <= v \div z
  BY <1>3, <1>4
<1> QED
  BY <1>1, <1>2, <1>4, <1>5

LEMMA DelayType ==
    ASSUME NEW c \in ConfigType, NEW n \in Nat
    PROVE  RetryDelayForAttempt(c, n) \in Int /\ Waited(RetryDelayForAttempt(c, n)) \in Nat
<1>1. c.delay \in Nat /\ c.cap \in Nat
  BY DEF ConfigType
<1>2. RetryDelayForAttempt(c, n) \in Int
  <2>1. CASE c.num <= c.den
    BY <1>1, <2>1 DEF RetryDelayForAttempt
  <2>2. CASE c.num > c.den
    <3>1. c.num \in Nat \ {0} /\ c.den \in Nat \ {0}
      BY <2>2 DEF ConfigType
    <3>2. PICK x \in Nat \ {0} : x = Pow(c.num)[n]
      BY <3>1, PowIsPositive
    <3>3. PICK y \in Nat \ {0} : y = Pow(c.den)[n]
      BY <3>1, PowIsPositive
    <3>4. PICK z \in Nat : z = c.delay * x
      BY <1>1
    <3>5. PICK g \in Nat : g = Grown(c, n)
      BY <3>2, <3>3, <3>4 DEF Grown
    <3>6. PICK d \in Int : d = Converted(g)
      BY DeadlineAssumption DEF Converted, DeadlineAssumption
    <3> QED
      BY <1>1, <3>5, <3>6 DEF RetryDelayForAttempt
  <2>3. c.num \in Nat /\ c.den \in Nat
    BY DEF ConfigType
  <2> QED
    BY <2>1, <2>2, <2>3
<1> QED
  BY <1>2 DEF Waited

LEMMA GrownGrows ==
    ASSUME NEW c \in ConfigType, c.num > c.den, NEW n \in Nat
    PROVE  /\ Grown(c, n) \in Nat
           /\ Grown(c, n) <= Grown(c, n + 1)
           /\ Grown(c, 0) = c.delay
<1>1. c.num \in Nat \ {0} /\ c.den \in Nat \ {0} /\ c.delay \in Nat /\ c.den <= c.num
  BY DEF ConfigType
<1>2. PICK num, den, delay : num = c.num /\ den = c.den /\ delay = c.delay
  OBVIOUS
<1>3. num \in Nat \ {0} /\ den \in Nat \ {0} /\ delay \in Nat /\ den <= num
  BY <1>1, <1>2
<1>4. PICK p \in Nat \ {0} : p = Pow(num)[n]
  BY <1>3, PowIsPositive
<1>5. PICK q \in Nat \ {0} : q = Pow(den)[n]
  BY <1>3, PowIsPositive
<1>6. Pow(num)[n + 1] = num * p /\ Pow(den)[n + 1] = den * q
  BY <1>3, <1>4, <1>5, PowMeans
<1>7. Pow(num)[0] = 1 /\ Pow(den)[0] = 1
  BY <1>3, PowMeans
<1>8. PICK x \in Nat : x = delay * p
  BY <1>3
<1>9. Grown(c, n) = x \div q
  BY <1>2, <1>4, <1>5, <1>8 DEF Grown
<1>10. Grown(c, n + 1) = (num * x) \div (den * q)
  <2>1. delay * (num * p) = num * x
    BY <1>3, <1>8
  <2> QED
    BY <1>2, <1>6, <2>1 DEF Grown
<1>11. x \div q <= (num * x) \div (den * q)
  BY <1>3, QuotientGrows
<1>12. x \div q \in Nat
  OBVIOUS
<1>13. Grown(c, 0) = delay
  <2>1. (delay * 1) \div 1 = delay
    BY <1>3
  <2> QED
    BY <1>2, <1>7, <2>1 DEF Grown
<1> QED
  BY <1>2, <1>9, <1>10, <1>11, <1>12, <1>13

\* The delays of a configuration that grows: from the base to the cap, and what
\* does not fit a Duration is negative.
LEMMA DelayGrows ==
    ASSUME NEW c \in ConfigType, Ordered(c), NEW n \in Nat
    PROVE  /\ RetryDelayForAttempt(c, 0) = c.delay
           /\ RetryDelayForAttempt(c, n) <= c.cap
           /\ Fits(c, n + 1) => RetryDelayForAttempt(c, n) <= RetryDelayForAttempt(c, n + 1)
<1>1. c.num > c.den /\ 0 < c.delay /\ c.delay <= c.cap /\ c.delay \in Nat /\ c.cap \in Nat
      /\ ~(c.num <= c.den) /\ c.delay <= MaxDuration
  BY DEF Ordered, ConfigType
<1>2. \A m \in Nat : Grown(c, m) \in Nat
  BY <1>1, GrownGrows
<1>3. Grown(c, 0) = c.delay /\ Grown(c, n) <= Grown(c, n + 1)
  BY <1>1, GrownGrows
<1>4. \A m \in Nat : Fits(c, m) =>
        RetryDelayForAttempt(c, m) = IF Grown(c, m) > c.cap THEN c.cap ELSE Grown(c, m)
  <2>1. ASSUME NEW m \in Nat, Fits(c, m)
        PROVE  RetryDelayForAttempt(c, m) = IF Grown(c, m) > c.cap THEN c.cap ELSE Grown(c, m)
    <3>1. Converted(Grown(c, m)) = Grown(c, m)
      BY <2>1 DEF Fits, Converted
    <3> QED
      BY <1>1, <1>3, <3>1 DEF RetryDelayForAttempt
  <2> QED
    BY <2>1
<1>5. PICK m \in Nat : m = n + 1
  OBVIOUS
<1>6. RetryDelayForAttempt(c, 0) = c.delay
  BY DEF RetryDelayForAttempt
<1>7. RetryDelayForAttempt(c, n) <= c.cap
  <2>1. PICK d \in Int : d = Converted(Grown(c, n))
    BY <1>2, DeadlineAssumption DEF Converted, DeadlineAssumption
  <2> QED
    BY <1>1, <2>1 DEF RetryDelayForAttempt
<1>8. Fits(c, n + 1) => Fits(c, n)
  BY <1>2, <1>3, <1>5, DeadlineAssumption DEF Fits, DeadlineAssumption
<1> QED
  BY <1>1, <1>2, <1>3, <1>4, <1>5, <1>6, <1>7, <1>8

-----------------------------------------------------------------------------
Phases == {"begin", "executing", "failed", "ok", "error", "answered", "eof"}

DeadlineTypeOK ==
    /\ cfg \in Configs /\ tool \in ToolConfigs
    /\ phase \in Phases
    /\ attempt \in 0..cfg.retries
    /\ elapsed \in Nat
    /\ slept \in Seq(Int)
    /\ longest \in Nat /\ cut \in Nat

\* The delays so far are those of the attempts before this one.
BackoffInv ==
    /\ Len(slept) = attempt
    /\ \A i \in 1..attempt : slept[i] = RetryDelayForAttempt(cfg, i - 1)

\* Attempts are cut at their limit and nowhere else.
LimitInv ==
    /\ longest <= Limit(tool)
    /\ cut > 0 => cut >= Limit(tool)

\* The wait after attempt n, which the conversion may have made negative.
WaitAfter(c, n) == Waited(RetryDelayForAttempt(c, n))

\* What all the delays before attempt n of c take together.
Backoffs(c) ==
    LET b[n \in Nat] == IF n = 0 THEN 0 ELSE b[n - 1] + WaitAfter(c, n - 1) IN b

\* The attempts that have been made.
Made == IF phase \in {"begin", "executing"} THEN attempt ELSE attempt + 1

\* The time of a request goes to its preamble, its attempts and its delays.
BudgetInv ==
    /\ phase = "begin" => attempt = 0
    /\ phase = "begin" \/ \E p \in Preambles : elapsed <= p + Made * longest + Backoffs(cfg)[attempt]
    /\ Made > 0 => longest > 0
    /\ phase = "eof" => elapsed > WriteTimeout

DeadlineInv == DeadlineTypeOK /\ BackoffInv /\ LimitInv /\ BudgetInv

IsBackoffs(b, c) ==
    b = [n \in Nat |-> IF n = 0 THEN 0 ELSE b[n - 1] + WaitAfter(c, n - 1)]

LEMMA WaitType ==
    ASSUME NEW c \in ConfigType, NEW n \in Nat
    PROVE  WaitAfter(c, n) \in Nat
BY DelayType DEF WaitAfter

LEMMA BackoffsMeans ==
    ASSUME NEW c \in ConfigType
    PROVE  /\ Backoffs(c) \in [Nat -> Nat]
           /\ Backoffs(c)[0] = 0
           /\ \A n \in Nat : Backoffs(c)[n + 1] = Backoffs(c)[n] + WaitAfter(c, n)
<1>1. PICK g : g = [s \in Nat \X Nat |-> s[2] + WaitAfter(c, s[1])]
  OBVIOUS
<1>2. /\ g \in [Nat \X Nat -> Nat]
      /\ \A n, x \in Nat : g[<<n, x>>] = x + WaitAfter(c, n)
  BY <1>1, WaitType
<1>3. PICK f \in [Nat -> Nat] : f[0] = 0 /\ \A n \in Nat : f[n + 1] = g[<<n, f[n]>>]
  <2>1. 0 \in Nat /\ g \in [Nat \X Nat -> Nat]
    BY <1>2
  <2> QED
    BY <2>1, Recursion, Zenon
<1>4. \A n \in Nat : f[n + 1] = f[n] + WaitAfter(c, n)
  BY <1>2, <1>3
<1>5. ASSUME NEW n \in Nat
      PROVE  f[n] = IF n = 0 THEN 0 ELSE f[n - 1] + WaitAfter(c, n - 1)
  <2>1. CASE n = 0
    BY <1>3, <2>1
  <2>2. CASE n /= 0
    <3>1. PICK k \in Nat : k = n - 1 /\ k + 1 = n
      BY <2>2
    <3>2. f[k + 1] = f[k] + WaitAfter(c, k)
      BY <1>4
    <3> QED
      BY <2>2, <3>1, <3>2
  <2> QED
    BY <2>1, <2>2
<1>6. f = [n \in Nat |-> IF n = 0 THEN 0 ELSE f[n - 1] + WaitAfter(c, n - 1)]
  BY <1>5
<1>7. IsBackoffs(f, c)
  BY <1>6, Zenon DEF IsBackoffs
<1>8. Backoffs(c) = CHOOSE b : IsBackoffs(b, c)
  BY DEF Backoffs, IsBackoffs
<1>9. PICK b : b = Backoffs(c)
  OBVIOUS
<1>10. IsBackoffs(b, c)
  BY <1>7, <1>8, <1>9, Zenon
<1>11. b = [n \in Nat |-> IF n = 0 THEN 0 ELSE b[n - 1] + WaitAfter(c, n - 1)]
  BY <1>10, Zenon DEF IsBackoffs
<1>12. \A n \in Nat : b[n] = IF n = 0 THEN 0 ELSE b[n - 1] + WaitAfter(c, n - 1)
  BY <1>11
<1>13. b = f
  <2> DEFINE P == {n \in Nat : b[n] = f[n]}
  <2>1. 0 \in P
    BY <1>3, <1>12
  <2>2. ASSUME NEW n \in Nat, n \in P PROVE n + 1 \in P
    <3>1. PICK m \in Nat : m = n + 1 /\ m /= 0 /\ m - 1 = n
      OBVIOUS
    <3> QED
      BY <1>5, <1>12, <2>2, <3>1
  <2>3. Nat \subseteq P
    <3> HIDE DEF P
    <3> QED
      BY <2>1, <2>2, NaturalInduction
  <2>4. b = [n \in Nat |-> b[n]] /\ f = [n \in Nat |-> f[n]]
    BY <1>6, <1>11
  <2> QED
    BY <2>3, <2>4
<1> QED
  BY <1>3, <1>4, <1>9, <1>13

LEMMA BackoffsGrow ==
    ASSUME NEW c \in ConfigType, NEW m \in Nat, NEW n \in 0..m
    PROVE  Backoffs(c)[n] <= Backoffs(c)[m]
<1>1. PICK b \in [Nat -> Nat] : b = Backoffs(c)
  BY BackoffsMeans
<1>2. \A i \in Nat : b[i] <= b[i + 1]
  <2>1. \A i \in Nat : b[i + 1] = b[i] + WaitAfter(c, i)
    BY <1>1, BackoffsMeans
  <2> SUFFICES ASSUME NEW i \in Nat PROVE b[i] <= b[i + 1]
    OBVIOUS
  <2>2. PICK d \in Nat : d = WaitAfter(c, i)
    BY WaitType
  <2>3. PICK x \in Nat : x = b[i]
    OBVIOUS
  <2> QED
    BY <2>1, <2>2, <2>3
<1> DEFINE P == {k \in Nat : b[n] <= b[n + k]}
<1>3. 0 \in P
  OBVIOUS
<1>4. ASSUME NEW k \in Nat, k \in P PROVE k + 1 \in P
  <2>1. PICK i \in Nat : i = n + k /\ i + 1 = n + (k + 1)
    OBVIOUS
  <2>2. b[n] \in Nat /\ b[i] \in Nat /\ b[i + 1] \in Nat
    OBVIOUS
  <2> QED
    BY <1>2, <1>4, <2>1, <2>2
<1>5. Nat \subseteq P
  <2> HIDE DEF P
  <2> QED
    BY <1>3, <1>4, NaturalInduction
<1>6. PICK k \in Nat : n + k = m
  <2>1. m - n \in Nat /\ n + (m - n) = m
    OBVIOUS
  <2> QED
    BY <2>1
<1> QED
  BY <1>1, <1>5, <1>6

-----------------------------------------------------------------------------
(* The steps *)

USE DeadlineAssumption DEF DeadlineAssumption

LEMMA LimitType ==
    ASSUME NEW t \in ToolType
    PROVE  Limit(t) \in Nat \ {0} /\ Limit(t) <= Timeout
<1>1. HttpTimeout(t) \in Nat \ {0}
  BY DEF HttpTimeout, Merge, ToolType
<1>2. PICK s \in Nat \ {0} : s = HttpTimeout(t)
  BY <1>1
<1> QED
  BY <1>2 DEF Limit

\* The limit of a tool that gives its timeout in milliseconds alone.
LEMMA LimitOfMs ==
    ASSUME NEW t \in ToolType, t.type = "HTTP", t.timeoutMs > 0,
           t.timeoutSeconds = 0, t.timeout_seconds = 0
    PROVE  /\ Limit(t) >= Timeout \/ 100 * Limit(t) >= t.timeoutMs
           /\ 100 * Limit(t) < t.timeoutMs + 1000
<1>1. PICK ms \in Nat : ms = t.timeoutMs /\ ms > 0
  BY DEF ToolType
<1>2. PICK s \in Nat : s = (ms + 999) \div 1000
  OBVIOUS
<1>3. 1000 * s >= ms /\ 1000 * s < ms + 1000 /\ s > 0
  BY <1>1, <1>2
<1>4. HttpTimeout(t) = s
  BY <1>1, <1>2, <1>3 DEF HttpTimeout, Merge
<1>5. Limit(t) = IF 10 * s < Timeout THEN 10 * s ELSE Timeout
  BY <1>4 DEF Limit
<1> QED
  BY <1>1, <1>3, <1>5

LEMMA DeadlineStarts == DeadlineInit => DeadlineInv
<1> SUFFICES ASSUME DeadlineInit PROVE DeadlineInv
  OBVIOUS
<1>1. cfg \in ConfigType /\ tool \in ToolType
  BY DEF DeadlineInit
<1>2. DeadlineTypeOK
  BY <1>1 DEF DeadlineInit, DeadlineTypeOK, Phases, ConfigType
<1>3. BackoffInv
  BY DEF DeadlineInit, BackoffInv
<1>4. LimitInv
  BY <1>1, LimitType DEF DeadlineInit, LimitInv
<1>5. BudgetInv
  BY DEF DeadlineInit, BudgetInv, Made
<1> QED
  BY <1>2, <1>3, <1>4, <1>5 DEF DeadlineInv

LEMMA BeginKeeps ==
    ASSUME DeadlineInv, NEW p \in Preambles, Begin(p)
    PROVE  DeadlineInv'
<1>1. DeadlineTypeOK'
  BY DEF DeadlineInv, DeadlineTypeOK, Begin, Phases
<1>2. BackoffInv' /\ LimitInv'
  BY DEF DeadlineInv, BackoffInv, LimitInv, Begin
<1>3. BudgetInv'
  <2>1. cfg \in ConfigType /\ attempt = 0
    BY DEF DeadlineInv, DeadlineTypeOK, BudgetInv, Begin
  <2>2. Backoffs(cfg)[attempt] = 0
    BY <2>1, BackoffsMeans
  <2>3. /\ phase' = "executing" /\ elapsed' = p /\ Made' = 0 /\ cfg' = cfg
        /\ attempt' = attempt /\ longest' = longest /\ longest \in Nat /\ p \in Nat
    BY <2>1 DEF Begin, Made, DeadlineInv, DeadlineTypeOK
  <2>4. elapsed' <= p + Made' * longest' + Backoffs(cfg)[attempt]
    BY <2>2, <2>3
  <2> QED
    BY <2>1, <2>3, <2>4 DEF BudgetInv
<1> QED
  BY <1>1, <1>2, <1>3 DEF DeadlineInv

LEMMA ExecuteKeeps ==
    ASSUME DeadlineInv, NEW d \in Durations, NEW next \in {"ok", "failed"}, Execute(d, next)
    PROVE  DeadlineInv'
<1>1. PICK limit \in Nat \ {0} : limit = Limit(tool)
  BY LimitType DEF DeadlineInv, DeadlineTypeOK
<1>2. d \in Nat \ {0}
  OBVIOUS
<1>3. PICK took \in Nat \ {0} : took = IF d < limit THEN d ELSE limit
  BY <1>2
<1>4. /\ phase = "executing" /\ phase' = next
      /\ elapsed' = elapsed + took
      /\ longest' = IF took > longest THEN took ELSE longest
      /\ cut' = IF d >= limit /\ (cut = 0 \/ d < cut) THEN d ELSE cut
      /\ UNCHANGED <<cfg, tool, attempt, slept>>
  BY <1>1, <1>3 DEF Execute
<1>5. DeadlineTypeOK
  BY DEF DeadlineInv
<1>6. DeadlineTypeOK'
  BY <1>2, <1>4, <1>5 DEF DeadlineTypeOK, Phases
<1>7. BackoffInv'
  BY <1>4 DEF DeadlineInv, BackoffInv
<1>8. LimitInv'
  <2>1. Limit(tool') = limit
    BY <1>1, <1>4
  <2> QED
    BY <1>1, <1>2, <1>3, <1>4, <1>5, <2>1 DEF DeadlineInv, LimitInv, DeadlineTypeOK
<1>9. BudgetInv'
  <2>1. PICK p \in Preambles : elapsed <= p + Made * longest + Backoffs(cfg)[attempt]
    BY <1>4 DEF DeadlineInv, BudgetInv
  <2>2. PICK n \in Nat : n = attempt
    BY <1>5 DEF DeadlineTypeOK
  <2>3. PICK b \in Nat : b = Backoffs(cfg)[attempt]
    BY <1>5, <2>2, BackoffsMeans DEF DeadlineTypeOK
  <2>4. Made = n /\ Made' = n + 1
    BY <1>4, <2>2 DEF Made
  <2>5. PICK l \in Nat : l = longest
    BY <1>5 DEF DeadlineTypeOK
  <2>6. PICK k \in Nat : k = longest' /\ l <= k /\ took <= k /\ k > 0
    BY <1>3, <1>4, <2>5
  <2>7. n * l <= n * k
    BY <2>6, ProductsGrow
  <2>8. (n + 1) * k = n * k + k
    OBVIOUS
  <2>9. PICK x \in Nat : x = n * l
    OBVIOUS
  <2>10. PICK y \in Nat : y = n * k
    OBVIOUS
  <2>11. elapsed' <= p + (y + k) + b
    BY <1>4, <1>5, <2>1, <2>3, <2>4, <2>5, <2>6, <2>7, <2>9, <2>10 DEF DeadlineTypeOK
  <2>12. elapsed' <= p + Made' * longest' + Backoffs(cfg')[attempt']
    BY <1>4, <2>3, <2>4, <2>6, <2>8, <2>10, <2>11
  <2> QED
    BY <1>4, <2>6, <2>12 DEF BudgetInv
<1> QED
  BY <1>6, <1>7, <1>8, <1>9 DEF DeadlineInv

LEMMA BackoffKeeps ==
    ASSUME DeadlineInv, Backoff
    PROVE  DeadlineInv'
<1>1. DeadlineTypeOK /\ cfg \in ConfigType
  BY DEF DeadlineInv, DeadlineTypeOK
<1>2. PICK n \in Nat : n = attempt /\ n < cfg.retries
  BY <1>1 DEF Backoff, DeadlineTypeOK
<1>3. PICK delay \in Int : delay = RetryDelayForAttempt(cfg, n)
  BY <1>1, DelayType
<1>4. PICK wait \in Nat : wait = WaitAfter(cfg, n) /\ wait = Waited(delay)
  BY <1>1, <1>3, WaitType DEF WaitAfter
<1>5. /\ phase = "failed" /\ phase' = "executing"
      /\ elapsed' = elapsed + wait /\ slept' = Append(slept, delay)
      /\ attempt' = n + 1
      /\ UNCHANGED <<cfg, tool, longest, cut>>
  BY <1>2, <1>3, <1>4 DEF Backoff
<1>6. DeadlineTypeOK'
  <2>1. n + 1 \in 0..cfg.retries
    BY <1>1, <1>2 DEF ConfigType
  <2>2. slept' \in Seq(Int)
    BY <1>1, <1>5 DEF DeadlineTypeOK
  <2> QED
    BY <1>1, <1>5, <2>1, <2>2 DEF DeadlineTypeOK, Phases
<1>7. BackoffInv'
  <2>1. PICK s \in Seq(Int) : s = slept
    BY <1>1 DEF DeadlineTypeOK
  <2>2. Len(s) = n /\ \A i \in 1..n : s[i] = RetryDelayForAttempt(cfg, i - 1)
    BY <1>2, <2>1 DEF DeadlineInv, BackoffInv
  <2>3. PICK t : t = Append(s, delay)
    OBVIOUS
  <2>4. PICK m \in Nat : m = n + 1 /\ m - 1 = n
    OBVIOUS
  <2>5. Len(t) = m /\ t[m] = delay /\ \A i \in 1..n : t[i] = s[i]
    BY <2>2, <2>3, <2>4
  <2>6. \A i \in 1..m : i = m \/ i \in 1..n
    BY <2>4
  <2>7. \A i \in 1..m : t[i] = RetryDelayForAttempt(cfg, i - 1)
    BY <1>3, <2>2, <2>4, <2>5, <2>6
  <2> QED
    BY <1>5, <2>1, <2>3, <2>4, <2>5, <2>7 DEF BackoffInv
<1>8. LimitInv'
  BY <1>5 DEF DeadlineInv, LimitInv
<1>9. BudgetInv'
  <2>1. PICK p \in Preambles : elapsed <= p + Made * longest + Backoffs(cfg)[attempt]
    BY <1>5 DEF DeadlineInv, BudgetInv
  <2>2. Made' = Made /\ Made = n + 1
    BY <1>2, <1>5 DEF Made
  <2>3. PICK b \in Nat : b = Backoffs(cfg)[n]
    BY <1>1, BackoffsMeans
  <2>4. Backoffs(cfg)[n + 1] = b + wait
    BY <1>1, <1>4, <2>3, BackoffsMeans
  <2>5. PICK x \in Nat : x = (n + 1) * longest
    BY <1>1 DEF DeadlineTypeOK
  <2>6. elapsed' <= p + x + (b + wait)
    BY <1>1, <1>2, <1>5, <2>1, <2>2, <2>3, <2>5 DEF DeadlineTypeOK
  <2>7. elapsed' <= p + Made' * longest' + Backoffs(cfg')[attempt']
    BY <1>5, <2>2, <2>4, <2>5, <2>6
  <2>8. longest' > 0
    BY <1>1, <1>2, <1>5, <2>2 DEF DeadlineInv, BudgetInv
  <2> QED
    BY <1>5, <2>7, <2>8 DEF BudgetInv
<1> QED
  BY <1>6, <1>7, <1>8, <1>9 DEF DeadlineInv

LEMMA EndKeeps ==
    ASSUME DeadlineInv, GiveUp \/ Respond
    PROVE  DeadlineInv'
<1>1. /\ phase \in {"failed", "ok", "error"} /\ phase' \in {"error", "answered", "eof"}
      /\ phase' = "eof" => ~(elapsed <= WriteTimeout)
      /\ UNCHANGED <<cfg, tool, attempt, elapsed, slept, longest, cut>>
  BY DEF GiveUp, Respond
<1>2. Made' = Made
  BY <1>1 DEF Made
<1>3. DeadlineTypeOK' /\ BackoffInv' /\ LimitInv'
  BY <1>1 DEF DeadlineInv, DeadlineTypeOK, BackoffInv, LimitInv, Phases
<1>4. BudgetInv'
  BY <1>1, <1>2 DEF DeadlineInv, DeadlineTypeOK, BudgetInv
<1> QED
  BY <1>3, <1>4 DEF DeadlineInv

LEMMA DeadlineStep == DeadlineInv /\ [DeadlineNext]_deadlineVars => DeadlineInv'
<1> SUFFICES ASSUME DeadlineInv, [DeadlineNext]_deadlineVars PROVE DeadlineInv'
  OBVIOUS
<1>1. CASE \E p \in Preambles : Begin(p)
  BY <1>1, BeginKeeps
<1>2. CASE \E d \in Durations, next \in {"ok", "failed"} : Execute(d, next)
  BY <1>2, ExecuteKeeps
<1>3. CASE Backoff
  BY <1>3, BackoffKeeps
<1>4. CASE GiveUp \/ Respond
  BY <1>4, EndKeeps
<1>5. CASE UNCHANGED deadlineVars
  <2>1. Made' = Made
    BY <1>5 DEF deadlineVars, Made
  <2> QED
    BY <1>5, <2>1
    DEF deadlineVars, DeadlineInv, DeadlineTypeOK, BackoffInv, LimitInv, BudgetInv
<1> QED
  BY <1>1, <1>2, <1>3, <1>4, <1>5 DEF DeadlineNext

-----------------------------------------------------------------------------
(* What the durations promise *)

LEMMA DelaysAreOrdered == DeadlineInv => BackoffGrowsToCap
<1> SUFFICES ASSUME DeadlineInv, Ordered(cfg), slept /= <<>> PROVE
       /\ slept[1] = cfg.delay
       /\ \A i \in 1..Len(slept) : slept[i] <= cfg.cap
       /\ \A i \in 2..Len(slept) : Fits(cfg, i - 1) => slept[i - 1] <= slept[i]
  BY DEF BackoffGrowsToCap
<1>1. cfg \in ConfigType /\ slept \in Seq(Int)
  BY DEF DeadlineInv, DeadlineTypeOK
<1>2. PICK n \in Nat : n = Len(slept)
  BY <1>1
<1>3. n > 0
  BY <1>1, <1>2
<1>4. \A i \in 1..n : slept[i] = RetryDelayForAttempt(cfg, i - 1)
  BY <1>2 DEF DeadlineInv, BackoffInv
<1>5. slept[1] = cfg.delay
  <2>1. slept[1] = RetryDelayForAttempt(cfg, 0)
    BY <1>3, <1>4
  <2> QED
    BY <1>1, <2>1, DelayGrows
<1>6. ASSUME NEW i \in 1..n PROVE slept[i] <= cfg.cap
  <2>1. PICK k \in Nat : k = i - 1
    OBVIOUS
  <2> QED
    BY <1>1, <1>4, <2>1, DelayGrows
<1>7. ASSUME NEW i \in 2..n, Fits(cfg, i - 1) PROVE slept[i - 1] <= slept[i]
  <2>1. PICK k \in Nat : k = i - 2 /\ k + 1 = i - 1 /\ k = (i - 1) - 1
    OBVIOUS
  <2>2. i \in 1..n /\ i - 1 \in 1..n
    OBVIOUS
  <2>3. slept[i - 1] = RetryDelayForAttempt(cfg, k) /\ slept[i] = RetryDelayForAttempt(cfg, k + 1)
    BY <1>4, <2>1, <2>2
  <2>4. Fits(cfg, k + 1)
    BY <1>7, <2>1
  <2> QED
    BY <1>1, <2>3, <2>4, DelayGrows
<1> QED
  BY <1>2, <1>5, <1>6, <1>7

\* The write timeout has room for the preamble, for the delays and for attempts of
\* the safe duration.
SafeFits ==
    \A c \in Configs, p \in Preambles :
        c.safe > 0 => p + (c.retries + 1) * c.safe + Backoffs(c)[c.retries] <= WriteTimeout

LEMMA ShortIsAnswered ==
    ASSUME SafeFits, DeadlineInv
    PROVE  ShortAttemptsAnswered
<1> SUFFICES ASSUME phase = "eof", ~(longest > cfg.safe) PROVE FALSE
  BY DEF ShortAttemptsAnswered
<1>1. DeadlineTypeOK /\ cfg \in ConfigType
  BY DEF DeadlineInv, DeadlineTypeOK
<1>2. PICK n \in Nat, r \in Nat : n = attempt /\ r = cfg.retries /\ n <= r
  <2>1. cfg.retries \in Nat
    BY <1>1 DEF ConfigType
  <2>2. attempt \in Nat /\ attempt <= cfg.retries
    BY <1>1, <2>1 DEF DeadlineTypeOK
  <2> QED
    BY <2>1, <2>2
<1>3. Made = n + 1
  BY <1>2 DEF Made
<1>4. PICK l \in Nat, s \in Nat : l = longest /\ s = cfg.safe
  BY <1>1 DEF DeadlineTypeOK, ConfigType
<1>5. 0 < l /\ l <= s
  <2>1. Made > 0
    BY <1>3
  <2>2. longest > 0
    BY <2>1 DEF DeadlineInv, BudgetInv
  <2> QED
    BY <1>4, <2>2
<1>6. PICK p \in Preambles : elapsed <= p + Made * longest + Backoffs(cfg)[attempt]
  BY DEF DeadlineInv, BudgetInv
<1>7. PICK b \in Nat, t \in Nat : b = Backoffs(cfg)[n] /\ t = Backoffs(cfg)[r] /\ b <= t
  <2>1. Backoffs(cfg) \in [Nat -> Nat]
    BY <1>1, BackoffsMeans
  <2>2. n \in 0..r
    BY <1>2
  <2>3. Backoffs(cfg)[n] <= Backoffs(cfg)[r]
    BY <1>1, <2>2, BackoffsGrow
  <2> QED
    BY <2>1, <2>3
<1>8. PICK m \in Nat, q \in Nat : m = n + 1 /\ q = r + 1 /\ m <= q
  <2>1. n + 1 <= r + 1 /\ n + 1 \in Nat /\ r + 1 \in Nat
    BY <1>2
  <2> QED
    BY <2>1
<1>9. PICK x \in Nat, y \in Nat : x = m * l /\ y = q * s
  OBVIOUS
<1>10. x <= y
  <2>1. m * l <= q * l
    BY <1>8, ProductsGrow
  <2>2. q * l <= q * s
    BY <1>5, ProductsGrow
  <2>3. PICK u \in Nat : u = q * l
    OBVIOUS
  <2> QED
    BY <1>9, <2>1, <2>2, <2>3
<1>11. p + y + t <= WriteTimeout
  BY <1>1, <1>2, <1>4, <1>5, <1>7, <1>8, <1>9 DEF SafeFits, DeadlineTypeOK
<1>12. elapsed <= p + x + b
  BY <1>2, <1>3, <1>4, <1>6, <1>7, <1>8, <1>9
<1>13. elapsed > WriteTimeout /\ elapsed \in Nat
  BY <1>1 DEF DeadlineInv, BudgetInv, DeadlineTypeOK
<1> QED
  BY <1>7, <1>10, <1>11, <1>12, <1>13

LEMMA MsAreKept == DeadlineInv => TimeoutMsIsKept
<1> SUFFICES ASSUME DeadlineInv, tool.type = "HTTP", tool.timeoutMs > 0,
                    tool.timeoutSeconds = 0, tool.timeout_seconds = 0
             PROVE  /\ cut > 0 => cut >= Timeout \/ 100 * cut >= tool.timeoutMs
                    /\ 100 * longest < tool.timeoutMs + 1000
  BY DEF TimeoutMsIsKept
<1>1. tool \in ToolType /\ cut \in Nat /\ longest \in Nat
  BY DEF DeadlineInv, DeadlineTypeOK
<1>2. PICK limit \in Nat \ {0} : limit = Limit(tool)
  BY <1>1, LimitType
<1>3. PICK ms \in Nat : ms = tool.timeoutMs
  BY <1>1 DEF ToolType
<1>4. (limit >= Timeout \/ 100 * limit >= ms) /\ 100 * limit < ms + 1000
  BY <1>1, <1>2, <1>3, LimitOfMs
<1>5. longest <= limit /\ (cut > 0 => cut >= limit)
  BY <1>2 DEF DeadlineInv, LimitInv
<1> QED
  BY <1>1, <1>3, <1>4, <1>5

\* The invariant of the durations, for any configurations, tools and durations.
THEOREM DeadlineInvHolds == DeadlineSpec => []DeadlineInv
BY DeadlineStarts, DeadlineStep, PTL DEF DeadlineSpec

\* With a base below the cap the delays of a request start at the base and never
\* pass the cap, and they do not shrink before they outgrow a Duration, whatever
\* the fraction they grow by and however wide a Duration is.
THEOREM BackoffIsOrdered == DeadlineSpec => []BackoffGrowsToCap
BY DeadlineInvHolds, DelaysAreOrdered, PTL

\* Whatever each attempt really took, a client reads EOF only when one of them
\* took longer than the safe duration, if that duration was computed from the
\* write timeout, the longest preamble and the delays of the configuration.
THEOREM ShortAttemptsFit ==
    ASSUME SafeFits
    PROVE  DeadlineSpec => []ShortAttemptsAnswered
<1>1. DeadlineInv => ShortAttemptsAnswered
  BY SafeFits, ShortIsAnswered
<1> QED
  BY DeadlineInvHolds, <1>1, PTL

\* No request of an HTTP tool is cut before the timeout the tool asks for, nor
\* runs a second longer.
THEOREM MsTimeoutIsKept == DeadlineSpec => []TimeoutMsIsKept
BY DeadlineInvHolds, MsAreKept, PTL

\* DefaultConfig, in units of 100 ms, with an authentication and a resolution of
\* at most 5 s: attempts of up to 58.1 s fit the 180 s of the server.
THEOREM DefaultConfigFits ==
    ASSUME WriteTimeout = 1800, MaxDuration >= 300,
           \A p \in Preambles : p <= 50,
           Configs = {[retries |-> 2, delay |-> 2, num |-> 2, den |-> 1, cap |-> 300, safe |-> 581]}
    PROVE  SafeFits
<1> SUFFICES ASSUME NEW c \in Configs, NEW p \in Preambles
             PROVE  p + (c.retries + 1) * c.safe + Backoffs(c)[c.retries] <= 1800
  BY DEF SafeFits
<1>1. /\ c.retries = 2 /\ c.delay = 2 /\ c.num = 2 /\ c.den = 1 /\ c.cap = 300 /\ c.safe = 581
      /\ c \in ConfigType
  OBVIOUS
<1>2. Pow(2)[1] = 2 /\ Pow(1)[1] = 1
  <2>1. Pow(2)[0 + 1] = 2 * 1 /\ Pow(1)[0 + 1] = 1 * 1
    BY PowMeans
  <2> QED
    BY <2>1
<1>3. WaitAfter(c, 0) = 2 /\ WaitAfter(c, 1) = 4
  <2>1. Grown(c, 1) = 4
    BY <1>1, <1>2 DEF Grown
  <2>2. Converted(4) = 4
    BY DEF Converted
  <2>3. RetryDelayForAttempt(c, 0) = 2 /\ RetryDelayForAttempt(c, 1) = 4
    BY <1>1, <2>1, <2>2 DEF RetryDelayForAttempt
  <2> QED
    BY <2>3 DEF WaitAfter, Waited
<1>4. Backoffs(c)[1] = 2
  <2>1. Backoffs(c)[0 + 1] = 0 + WaitAfter(c, 0)
    BY <1>1, BackoffsMeans
  <2> QED
    BY <1>3, <2>1
<1>5. Backoffs(c)[2] = 6
  <2>1. Backoffs(c)[1 + 1] = Backoffs(c)[1] + WaitAfter(c, 1)
    BY <1>1, BackoffsMeans
  <2> QED
    BY <1>3, <1>4, <2>1
<1> QED
  BY <1>1, <1>5
=============================================================================
