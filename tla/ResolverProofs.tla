--------------------------- MODULE ResolverProofs ---------------------------
(***************************************************************************)
(* Proofs about SkillResolver, for any tables and any number of edits.     *)
(* QueriesMeanLegit compares the queries with the documented meaning of    *)
(* each level; ResolverInv carries what the histories know about the       *)
(* current tables through the call.                                        *)
(***************************************************************************)
EXTENDS SkillResolver, WellFoundedInduction, TLAPS

USE ResolverAssumption DEF ResolverAssumption

Tables == [Skills \X Tools -> Ranks \cup {NoRow, Inactive}]

LEMMA LeastNatural ==
    ASSUME NEW S, S \subseteq Nat, S /= {}
    PROVE  \E n \in S : \A m \in S : n <= m
<1> DEFINE Less == OpToRel(<, Nat)
<1>1. PICK n \in S : \A m \in S : <<m, n>> \notin Less
  <2> HIDE DEF Less
  <2>1. IsWellFoundedOn(Less, Nat)
    BY NatLessThanWellFounded DEF Less
  <2> QED
    BY <2>1, WFMin
<1>2. \A m \in S : m < n => <<m, n>> \in Less
  BY DEF OpToRel
<1> HIDE DEF Less
<1>3. \A m \in S : ~(m < n)
  BY <1>1, <1>2
<1> QED
  BY <1>3

\* A query with rows has a first row.
LEMMA FirstExists ==
    ASSUME NEW b \in Tables, NEW rows \in SUBSET ActiveRows(b), rows /= {}
    PROVE  First(b, rows) /= {}
<1> DEFINE S == {b[r] : r \in rows}
<1>1. \A r \in rows : b[r] \in Nat
  BY DEF ActiveRows
<1>2. S \subseteq Nat /\ S /= {}
  BY <1>1
<1>3. PICK n \in S : \A m \in S : n <= m
  <2> HIDE DEF S
  <2> QED BY <1>2, LeastNatural
<1>4. PICK r \in rows : b[r] = n
  BY <1>3
<1>5. \A x \in rows : b[r] <= b[x]
  BY <1>3, <1>4
<1> QED
  BY <1>4, <1>5 DEF First

\* What the queries return is right for their level, and they return nothing
\* only when nothing would be right.
LEMMA QueriesMeanLegit ==
    ASSUME NEW b \in Tables, NEW k \in SUBSET CoreTools, NEW slug \in Slugs,
           NEW level \in Levels
    PROVE  /\ \A t \in Hits(b, k, slug, level) :
                [level |-> level, tool |-> t] \in Offers(b, k, slug)
           /\ Hits(b, k, slug, level) = {} => level \in Misses(b, k, slug)
<1> DEFINE Right(t) == Legit(b, k, slug, level, t)
<1> SUFFICES /\ \A t \in Hits(b, k, slug, level) : Right(t) /\ t \in Tools \cup CoreTools
             /\ Hits(b, k, slug, level) = {} => \A t : ~Right(t)
  BY DEF Offers, Misses
<1>1. \A r \in Skills \X Tools : r = <<r[1], r[2]>> /\ r[1] \in Skills /\ r[2] \in Tools
  OBVIOUS
<1>2. CASE level = "skill"
  <2> DEFINE rows == {r \in ActiveRows(b) : SkillSlug[r[1]] = slug}
  <2>1. Hits(b, k, slug, level) = First(b, rows)
    BY <1>2 DEF Hits, BySkill
  <2>2. ASSUME NEW t \in First(b, rows) PROVE Right(t) /\ t \in Tools
    <3>1. PICK r \in rows : r[2] = t /\ \A y \in rows : b[r] <= b[y]
      BY DEF First
    <3>2. r = <<r[1], t>> /\ r[1] \in Skills /\ t \in Tools /\ b[r] \in Ranks /\ SkillSlug[r[1]] = slug
      BY <1>1, <3>1 DEF ActiveRows
    <3>3. ASSUME NEW u \in Tools, b[<<r[1], u>>] \in Ranks PROVE b[r] <= b[<<r[1], u>>]
      <4>1. <<r[1], u>> \in rows
        BY <3>2, <3>3 DEF ActiveRows
      <4> QED
        BY <3>1, <4>1
    <3> QED
      BY <1>2, <3>2, <3>3 DEF Legit
  <2>3. ASSUME NEW t, Right(t) PROVE t \in First(b, rows)
    <3>1. PICK s \in Skills : /\ SkillSlug[s] = slug /\ t \in Tools /\ b[<<s, t>>] \in Ranks
                              /\ \A u \in Tools : b[<<s, u>>] \in Ranks => b[<<s, t>>] <= b[<<s, u>>]
      BY <1>2, <2>3 DEF Legit
    <3>2. <<s, t>> \in rows
      BY <3>1 DEF ActiveRows
    <3>3. ASSUME NEW y \in rows PROVE b[<<s, t>>] <= b[y]
      BY <1>1, <3>1, <3>3 DEF ActiveRows
    <3> QED
      BY <3>2, <3>3 DEF First
  <2> QED
    BY <2>1, <2>2, <2>3
<1>3. CASE level = "tool"
  <2> DEFINE rows == {r \in ActiveRows(b) : ToolSlug[r[2]] = slug}
  <2>1. Hits(b, k, slug, level) = First(b, rows)
    BY <1>3 DEF Hits, ByTool
  <2>2. ASSUME NEW t \in First(b, rows) PROVE Right(t) /\ t \in Tools
    <3>1. PICK r \in rows : r[2] = t
      BY DEF First
    <3> QED
      BY <1>1, <1>3, <3>1 DEF ActiveRows, Legit
  <2>3. ASSUME NEW t, Right(t) PROVE First(b, rows) /= {}
    <3>1. PICK s \in Skills : t \in Tools /\ ToolSlug[t] = slug /\ b[<<s, t>>] \in Ranks
      BY <1>3, <2>3 DEF Legit
    <3>2. <<s, t>> \in rows
      BY <3>1 DEF ActiveRows
    <3> QED
      BY <3>2, FirstExists
  <2> QED
    BY <2>1, <2>2, <2>3
<1>4. CASE level = "core"
  <2>1. Hits(b, k, slug, level) = ByCore(k, slug)
    BY <1>4 DEF Hits
  <2>2. \A t : Right(t) <=> t \in ByCore(k, slug)
    BY <1>4 DEF Legit, ByCore
  <2> QED
    BY <2>1, <2>2 DEF ByCore
<1> QED
  BY <1>2, <1>3, <1>4 DEF Levels

-----------------------------------------------------------------------------
\* The histories hold what the tables offer and miss now, and the levels
\* already asked were missed or failed.
Asking ==
    /\ pc = "begin" => answer = NotFound
    /\ pc = "id" => asked \notin Slugs
    /\ pc \in Levels =>
         /\ asked \in Slugs /\ answer = NotFound
         /\ Offers(binding, coreActive, asked) \subseteq offered
         /\ Misses(binding, coreActive, asked) \subseteq missed
         /\ Before[pc] \subseteq missed \cup faults

ResolverInv == TypeOK /\ Asking /\ OrderRespected /\ OnlyActiveTools

LEMMA InitInv == Init => ResolverInv
<1> SUFFICES ASSUME Init PROVE ResolverInv
  OBVIOUS
<1>1. TypeOK
  BY DEF Init, TypeOK, Answers, Levels
<1>2. Asking /\ OrderRespected /\ OnlyActiveTools
  BY DEF Init, Asking, OrderRespected, OnlyActiveTools, Levels
<1> QED
  BY <1>1, <1>2 DEF ResolverInv

\* A row that the query of a level returns ends the call with a right answer.
LEMMA FoundPreserves ==
    ASSUME ResolverInv, NEW level \in Levels, pc = level,
           NEW t \in IF level = "core" THEN CoreTools ELSE Tools, Found(level, t)
    PROVE  ResolverInv'
<1>1. answer' = [level |-> level, tool |-> t] /\ pc' = "done" /\ t \in Now(level)
  BY DEF Found
<1>2. UNCHANGED <<binding, coreActive, asked, edits, offered, missed, faults>>
  BY DEF Found, db
<1>3. answer' \in Answers
  BY <1>1 DEF Answers, Levels
<1>4. TypeOK'
  BY <1>1, <1>2, <1>3 DEF ResolverInv, TypeOK
<1>5. Asking'
  BY <1>1 DEF Asking, Levels
<1>6. Before[level] \subseteq missed \cup faults /\ asked \in Slugs
  BY DEF ResolverInv, Asking
<1>7. OrderRespected'
  BY <1>1, <1>2, <1>6 DEF OrderRespected, Before
<1>8. answer' \in Offers(binding, coreActive, asked)
  <2>1. binding \in Tables /\ coreActive \in SUBSET CoreTools
    BY DEF ResolverInv, TypeOK, Tables
  <2> QED
    BY <1>1, <1>6, <2>1, QueriesMeanLegit DEF Now
<1>9. OnlyActiveTools'
  BY <1>2, <1>8 DEF OnlyActiveTools, ResolverInv, Asking
<1> QED
  BY <1>4, <1>5, <1>7, <1>9 DEF ResolverInv

\* A query without a row, or that failed, moves the call to the next level.
LEMMA FallBackPreserves ==
    ASSUME ResolverInv, NEW level \in Levels, NEW next \in {"tool", "core", "done"},
           pc = level, FallBack(level, next),
           \/ level = "skill" /\ next = "tool"
           \/ level = "tool" /\ next = "core"
           \/ level = "core" /\ next = "done"
    PROVE  ResolverInv'
<1>1. pc' = next /\ UNCHANGED <<binding, coreActive, asked, answer, edits, offered, missed>>
  BY DEF FallBack, db
<1>2. faults \subseteq faults' /\ faults' \subseteq Levels
  BY DEF FallBack, ScanFails, ResolverInv, TypeOK
<1>3. TypeOK'
  <2>1. pc' \in Levels \cup {"begin", "id", "done"}
    BY <1>1 DEF Levels
  <2>2. answer \in Answers /\ answer' = answer
    BY <1>1 DEF ResolverInv, TypeOK
  <2> QED
    BY <1>1, <1>2, <2>1, <2>2 DEF ResolverInv, TypeOK
<1>4. /\ asked \in Slugs /\ answer = NotFound
      /\ Offers(binding, coreActive, asked) \subseteq offered
      /\ Misses(binding, coreActive, asked) \subseteq missed
      /\ Before[level] \subseteq missed \cup faults
  BY DEF ResolverInv, Asking
<1>5. level \in missed \cup faults'
  <2>1. CASE Now(level) = {}
    <3>1. binding \in Tables /\ coreActive \in SUBSET CoreTools
      BY DEF ResolverInv, TypeOK, Tables
    <3>2. level \in Misses(binding, coreActive, asked)
      BY <1>4, <2>1, <3>1, QueriesMeanLegit DEF Now
    <3> QED
      BY <1>4, <3>2
  <2>2. CASE Now(level) /= {}
    BY <2>2 DEF FallBack, ScanFails
  <2> QED
    BY <2>1, <2>2
<1>6. Before[level] \cup {level} \subseteq (missed \cup faults)'
  BY <1>1, <1>2, <1>4, <1>5
<1>7. Asking'
  BY <1>1, <1>4, <1>6 DEF Asking, Before, Levels
<1>8. OrderRespected'
  <2>1. CASE next = "done"
    <3>1. Levels \subseteq (missed \cup faults)'
      BY <1>6, <2>1 DEF Before, Levels
    <3>2. Before'[answer'.level] = Levels
      BY <1>1, <1>4 DEF Before, NotFound
    <3> QED
      BY <3>1, <3>2 DEF OrderRespected
  <2>2. CASE next /= "done"
    BY <1>1, <2>2 DEF OrderRespected
  <2> QED
    BY <2>1, <2>2
<1>9. OnlyActiveTools'
  BY <1>1, <1>4 DEF OnlyActiveTools, NotFound
<1> QED
  BY <1>3, <1>7, <1>8, <1>9 DEF ResolverInv

\* An edit adds to the histories what the new tables offer and miss.
LEMMA EditPreserves ==
    ASSUME ResolverInv, NEW b \in Tables, NEW k \in SUBSET CoreTools, Edit(b, k)
    PROVE  ResolverInv'
<1>1. /\ pc \in Levels /\ binding' = b /\ coreActive' = k
      /\ UNCHANGED <<pc, asked, answer, faults>>
      /\ edits < MaxEdits /\ edits' = edits + 1
      /\ offered' = offered \cup Offers(b, k, asked)
      /\ missed' = missed \cup Misses(b, k, asked)
  BY DEF Edit, call
<1>2. Offers(b, k, asked) \subseteq Answers /\ Misses(b, k, asked) \subseteq Levels
  <2>1. Misses(b, k, asked) \subseteq Levels
    BY DEF Misses
  <2>2. ASSUME NEW a \in Offers(b, k, asked) PROVE a \in Answers
    <3>1. a \in [level : Levels, tool : Tools \cup CoreTools] /\ Legit(b, k, asked, a.level, a.tool)
      BY <2>2 DEF Offers
    <3>2. a.level = "core" => a.tool \in CoreTools
      BY <3>1 DEF Legit
    <3>3. a.level \in {"skill", "tool"} => a.tool \in Tools
      BY <3>1 DEF Legit
    <3> QED
      BY <3>1, <3>2, <3>3 DEF Answers, Levels
  <2> QED
    BY <2>1, <2>2
<1>3. TypeOK'
  <2>1. edits' \in 0..MaxEdits
    BY <1>1 DEF ResolverInv, TypeOK
  <2> QED
    BY <1>1, <1>2, <2>1 DEF ResolverInv, TypeOK, Tables
<1>4. Asking'
  <2>1. asked \in Slugs /\ answer = NotFound /\ Before[pc] \subseteq missed \cup faults
    BY <1>1 DEF ResolverInv, Asking
  <2>2. pc' \in Levels /\ pc' = pc /\ Before' = Before
    BY <1>1 DEF Before
  <2>3. pc \notin {"begin", "id"}
    BY <1>1 DEF Levels
  <2>4. Offers(binding, coreActive, asked)' = Offers(b, k, asked)
    BY <1>1
  <2>5. Misses(binding, coreActive, asked)' = Misses(b, k, asked)
    BY <1>1
  <2> QED
    BY <1>1, <2>1, <2>2, <2>3, <2>4, <2>5 DEF Asking
<1>5. OrderRespected' /\ OnlyActiveTools'
  BY <1>1 DEF OrderRespected, OnlyActiveTools, Levels
<1> QED
  BY <1>3, <1>4, <1>5 DEF ResolverInv

LEMMA StepInv == ResolverInv /\ [Next]_vars => ResolverInv'
<1> SUFFICES ASSUME ResolverInv, [Next]_vars PROVE ResolverInv'
  OBVIOUS
<1>1. ASSUME NEW slug \in Slugs, ResolveSkill(slug) PROVE ResolverInv'
  <2>1. /\ pc = "begin" /\ pc' = "skill" /\ asked' = slug
        /\ offered' = Offers(binding, coreActive, slug)
        /\ missed' = Misses(binding, coreActive, slug)
        /\ UNCHANGED <<binding, coreActive, answer, edits, faults>>
    BY <1>1 DEF ResolveSkill, db
  <2>2. answer = NotFound
    BY <2>1 DEF ResolverInv, Asking
  <2>3. Offers(binding, coreActive, slug) \subseteq Answers
    <3> SUFFICES ASSUME NEW a \in Offers(binding, coreActive, slug) PROVE a \in Answers
      OBVIOUS
    <3>1. /\ a \in [level : Levels, tool : Tools \cup CoreTools]
          /\ Legit(binding, coreActive, slug, a.level, a.tool)
      BY DEF Offers
    <3>2. coreActive \subseteq CoreTools
      BY DEF ResolverInv, TypeOK
    <3>3. a.level = "core" => a.tool \in CoreTools
      BY <3>1, <3>2 DEF Legit
    <3>4. a.level \in {"skill", "tool"} => a.tool \in Tools
      BY <3>1 DEF Legit
    <3> QED
      BY <3>1, <3>3, <3>4 DEF Answers, Levels
  <2>4. TypeOK'
    BY <2>1, <2>3 DEF ResolverInv, TypeOK, Levels, Misses
  <2>5. Asking'
    <3>1. Before' = Before /\ Before["skill"] = {}
      BY DEF Before
    <3>2. /\ Offers(binding, coreActive, asked)' = offered'
          /\ Misses(binding, coreActive, asked)' = missed'
      BY <2>1
    <3> QED
      BY <2>1, <2>2, <3>1, <3>2 DEF Asking, Levels
  <2> QED
    BY <2>1, <2>4, <2>5 DEF ResolverInv, OrderRespected, OnlyActiveTools
<1>2. ASSUME NEW id \in Tools \cup {UnknownTool}, ResolveTool(id) PROVE ResolverInv'
  <2>1. /\ pc = "begin" /\ pc' = "id" /\ asked' = id
        /\ UNCHANGED <<binding, coreActive, answer, edits, offered, missed, faults>>
    BY <1>2 DEF ResolveTool, db
  <2>2. TypeOK'
    BY <2>1 DEF ResolverInv, TypeOK
  <2>3. Asking' /\ OrderRespected' /\ OnlyActiveTools'
    BY <2>1 DEF Asking, OrderRespected, OnlyActiveTools, Levels
  <2> QED
    BY <2>2, <2>3 DEF ResolverInv
<1>3. CASE QuerySkill
  BY <1>3, FoundPreserves, FallBackPreserves DEF QuerySkill, Levels
<1>4. CASE QueryTool
  BY <1>4, FoundPreserves, FallBackPreserves DEF QueryTool, Levels
<1>5. CASE QueryCore
  BY <1>5, FoundPreserves, FallBackPreserves DEF QueryCore, Levels
<1>6. CASE QueryById
  <2>1. /\ pc = "id" /\ pc' = "done"
        /\ UNCHANGED <<binding, coreActive, asked, edits, offered, missed, faults>>
    BY <1>6 DEF QueryById, db
  <2>2. asked \notin Slugs
    BY <2>1 DEF ResolverInv, Asking
  <2>3. answer' \in Answers
    BY <1>6 DEF QueryById, Answers
  <2>4. TypeOK'
    BY <2>1, <2>3 DEF ResolverInv, TypeOK
  <2>5. Asking' /\ OrderRespected' /\ OnlyActiveTools'
    BY <2>1, <2>2 DEF Asking, OrderRespected, OnlyActiveTools, Levels
  <2> QED
    BY <2>4, <2>5 DEF ResolverInv
<1>7. CASE EditBinding
  <2>1. PICK row \in Skills \X Tools, v \in Ranks \cup {NoRow, Inactive} :
            Edit([binding EXCEPT ![row] = v], coreActive)
    BY <1>7 DEF EditBinding
  <2>2. [binding EXCEPT ![row] = v] \in Tables /\ coreActive \in SUBSET CoreTools
    BY DEF ResolverInv, TypeOK, Tables
  <2> QED
    BY <2>1, <2>2, EditPreserves
<1>8. CASE EditCore
  <2>1. PICK k \in SUBSET CoreTools : Edit(binding, k)
    <3>1. PICK c \in CoreTools :
            Edit(binding, IF c \in coreActive THEN coreActive \ {c} ELSE coreActive \cup {c})
      BY <1>8 DEF EditCore
    <3>2. (IF c \in coreActive THEN coreActive \ {c} ELSE coreActive \cup {c}) \in SUBSET CoreTools
      BY DEF ResolverInv, TypeOK
    <3> QED
      BY <3>1, <3>2
  <2>2. binding \in Tables
    BY DEF ResolverInv, TypeOK, Tables
  <2> QED
    BY <2>1, <2>2, EditPreserves
<1>9. CASE UNCHANGED vars
  BY <1>9 DEF vars, db, call, ResolverInv, TypeOK, Asking, OrderRespected, OnlyActiveTools
<1> QED
  BY <1>1, <1>2, <1>3, <1>4, <1>5, <1>6, <1>7, <1>8, <1>9 DEF Next

\* The variables of SkillResolver keep their types: every answer is a tool of
\* the database or "not found", whatever the edits.
THEOREM ResolverTypeCorrect == Spec => []TypeOK
<1>1. ResolverInv => TypeOK
  BY DEF ResolverInv
<1> QED
  BY InitInv, StepInv, <1>1, PTL DEF Spec

\* ResolveSkill respects the documented order of its three levels, for any
\* tables, any edits between its queries and any failed queries.
THEOREM OrderIsRespected == Spec => []OrderRespected
<1>1. ResolverInv => OrderRespected
  BY DEF ResolverInv
<1> QED
  BY InitInv, StepInv, <1>1, PTL DEF Spec

\* What ResolveSkill answers for a slug was the right, active tool of its level
\* at some moment of the call: the queries and the history meet through
\* QueriesMeanLegit.
THEOREM AnswersAreActive == Spec => []OnlyActiveTools
<1>1. ResolverInv => OnlyActiveTools
  BY DEF ResolverInv
<1> QED
  BY InitInv, StepInv, <1>1, PTL DEF Spec
=============================================================================
