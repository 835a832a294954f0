--------------------------- MODULE SkillResolver ----------------------------
(***************************************************************************)
(* internal/executor/resolver.go: one call of SkillResolver.ResolveSkill   *)
(* or ResolveTool against the database, which the admin API edits at the   *)
(* same time.                                                              *)
(*                                                                         *)
(* A query is one step: a single SELECT sees one snapshot.  The up to      *)
(* three queries of ResolveSkill are separate steps, since they run        *)
(* outside a transaction.  A query may also fail (a lost connection, a     *)
(* timeout, no free connection): row.Scan then returns an error, which the *)
(* code does not tell from pgx.ErrNoRows.                                  *)
(*                                                                         *)
(* The resolver keeps no state, so concurrent calls do not affect each     *)
(* other and one call is enough.                                           *)
(***************************************************************************)
EXTENDS Integers, FiniteSets

CONSTANTS
    Skills, Tools, CoreTools,   \* rows of skill, tool (tenant) and ah_core.tool
    Slugs,                      \* the slugs callers ask for
    SkillSlug,                  \* [Skills -> Slugs], the slug column of skill
    ToolSlug,                   \* [Tools -> Slugs]
    CoreSlug,                   \* [CoreTools -> Slugs]
    UnknownTool,                \* a tool id no row has
    Ranks,                      \* (priority, created_at), in their order
    MaxEdits                    \* bound on the edits made during the call

ASSUME ResolverAssumption ==
    /\ SkillSlug \in [Skills -> Slugs]
    /\ ToolSlug \in [Tools -> Slugs]
    /\ CoreSlug \in [CoreTools -> Slugs]
    /\ \A s, u \in Skills : SkillSlug[s] = SkillSlug[u] => s = u    \* UNIQUE (slug)
    /\ \A t, u \in Tools : ToolSlug[t] = ToolSlug[u] => t = u
    /\ UnknownTool \notin Tools
    /\ Slugs \cap (Tools \cup {UnknownTool}) = {}
    /\ Ranks \subseteq Nat
    /\ MaxEdits \in Nat

VARIABLES
    binding,    \* skill_tool: no row, an inactive row, or the rank of an active row
    coreActive, \* the rows of ah_core.tool with is_active
    pc,         \* where the call is
    asked,      \* the slug or the tool id it resolves
    answer,     \* what it returned
    edits,      \* bounds the edits
    offered,    \* history: the right answers of each level during the call
    missed,     \* history: the levels without a right answer at some moment
    faults      \* history: the levels whose query failed

db == <<binding, coreActive>>
call == <<pc, asked, answer>>
vars == <<db, call, edits, offered, missed, faults>>

NoRow == -1
Inactive == -2
NotFound == [level |-> "none", tool |-> UnknownTool]
Levels == {"skill", "tool", "core"}
Answers ==
    [level : {"skill", "tool", "id"}, tool : Tools]
        \cup [level : {"core"}, tool : CoreTools] \cup {NotFound}

TypeOK ==
    /\ binding \in [Skills \X Tools -> Ranks \cup {NoRow, Inactive}]
    /\ coreActive \subseteq CoreTools
    /\ pc \in Levels \cup {"begin", "id", "done"}
    /\ asked \in Slugs \cup Tools \cup {UnknownTool}
    /\ answer \in Answers
    /\ edits \in 0..MaxEdits
    /\ offered \subseteq Answers
    /\ missed \subseteq Levels
    /\ faults \subseteq Levels

-----------------------------------------------------------------------------
(* The queries, over a binding table b and a set k of active core tools *)

ActiveRows(b) == {row \in Skills \X Tools : b[row] \in Ranks}

\* ORDER BY priority, created_at LIMIT 1: any row of least rank.
First(b, rows) == {row[2] : row \in {x \in rows : \A y \in rows : b[x] <= b[y]}}

\* Mutated: the join forgets st.is_active.
BySkill_AnyRow(b, slug) ==
    First(b, {row \in Skills \X Tools : b[row] /= NoRow /\ SkillSlug[row[1]] = slug})

BySkill(b, slug) == First(b, {row \in ActiveRows(b) : SkillSlug[row[1]] = slug})

ByTool(b, slug) == First(b, {row \in ActiveRows(b) : ToolSlug[row[2]] = slug})

ByCore(k, slug) == {c \in k : CoreSlug[c] = slug}

Hits(b, k, slug, level) ==
    [skill |-> BySkill(b, slug), tool |-> ByTool(b, slug), core |-> ByCore(k, slug)][level]

Now(level) == Hits(binding, coreActive, asked, level)

-----------------------------------------------------------------------------
(* The documented meaning of each level, stated apart from the queries *)

Legit(b, k, slug, level, t) ==
    \/ /\ level = "skill"
       /\ \E s \in Skills :
            /\ SkillSlug[s] = slug /\ t \in Tools /\ b[<<s, t>>] \in Ranks
            /\ \A u \in Tools : b[<<s, u>>] \in Ranks => b[<<s, t>>] <= b[<<s, u>>]
    \/ /\ level = "tool"
       /\ t \in Tools /\ ToolSlug[t] = slug /\ \E s \in Skills : b[<<s, t>>] \in Ranks
    \/ /\ level = "core"
       /\ t \in k /\ CoreSlug[t] = slug

Offers(b, k, slug) ==
    {a \in [level : Levels, tool : Tools \cup CoreTools] : Legit(b, k, slug, a.level, a.tool)}

Misses(b, k, slug) == {l \in Levels : \A a \in Offers(b, k, slug) : a.level /= l}

-----------------------------------------------------------------------------
Init ==
    /\ binding \in [Skills \X Tools -> Ranks \cup {NoRow, Inactive}]
    /\ coreActive \in SUBSET CoreTools
    /\ pc = "begin"
    /\ asked = UnknownTool
    /\ answer = NotFound
    /\ edits = 0
    /\ offered = {}
    /\ missed = {}
    /\ faults = {}

\* POST /api/skills/{skillSlug}/execute
ResolveSkill(slug) ==
    /\ pc = "begin"
    /\ pc' = "skill"
    /\ asked' = slug
    /\ offered' = Offers(binding, coreActive, slug)
    /\ missed' = Misses(binding, coreActive, slug)
    /\ UNCHANGED <<db, answer, edits, faults>>

\* POST /api/tools/{toolId}/execute
ResolveTool(id) ==
    /\ pc = "begin"
    /\ pc' = "id"
    /\ asked' = id
    /\ UNCHANGED <<db, answer, edits, offered, missed, faults>>

Found(level, t) ==
    /\ t \in Now(level)
    /\ answer' = [level |-> level, tool |-> t]
    /\ pc' = "done"
    /\ UNCHANGED <<db, asked, edits, offered, missed, faults>>

\* row.Scan failed: no row, or, all the same to the code, a failed query.
ScanFails(level) ==
    \/ Now(level) = {} /\ UNCHANGED faults
    \/ faults' = faults \cup {level}

FallBack(level, next) ==
    /\ ScanFails(level)
    /\ pc' = next
    /\ UNCHANGED <<db, asked, answer, edits, offered, missed>>

\* Mutated: core tools come before the tools of the tenant.
QuerySkill_CoreNext ==
    pc = "skill" /\ (FallBack("skill", "core") \/ \E t \in Tools : Found("skill", t))

QuerySkill == pc = "skill" /\ (FallBack("skill", "tool") \/ \E t \in Tools : Found("skill", t))

QueryTool == pc = "tool" /\ (FallBack("tool", "core") \/ \E t \in Tools : Found("tool", t))

\* answer is still NotFound when the call falls off the last query.
QueryCore == pc = "core" /\ (FallBack("core", "done") \/ \E t \in CoreTools : Found("core", t))

\* ResolveTool asks for the row by its id and looks at no binding.
QueryById ==
    /\ pc = "id"
    /\ \/ asked \in Tools /\ answer' = [level |-> "id", tool |-> asked]
       \/ answer' = NotFound    \* no such row, or a failed query
    /\ pc' = "done"
    /\ UNCHANGED <<db, asked, edits, offered, missed, faults>>

-----------------------------------------------------------------------------
(* The admin API: one committed edit of a row *)

Edit(b, k) ==
    /\ pc \in Levels
    /\ edits < MaxEdits
    /\ edits' = edits + 1
    /\ binding' = b
    /\ coreActive' = k
    /\ offered' = offered \cup Offers(b, k, asked)
    /\ missed' = missed \cup Misses(b, k, asked)
    /\ UNCHANGED <<call, faults>>

EditBinding ==
    \E row \in Skills \X Tools, v \in Ranks \cup {NoRow, Inactive} :
        v /= binding[row] /\ Edit([binding EXCEPT ![row] = v], coreActive)

EditCore ==
    \E c \in CoreTools :
        Edit(binding, IF c \in coreActive THEN coreActive \ {c} ELSE coreActive \cup {c})

Next ==
    \/ \E slug \in Slugs : ResolveSkill(slug)
    \/ \E id \in Tools \cup {UnknownTool} : ResolveTool(id)
    \/ QuerySkill \/ QueryTool \/ QueryCore \/ QueryById
    \/ EditBinding \/ EditCore

Spec == Init /\ [][Next]_vars

-----------------------------------------------------------------------------
Before == [skill |-> {}, tool |-> {"skill"}, core |-> {"skill", "tool"}, none |-> Levels]

\* The documented order, tenant skill, tenant tool, core tool: whatever edits
\* happen between the queries, every level before the one that answered was
\* empty at some moment of the call, and "not found" needs such a moment at all
\* three, except for a level whose query failed.
OrderRespected ==
    (pc = "done" /\ asked \in Slugs) => Before[answer.level] \subseteq missed \cup faults

\* "An orphaned or disabled tool cannot be executed by guessing its slug": what
\* is answered for a slug was the right answer of its level at some moment of
\* the call, the first active binding or an active core tool, even when queries
\* fail.
OnlyActiveTools ==
    (pc = "done" /\ asked \in Slugs /\ answer /= NotFound) => answer \in offered
=============================================================================
