--------------------------- MODULE MCSkillResolver --------------------------
(***************************************************************************)
(* Two skills, two tenant tools and a core tool over two slugs.  "x"       *)
(* names a skill, a tool and a core tool, so that all three levels compete *)
(* for it; "y" names a skill and a tool.                                   *)
(***************************************************************************)
EXTENDS SkillResolver, TLC

CONSTANTS s1, s2, t1, t2, k1

MCSkillSlug == (s1 :> "x" @@ s2 :> "y")
MCToolSlug == (t1 :> "x" @@ t2 :> "y")
MCCoreSlug == (k1 :> "x")
=============================================================================
