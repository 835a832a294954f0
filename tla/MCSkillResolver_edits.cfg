SPECIFICATION Spec
CONSTANTS
    s1 = s1
    s2 = s2
    t1 = t1
    t2 = t2
    k1 = k1
    Skills = {s1, s2}
    Tools = {t1, t2}
    CoreTools = {k1}
    Slugs = {"x", "y"}
    SkillSlug <- MCSkillSlug
    ToolSlug <- MCToolSlug
    CoreSlug <- MCCoreSlug
    UnknownTool = unknown
    Ranks = {0, 1}
    MaxEdits = 2
INVARIANTS
    OrderRespected
    OnlyActiveTools
\* The call ends.
CHECK_DEADLOCK FALSE
