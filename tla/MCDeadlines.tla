---------------------------- MODULE MCDeadlines -----------------------------
(***************************************************************************)
(* DefaultConfig and the timeouts of main.go, in units of 100 ms, and a    *)
(* set of backoff configurations that reach their caps and the width of a  *)
(* Duration, which is 12 bits here.                                        *)
(***************************************************************************)
EXTENDS Deadlines

Conf(r, d, n, m, c, s) ==
    [retries |-> r, delay |-> d, num |-> n, den |-> m, cap |-> c, safe |-> s]

DefaultConfig == {Conf(2, 2, 2, 1, 300, 581)}

Overflowing == {Conf(12, 2, 2, 1, 300, 0), Conf(3, 2, 60, 1, 300, 0)}

\* DefaultConfig; then doubling, a factor of 1.5, a constant delay, a base above
\* its cap, no cap, a factor of 1.25 that truncation slows down, and two that
\* grow past the largest Duration: from the cap, and from below it in one step.
ManyConfigs ==
    DefaultConfig \cup Overflowing \cup
        {Conf(7, 2, 2, 1, 100, 0), Conf(7, 3, 3, 2, 20, 0), Conf(4, 5, 1, 1, 20, 0),
         Conf(4, 40, 2, 1, 20, 0), Conf(4, 2, 3, 1, 0, 0), Conf(7, 1, 5, 4, 2, 0)}

Tool(type, seconds, legacy, ms) ==
    [type |-> type, timeoutSeconds |-> seconds, timeout_seconds |-> legacy, timeoutMs |-> ms]

\* No timeout of its own, the defaults, a script with a longer one, and timeouts
\* in milliseconds below, at, above and between the seconds.
ManyTools ==
    {Tool("other", 0, 0, 0), Tool("SCRIPT", 0, 0, 60000), Tool("HTTP", 0, 0, 0),
     Tool("HTTP", 0, 60, 1500), Tool("HTTP", 1, 60, 0)}
    \cup {Tool("HTTP", 0, 0, ms) : ms \in {1, 1000, 1001, 1900, 120000}}
=============================================================================
