----------------------------- MODULE Deadlines ------------------------------
(***************************************************************************)
(* The durations of one execute request: the timeout of an attempt and the *)
(* backoff of internal/invoker (Config, RetryDelayForAttempt) against the  *)
(* write deadline of the HTTP server in cmd/skillruntime/main.go, with the *)
(* timeouts the HTTP and script executors add.  Invoker models the same    *)
(* loop without time.                                                      *)
(*                                                                         *)
(* One unit is 100 ms.  The multiplier is the fraction num / den of a      *)
(* config; a delay is truncated once, at the end, as time.Duration(delay)  *)
(* does.  That conversion is where the width of a Duration matters: a      *)
(* float64 that does not fit becomes the smallest Duration on amd64, for   *)
(* which the Dockerfile builds (the language leaves the value open).       *)
(***************************************************************************)
EXTENDS Integers, Sequences, HttpTool

CONSTANTS
    MaxDuration,    \* the largest time.Duration: 92233720368 units in the program
    Timeout,        \* Config.Timeout, per attempt; 0 would be none
    WriteTimeout,   \* http.Server.WriteTimeout
    ToolConfigs,    \* what is executed (ToolType)
    Configs,        \* the backoff configurations (ConfigType)
    Preambles,      \* what authentication and resolution may take
    Durations       \* what an execution may take by itself

\* Config without its timeout and threshold.  safe is not in the code: an attempt
\* of at most that long is claimed to fit the write deadline (0 claims nothing).
ConfigType ==
    [retries : Nat, delay : 0..MaxDuration, num : Nat, den : Nat \ {0},
     cap : 0..MaxDuration, safe : Nat]

\* A tool of type HTTP, SCRIPT or another one, and the timeouts its config gives.
ToolType ==
    [type : {"HTTP", "SCRIPT", "other"}, timeoutSeconds : Nat, timeout_seconds : Nat,
     timeoutMs : Nat]

ASSUME DeadlineAssumption ==
    /\ MaxDuration \in Nat /\ Timeout \in 1..MaxDuration /\ WriteTimeout \in Nat
    /\ Preambles \subseteq Nat /\ Durations \subseteq Nat \ {0}
    /\ Configs \subseteq ConfigType /\ ToolConfigs \subseteq ToolType

VARIABLES
    cfg,        \* the backoff configuration of this run
    tool,       \* what it executes
    phase,      \* "begin", "executing", "failed", "ok", "error", "answered", "eof"
    attempt,    \* the loop variable of Invoke
    elapsed,    \* since the request was read, which starts the write deadline
    slept,      \* the backoff delays so far, in order, as they were computed
    longest,    \* the longest attempt so far
    cut         \* the shortest execution a deadline has cut, 0 before there is one

deadlineVars == <<cfg, tool, phase, attempt, elapsed, slept, longest, cut>>

-----------------------------------------------------------------------------
(* The backoff *)

Pow(b) == LET p[n \in Nat] == IF n = 0 THEN 1 ELSE b * p[n - 1] IN p

\* The delay before attempt n + 1 as the loop over float64 grows it, truncated.
Grown(c, n) == (c.delay * Pow(c.num)[n]) \div Pow(c.den)[n]

\* time.Duration(x) for a float64 x.
Converted(x) == IF x <= MaxDuration THEN x ELSE -MaxDuration - 1

\* Mutated: the delay of the next attempt.
RetryDelayForAttempt_Next(c, n) ==
    LET d == Converted(Grown(c, n + 1))
    IN  IF c.num <= c.den THEN c.delay
        ELSE IF c.cap > 0 /\ d > c.cap THEN c.cap
        ELSE d

\* Mutated: the cap is forgotten.
RetryDelayForAttempt_NoCap(c, n) ==
    IF n = 0 \/ c.num <= c.den THEN c.delay ELSE Converted(Grown(c, n))

\* Attempt 0, and a multiplier of at most 1, return RetryDelay uncapped; a cap
\* of 0 is no cap.  The cap is compared with the converted delay.
RetryDelayForAttempt(c, n) ==
    LET d == Converted(Grown(c, n))
    IN  IF n = 0 \/ c.num <= c.den THEN c.delay
        ELSE IF c.cap > 0 /\ d > c.cap THEN c.cap
        ELSE d

-----------------------------------------------------------------------------
DeadlineInit ==
    /\ cfg \in Configs
    /\ tool \in ToolConfigs
    /\ phase = "begin"
    /\ attempt = 0
    /\ elapsed = 0
    /\ slept = <<>>
    /\ longest = 0
    /\ cut = 0

\* Authentication and resolution are over and Invoke begins.
Begin(p) ==
    /\ phase = "begin"
    /\ phase' = "executing"
    /\ elapsed' = p
    /\ UNCHANGED <<cfg, tool, attempt, slept, longest, cut>>

\* The shorter of the attempt's deadline and the executor's own.  A script's
\* timeout_ms is read as an int, which no decoded JSON number is: 5 s always.
Limit(t) ==
    LET own == CASE t.type = "HTTP" -> 10 * HttpTimeout(t)
                 [] t.type = "SCRIPT" -> 50
                 [] OTHER -> Timeout
    IN  IF own < Timeout THEN own ELSE Timeout

\* An attempt whose execution would by itself take d; a deadline that fires makes
\* it fail.
Execute(d, next) ==
    /\ phase = "executing"
    /\ next = "failed" \/ (next = "ok" /\ d < Limit(tool))
    /\ phase' = next
    /\ LET took == IF d < Limit(tool) THEN d ELSE Limit(tool)
       IN  /\ elapsed' = elapsed + took
           /\ longest' = IF took > longest THEN took ELSE longest
    /\ cut' = IF d >= Limit(tool) /\ (cut = 0 \/ d < cut) THEN d ELSE cut
    /\ UNCHANGED <<cfg, tool, attempt, slept>>

\* time.After of a negative delay fires at once.
Waited(delay) == IF delay > 0 THEN delay ELSE 0

Backoff ==
    /\ phase = "failed"
    /\ attempt < cfg.retries
    /\ LET delay == RetryDelayForAttempt(cfg, attempt)
       IN  elapsed' = elapsed + Waited(delay) /\ slept' = Append(slept, delay)
    /\ attempt' = attempt + 1
    /\ phase' = "executing"
    /\ UNCHANGED <<cfg, tool, longest, cut>>

GiveUp ==
    /\ phase = "failed"
    /\ attempt = cfg.retries
    /\ phase' = "error"
    /\ UNCHANGED <<cfg, tool, attempt, elapsed, slept, longest, cut>>

\* The handler writes its response: past the write deadline of the connection
\* the client reads EOF, whatever the handler wrote.
Respond ==
    /\ phase \in {"ok", "error"}
    /\ phase' = IF elapsed <= WriteTimeout THEN "answered" ELSE "eof"
    /\ UNCHANGED <<cfg, tool, attempt, elapsed, slept, longest, cut>>

DeadlineNext ==
    \/ \E p \in Preambles : Begin(p)
    \/ \E d \in Durations, next \in {"ok", "failed"} : Execute(d, next)
    \/ Backoff \/ GiveUp \/ Respond

DeadlineSpec == DeadlineInit /\ [][DeadlineNext]_deadlineVars

-----------------------------------------------------------------------------
Ordered(c) == c.num > c.den /\ 0 < c.delay /\ c.delay <= c.cap

\* The grown delay of attempt n is a Duration.
Fits(c, n) == Grown(c, n) <= MaxDuration

\* "RetryDelay is the base wait duration for the first retry interval" and
\* "MaxRetryDelay caps the computed exponential delay": with a base below the
\* cap, the delays start at the base, never pass the cap, and do not shrink as
\* long as the grown delay fits a Duration.  One that does not fit is converted
\* before it is compared: it passes the test of the cap and is not slept at all,
\* against "exponential growth capped at MaxRetryDelay".
BackoffGrowsToCap ==
    (Ordered(cfg) /\ slept /= <<>>) =>
        /\ slept[1] = cfg.delay
        /\ \A i \in 1..Len(slept) : slept[i] <= cfg.cap
        /\ \A i \in 2..Len(slept) : Fits(cfg, i - 1) => slept[i - 1] <= slept[i]

\* As long as no attempt takes longer than the safe duration the client is answered,
\* even if every retry is used: the two timeouts were chosen apart from each
\* other, and this is how far they agree.
ShortAttemptsAnswered == phase = "eof" => longest > cfg.safe

\* timeoutMs is "milliseconds (frontend/API convention)" while the client counts
\* seconds: nothing shorter than the timeout a tool asks for is cut, unless the
\* attempt's own deadline is earlier, and nothing runs a second longer.
TimeoutMsIsKept ==
    (tool.type = "HTTP" /\ tool.timeoutMs > 0
     /\ tool.timeoutSeconds = 0 /\ tool.timeout_seconds = 0) =>
        /\ cut > 0 => cut >= Timeout \/ 100 * cut >= tool.timeoutMs
        /\ 100 * longest < tool.timeoutMs + 1000
=============================================================================
