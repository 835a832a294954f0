------------------------------ MODULE HttpTool ------------------------------
(***************************************************************************)
(* internal/executor/http: how HTTPToolExecutor turns a tool config, the   *)
(* input and the caller's token into a request.  ToolCalls sends it.       *)
(*                                                                         *)
(* A URL is [host, holes]: the class of its host, and the placeholders     *)
(* <<key, form>> of its template.  An input is a function from keys to     *)
(* values.  A config has the fields of rawHTTPConfig under their JSON      *)
(* names; headers are the values it gives for Authorization, one for each  *)
(* spelling of that name.                                                  *)
(***************************************************************************)
EXTENDS Integers, Sequences

\* The spellings of a placeholder that renderTemplate substitutes.
Forms == {"{{k}}", "{k}", "{{input.k}}", "{{args.k}}"}

NoURL == [host |-> "none", holes |-> {}]

\* parseHTTPConfig's merges: the preferred name counts unless it has the zero value.
Merge(preferred, legacy, zero) == IF preferred = zero THEN legacy ELSE preferred

\* Mutated: milliseconds are rounded down.
HttpTimeout_RoundsDown(c) ==
    LET merged == Merge(c.timeoutSeconds, c.timeout_seconds, 0)
        seconds == IF merged = 0 /\ c.timeoutMs > 0 THEN c.timeoutMs \div 1000 ELSE merged
    IN  IF seconds <= 0 THEN 30 ELSE seconds

\* The timeout of a request in seconds: timeoutMs rounded up, 30 by default.
HttpTimeout(c) ==
    LET merged == Merge(c.timeoutSeconds, c.timeout_seconds, 0)
        seconds == IF merged = 0 /\ c.timeoutMs > 0
                   THEN (c.timeoutMs + 999) \div 1000 ELSE merged
    IN  IF seconds <= 0 THEN 30 ELSE seconds

\* bodyTemplate, body_template, body: the first that is present and not null
\* counts, though it may be empty, which sends no body.
BodyOf(c) ==
    LET given == SelectSeq(<<c.bodyTemplate, c.body_template, c.body>>, LAMBDA b : b /= "null")
    IN  IF given = <<>> THEN "" ELSE Head(given)

-----------------------------------------------------------------------------
(* The URL *)

\* url before urlTemplate; a relative one is put after baseUrl, or after the
\* address of the backend.
RawURL(c) ==
    LET raw == Merge(c.url, c.urlTemplate, NoURL)
        base == Merge(c.baseUrl, "backend", "none")
    IN  IF raw.host = "relative" THEN [raw EXCEPT !.host = base] ELSE raw

\* The backend's own address is trusted, any other is checked by ValidateURL.
Sendable(c) == RawURL(c).host \in {"backend", "public"}

\* The keys a template substitutes.
Filled(url, input) == {k \in DOMAIN input : \E f \in Forms : <<k, f>> \in url.holes}

\* Mutated: an {{input.k}} placeholder is not recognised as a use.
Used_NotInput(url, input) ==
    {k \in DOMAIN input : \E f \in {"{{k}}", "{k}"} : <<k, f>> \in url.holes}

\* The keys appendUnusedInputAsQuery takes for used: it does not know {{args.k}}.
Used(url, input) ==
    {k \in DOMAIN input : \E f \in Forms \ {"{{args.k}}"} : <<k, f>> \in url.holes}

Bodyless == {"", "GET", "DELETE", "HEAD"}

\* The inputs appended as a query; a schema without properties allows any.
Query(c, input) ==
    IF c.method \notin Bodyless THEN {}
    ELSE {k \in DOMAIN input \ Used(RawURL(c), input) : c.properties = {} \/ k \in c.properties}

-----------------------------------------------------------------------------
(* The request *)

\* Headers are set in the order of a map, so of several spellings any one may
\* be the last; the configured authentication is set after them.
Authorizations(c, caller) ==
    LET token == Merge(c.authToken, c.auth_token, "")
        type == Merge(c.authType, c.auth_type, "")
    IN  IF c.useCallerToken /\ caller /= "" THEN {caller}
        ELSE IF type \in {"bearer", "basic"} /\ token /= "" THEN {token}
        ELSE IF c.headers = {} THEN {""} ELSE c.headers

RequestOf(c, input, authorization) ==
    [method |-> Merge(c.method, "GET", ""),
     host |-> RawURL(c).host,
     path |-> [k \in Filled(RawURL(c), input) |-> input[k]],
     query |-> [k \in Query(c, input) |-> input[k]],
     body |-> BodyOf(c),
     authorization |-> authorization]

\* The request an http.Client makes of a redirect: 307 and 308 repeat method and
\* body, 301 to 303 send neither.  Its URL is what the answer says.
Redirection(request, repeats) ==
    [method |-> IF repeats \/ request.method = "HEAD" THEN request.method ELSE "GET",
     body |-> IF repeats THEN request.body ELSE ""]

\* What the transport sends once more when the connection it reused proves closed;
\* any other request fails.
Repeatable == {"GET", "HEAD", "OPTIONS", "TRACE"}
=============================================================================
