--------------------------- MODULE ProviderProofs ---------------------------
(***************************************************************************)
(* What the providers promise a caller, for a channel and a body of any    *)
(* length, and what the registry promises, for any number of providers.    *)
(*                                                                         *)
(* FlattenAppend says what one more event adds to the transcript; with it  *)
(* each step of the goroutine and of the caller moves chunks between the   *)
(* three places of StreamIsTranscript.  OrderInv relates the places of the *)
(* items to their numbers, which CutIsReported needs.                      *)
(*                                                                         *)
(* The registry never gives a key twice (NewKey), because a default keeps  *)
(* its model even when the name it came with is given away.                *)
(*                                                                         *)
(* A conversation (ChatInv) is an opening without calls, where all system  *)
(* messages are, and a talk without system messages, where every call has  *)
(* its result behind it: leaving out the system messages moves the talk as *)
(* a whole.  The calls of the talk and those of an answer not yet appended *)
(* are the calls ever made, without the ones that openrouter hides.        *)
(***************************************************************************)
EXTENDS MCProviders, SequenceTheorems, FiniteSetTheorems, WellFoundedInduction, TLAPS

USE StreamAssumption DEF StreamAssumption

-----------------------------------------------------------------------------
(* FlattenSeq *)

Regroups(a, b, d) == (a \o b) \o d = a \o (b \o d)

LEMMA Regrouping ==
    ASSUME NEW S, NEW a \in Seq(S), NEW b \in Seq(S), NEW d \in Seq(S)
    PROVE  Regroups(a, b, d)
BY ConcatAssociative DEF Regroups

LEMMA LeastNatural ==
    ASSUME NEW S, S \subseteq Nat, S /= {}
    PROVE  \E n \in S : \A m \in S : n <= m
<1> DEFINE Less == OpToRel(<, Nat)
<1>1. PICK n \in S : \A m \in S : <<m, n>> \notin Less
  <2> HIDE DEF Less
  <2>1. IsWellFoundedOn(Less, Nat)
    BY NatLessThanWellFounded DEF Less
  <2> QED
    BY <2>1, WFMin
<1>2. \A m \in S : m < n => <<m, n>> \in Less
  BY DEF OpToRel
<1> HIDE DEF Less
<1>3. \A m \in S : ~(m < n)
  BY <1>1, <1>2
<1> QED
  BY <1>3

\* f holds the partial results of flattening the first n sequences of s.
Flattens(f, s, n) ==
    \A i \in 1..n : f[i] = IF i = 1 THEN s[i] ELSE f[i - 1] \o s[i]

\* The equation that CHOOSE solves in FlattenSeq.
Solves(f, s, n) ==
    f = [i \in 1..n |-> IF i = 1 THEN s[i] ELSE f[i - 1] \o s[i]]

LEMMA SolutionFlattens ==
    ASSUME NEW f, NEW s, NEW n, Solves(f, s, n)
    PROVE  Flattens(f, s, n)
<1> DEFINE g == [j \in 1..n |-> IF j = 1 THEN s[j] ELSE f[j - 1] \o s[j]]
<1>1. \A i \in 1..n : g[i] = IF i = 1 THEN s[i] ELSE f[i - 1] \o s[i]
  OBVIOUS
<1>2. f = g
  BY Zenon DEF Solves
<1> QED
  BY <1>1, <1>2, Zenon DEF Flattens

LEMMA SolutionExists ==
    ASSUME NEW s, NEW n \in Nat
    PROVE  \E f : Solves(f, s, n)
<1> DEFINE Bad == {m \in Nat : ~\E f : Solves(f, s, m)}
<1> SUFFICES ASSUME n \in Bad PROVE FALSE
  OBVIOUS
<1>1. PICK m \in Bad : \A k \in Bad : m <= k
  <2>1. Bad \subseteq Nat /\ Bad /= {}
    OBVIOUS
  <2> HIDE DEF Bad
  <2> QED
    BY <2>1, LeastNatural
<1>2. Solves([i \in 1..0 |-> <<>>], s, 0)
  BY DEF Solves
<1>3. m - 1 \in Nat /\ m - 1 \notin Bad
  BY <1>1, <1>2
<1>4. PICK f : Solves(f, s, m - 1)
  BY <1>3
<1> DEFINE g == [i \in 1..m |-> IF i < m THEN f[i]
                                ELSE IF i = 1 THEN s[i] ELSE f[i - 1] \o s[i]]
<1>5. ASSUME NEW i \in 1..m PROVE g[i] = IF i = 1 THEN s[i] ELSE g[i - 1] \o s[i]
  <2>1. i /= 1 => g[i - 1] = f[i - 1]
    OBVIOUS
  <2>2. i < m => f[i] = IF i = 1 THEN s[i] ELSE f[i - 1] \o s[i]
    BY <1>4, SolutionFlattens DEF Flattens
  <2> QED
    BY <2>1, <2>2
<1>6. Solves(g, s, m)
  <2>1. g = [i \in 1..m |-> g[i]]
    OBVIOUS
  <2> HIDE DEF g
  <2> QED
    BY <1>5, <2>1, Zenon DEF Solves
<1> QED
  BY <1>6

LEMMA FlattenMeans ==
    ASSUME NEW s, Len(s) \in Nat \ {0}
    PROVE  \E f : Flattens(f, s, Len(s)) /\ FlattenSeq(s) = f[Len(s)]
<1> DEFINE f == CHOOSE g : Solves(g, s, Len(s))
<1>1. Solves(f, s, Len(s))
  BY SolutionExists
<1>2. FlattenSeq(s) = f[Len(s)]
  BY DEF FlattenSeq, Solves
<1> QED
  BY <1>1, <1>2, SolutionFlattens

LEMMA FlatteningIsSeq ==
    ASSUME NEW S, NEW s \in Seq(Seq(S)), NEW f, Flattens(f, s, Len(s))
    PROVE  \A i \in 1..Len(s) : f[i] \in Seq(S)
<1> DEFINE Bad == {i \in 1..Len(s) : f[i] \notin Seq(S)}
<1> SUFFICES ASSUME Bad /= {} PROVE FALSE
  OBVIOUS
<1>1. PICK i \in Bad : \A j \in Bad : i <= j
  <2>1. Bad \subseteq Nat
    OBVIOUS
  <2> HIDE DEF Bad
  <2> QED
    BY <2>1, LeastNatural
<1>2. s[i] \in Seq(S)
  OBVIOUS
<1>3. f[i] = IF i = 1 THEN s[i] ELSE f[i - 1] \o s[i]
  BY DEF Flattens
<1>4. i /= 1 => f[i - 1] \in Seq(S)
  BY <1>1
<1>5. i /= 1 => f[i - 1] \o s[i] \in Seq(S)
  BY <1>2, <1>4, ConcatProperties
<1>6. f[i] \notin Seq(S)
  OBVIOUS
<1> HIDE DEF Bad
<1> QED
  BY <1>2, <1>3, <1>5, <1>6

LEMMA FlatteningIsUnique ==
    ASSUME NEW s, NEW n \in Nat, NEW f, Flattens(f, s, n), NEW g, Flattens(g, s, n)
    PROVE  \A i \in 1..n : f[i] = g[i]
<1> DEFINE Bad == {i \in 1..n : f[i] /= g[i]}
<1> SUFFICES ASSUME Bad /= {} PROVE FALSE
  OBVIOUS
<1>1. PICK i \in Bad : \A j \in Bad : i <= j
  <2>1. Bad \subseteq Nat
    OBVIOUS
  <2> HIDE DEF Bad
  <2> QED
    BY <2>1, LeastNatural
<1>2. /\ f[i] = IF i = 1 THEN s[i] ELSE f[i - 1] \o s[i]
      /\ g[i] = IF i = 1 THEN s[i] ELSE g[i - 1] \o s[i]
  BY DEF Flattens
<1>3. i /= 1 => f[i - 1] = g[i - 1]
  BY <1>1
<1> QED
  BY <1>2, <1>3

\* One more sequence adds its elements at the end.
LEMMA FlattenAppend ==
    ASSUME NEW S, NEW s \in Seq(Seq(S)), NEW x \in Seq(S)
    PROVE  FlattenSeq(Append(s, x)) = FlattenSeq(s) \o x
<1>1. PICK n : n = Len(s)
  OBVIOUS
<1>2. PICK t : t = Append(s, x)
  OBVIOUS
<1>3. /\ n \in Nat /\ Len(t) = n + 1 /\ t[n + 1] = x
      /\ \A i \in 1..n : t[i] = s[i]
  BY <1>1, <1>2
<1>4. PICK g : Flattens(g, t, n + 1) /\ FlattenSeq(t) = g[n + 1]
  BY <1>3, FlattenMeans
<1>5. CASE n = 0
  <2>1. s = <<>> /\ FlattenSeq(s) = <<>>
    <3>1. Len(s) = 0 /\ s = <<>>
      BY <1>1, <1>5, EmptySeq
    <3> QED
      BY <3>1 DEF FlattenSeq
  <2>2. g[1] = t[1]
    BY <1>4, <1>5 DEF Flattens
  <2> QED
    BY <1>2, <1>3, <1>4, <1>5, <2>1, <2>2, ConcatEmptySeq
<1>6. CASE n /= 0
  <2>1. PICK f : Flattens(f, s, n) /\ FlattenSeq(s) = f[n]
    BY <1>1, <1>3, <1>6, FlattenMeans
  <2>2. Flattens(g, s, n)
    BY <1>3, <1>4 DEF Flattens
  <2>3. f[n] = g[n]
    BY <1>3, <1>6, <2>1, <2>2, FlatteningIsUnique
  <2>4. g[n + 1] = g[n] \o t[n + 1]
    <3>1. PICK m \in 1..(n + 1) : m = n + 1 /\ m /= 1 /\ m - 1 = n
      BY <1>3, <1>6
    <3>2. g[m] = IF m = 1 THEN t[m] ELSE g[m - 1] \o t[m]
      BY <1>4 DEF Flattens
    <3> QED
      BY <3>1, <3>2
  <2> QED
    BY <1>2, <1>3, <1>4, <2>1, <2>3, <2>4
<1> QED
  BY <1>3, <1>5, <1>6

LEMMA FlattenIsSeq ==
    ASSUME NEW S, NEW s \in Seq(Seq(S))
    PROVE  FlattenSeq(s) \in Seq(S)
<1>1. CASE s = <<>>
  BY <1>1 DEF FlattenSeq
<1>2. CASE s /= <<>>
  BY <1>2, FlattenMeans, FlatteningIsSeq
<1> QED
  BY <1>1, <1>2

-----------------------------------------------------------------------------
(* The invariant *)

\* ChunksOf with the provider as a parameter.
Says(p, i) ==
    IF p = "anthropic" THEN Anthropic(i) ELSE IF p = "openai" THEN OpenAI(i) ELSE OpenRouter(i)

Heard == [i \in 1..Len(seen) |-> Says(provider, seen[i])]

\* The scanner stops at the first last item.
EndsInv ==
    /\ pc \in {"request", "scan", "send", "refused"} => Ends = {}
    /\ pc \in {"fail", "return", "done"} => Ends = {Len(seen)}

InOrder(items) == \A i \in 1..Len(items) : items[i].n = i

\* An item that is not at its place is part of what a broken connection left.
InPlace(items) ==
    \A i \in 1..Len(items) :
        \/ items[i].n = i
        \/ items[i].kind \in {"bad", "fault"}
        \/ items[i].kind = "skip" /\ i < Len(items) /\ items[i + 1].kind = "fault"

OrderInv ==
    /\ Len(seen) + Len(body) <= sent
    /\ pc = "request" => sent = 0 /\ ~open
    /\ open => /\ sent = Len(seen) + Len(body) /\ sent <= MaxItems - 2
               /\ InOrder(seen \o body)
    /\ InPlace(seen \o body)

MovedInv ==
    /\ got \o channel \o pending = FlattenSeq(Heard)
    /\ consumer = "ended" => closed /\ channel = <<>>

StreamInv == TypeOK /\ EndsInv /\ OrderInv /\ MovedInv

-----------------------------------------------------------------------------
(* Types *)

LEMMA SaysIsChunksOf ==
    /\ \A i : ChunksOf(i) = Says(provider, i)
    /\ \A i : ChunksOf(i)' = Says(provider', i)
BY DEF ChunksOf, Says

LEMMA SaysChunks ==
    ASSUME NEW p, NEW i \in Items
    PROVE  /\ Says(p, i) \in Seq(Chunks)
           /\ (p \in {"anthropic", "openai"} /\ i.kind \in {"bad", "fault"}) =>
                  Says(p, i) = <<[kind |-> "error", n |-> i.n]>>
<1>1. \A k \in {"text", "tool", "finish", "empty", "error"} : Chunk(k, i) \in Seq(Chunks)
  BY DEF Chunk, Chunks, Items
<1>2. Anthropic(i) \in Seq(Chunks)
  BY <1>1 DEF Anthropic
<1>3. OpenAI(i) \in Seq(Chunks) /\ OpenRouter(i) \in Seq(Chunks)
  BY <1>1, <1>2, ConcatProperties DEF OpenAI, OpenRouter
<1>4. i.kind \in {"bad", "fault"} =>
          /\ Anthropic(i) = <<[kind |-> "error", n |-> i.n]>>
          /\ OpenAI(i) = Anthropic(i)
  BY DEF Anthropic, OpenAI, Chunk
<1> QED
  BY <1>2, <1>3, <1>4 DEF Says

LEMMA ItemType ==
    ASSUME NEW k \in Kinds, NEW n \in 1..MaxItems
    PROVE  [kind |-> k, n |-> n] \in Items
BY DEF Items

\* What a broken connection leaves of the body.
Ending(cut) == cut \o <<"fault">>
Leftover(kept, cut) ==
    SubSeq(body, 1, kept) \o [i \in 1..Len(Ending(cut)) |-> [kind |-> Ending(cut)[i], n |-> sent + i]]

LEMMA LeftoverParts ==
    ASSUME TypeOK, OrderInv, open, NEW kept \in 0..Len(body),
           NEW cut \in {<<>>, <<"skip">>, <<"bad">>}
    PROVE  /\ Leftover(kept, cut) \in Seq(Items)
           /\ Len(Leftover(kept, cut)) = kept + Len(Ending(cut))
           /\ Len(Ending(cut)) \in 1..2
           /\ \A i \in 1..kept : Leftover(kept, cut)[i] = body[i]
           /\ \A i \in 1..Len(Ending(cut)) : Leftover(kept, cut)[kept + i].kind = Ending(cut)[i]
           /\ Ending(cut)[Len(Ending(cut))] = "fault"
           /\ Len(Ending(cut)) = 2 => Ending(cut)[1] \in {"skip", "bad"}
<1> DEFINE e == Ending(cut)
           tail == [i \in 1..Len(e) |-> [kind |-> e[i], n |-> sent + i]]
<1>1. /\ Len(e) \in 1..2
      /\ e[Len(e)] = "fault"
      /\ Len(e) = 2 => e[1] \in {"skip", "bad"}
  <2>1. cut \in Seq(Kinds) /\ Len(cut) \in 0..1 /\ (Len(cut) = 1 => cut[1] \in {"skip", "bad"})
    <3>1. CASE cut = <<>>
      BY <3>1, EmptySeq
    <3>2. CASE cut = <<"skip">>
      BY <3>2 DEF Kinds
    <3>3. CASE cut = <<"bad">>
      BY <3>3 DEF Kinds
    <3> QED
      BY <3>1, <3>2, <3>3
  <2>2. <<"fault">> \in Seq(Kinds) /\ Len(<<"fault">>) = 1 /\ <<"fault">>[1] = "fault"
    BY DEF Kinds
  <2>3. /\ Len(e) = Len(cut) + 1
        /\ \A i \in 1..(Len(cut) + 1) :
               e[i] = IF i <= Len(cut) THEN cut[i] ELSE <<"fault">>[i - Len(cut)]
    BY <2>1, <2>2, ConcatProperties DEF Ending
  <2> HIDE DEF e
  <2> QED
    BY <2>1, <2>2, <2>3
<1>2. \A i \in 1..Len(e) : e[i] \in Kinds /\ sent + i \in 1..MaxItems
  <2>1. sent \in Nat /\ sent <= MaxItems - 2
    BY DEF TypeOK, OrderInv
  <2> HIDE DEF e
  <2> QED
    BY <1>1, <2>1 DEF Kinds
<1>3. tail \in Seq(Items) /\ Len(tail) = Len(e) /\ \A i \in 1..Len(e) : tail[i].kind = e[i]
  <2> HIDE DEF e
  <2>1. \A i \in 1..Len(e) : tail[i] \in Items /\ tail[i].kind = e[i]
    BY <1>2, ItemType
  <2> QED
    BY <1>1, <2>1
<1>4. /\ SubSeq(body, 1, kept) \in Seq(Items)
      /\ Len(SubSeq(body, 1, kept)) = kept
      /\ \A i \in 1..kept : SubSeq(body, 1, kept)[i] = body[i]
  BY DEF TypeOK
<1>5. Leftover(kept, cut) = SubSeq(body, 1, kept) \o tail
  BY DEF Leftover
<1> HIDE DEF e, tail
<1>6. e = Ending(cut)
  BY DEF e
<1>7. /\ Leftover(kept, cut) \in Seq(Items)
      /\ Len(Leftover(kept, cut)) = kept + Len(e)
      /\ \A i \in 1..(kept + Len(e)) : Leftover(kept, cut)[i] =
             IF i <= kept THEN SubSeq(body, 1, kept)[i] ELSE tail[i - kept]
  <2>1. PICK a : a = SubSeq(body, 1, kept)
    OBVIOUS
  <2>2. a \in Seq(Items) /\ Len(a) = kept
    BY <1>4, <2>1
  <2>3. PICK b : b = tail
    OBVIOUS
  <2>4. /\ a \o b \in Seq(Items)
        /\ Len(a \o b) = Len(a) + Len(b)
        /\ \A i \in 1..(Len(a) + Len(b)) : (a \o b)[i] = IF i <= Len(a) THEN a[i] ELSE b[i - Len(a)]
    <3>1. PICK T : T = Items
      OBVIOUS
    <3>2. a \in Seq(T) /\ b \in Seq(T)
      BY <1>3, <2>2, <2>3, <3>1
    <3>3. /\ a \o b \in Seq(T)
          /\ Len(a \o b) = Len(a) + Len(b)
          /\ \A i \in 1..(Len(a) + Len(b)) :
                 (a \o b)[i] = IF i <= Len(a) THEN a[i] ELSE b[i - Len(a)]
      BY <3>2, ConcatProperties
    <3> QED
      BY <3>1, <3>3
  <2>5. Len(b) = Len(e) /\ Leftover(kept, cut) = a \o b
    BY <1>3, <1>5, <2>1, <2>3
  <2> QED
    BY <2>1, <2>2, <2>3, <2>4, <2>5
<1>8. kept \in Nat
  BY DEF TypeOK
<1>9. \A i \in 1..kept : Leftover(kept, cut)[i] = body[i]
  BY <1>1, <1>4, <1>7, <1>8
<1>10. \A i \in 1..Len(e) : Leftover(kept, cut)[kept + i] = tail[i]
  BY <1>1, <1>7, <1>8
<1> QED
  BY <1>1, <1>3, <1>6, <1>7, <1>9, <1>10

LEMMA TypeStep == TypeOK /\ OrderInv /\ [Next]_vars => TypeOK'
<1> SUFFICES ASSUME TypeOK, OrderInv, [Next]_vars PROVE TypeOK'
  OBVIOUS
<1> USE DEF TypeOK
<1>0. ASSUME NEW kind \in Kinds, Arrives(kind), open' \in BOOLEAN PROVE TypeOK'
  <2>1. [kind |-> kind, n |-> sent + 1] \in Items
    BY <1>0, ItemType DEF Arrives
  <2> QED
    BY <1>0, <2>1 DEF Arrives, goroutine
<1>1. ASSUME NEW status, Request(status) PROVE TypeOK'
  BY <1>1 DEF Request, Accepted
<1>2. ASSUME Scan PROVE TypeOK'
  <2>1. Head(body) \in Items /\ Tail(body) \in Seq(Items) /\ Len(Tail(body)) = Len(body) - 1
    BY <1>2 DEF Scan
  <2>2. ChunksOf(Head(body)) \in Seq(Chunks)
    BY <2>1, SaysIsChunksOf, SaysChunks
  <2>3. Append(seen, Head(body)) \in Seq(Items) /\ Len(Append(seen, Head(body))) <= sent
    BY <1>2, <2>1 DEF Scan, OrderInv
  <2> QED
    BY <1>2, <2>1, <2>2, <2>3 DEF Scan, Continue
<1>3. ASSUME Send PROVE TypeOK'
  <2>1. Head(pending) \in Chunks /\ Tail(pending) \in Seq(Chunks)
    BY <1>3 DEF Send
  <2>2. Append(channel, Head(pending)) \in Seq(Chunks)
        /\ Len(Append(channel, Head(pending))) <= Cap
    BY <1>3, <2>1 DEF Send
  <2> QED
    BY <1>3, <2>1, <2>2 DEF Send
<1>4. ASSUME Close PROVE TypeOK'
  BY <1>4 DEF Close
<1>5. ASSUME NEW kind \in Sendable \cup {"done", "bad"}, ServerSends(kind) PROVE TypeOK'
  BY <1>0, <1>5 DEF ServerSends, Sendable, Kinds
<1>6. ASSUME ServerEnds PROVE TypeOK'
  BY <1>0, <1>6 DEF ServerEnds, Kinds
<1>7. ASSUME Break PROVE TypeOK'
  <2>1. PICK kept \in 0..Len(body), cut \in {<<>>, <<"skip">>, <<"bad">>} :
            body' = Leftover(kept, cut) /\ sent' = sent + Len(Ending(cut))
    BY <1>7, Zenon DEF Break, Leftover, Ending
  <2>2. /\ body' \in Seq(Items)
        /\ Len(body') = kept + Len(Ending(cut))
        /\ Len(Ending(cut)) \in 1..2
    BY <1>7, <2>1, LeftoverParts DEF Break
  <2>3. /\ sent \in Nat /\ sent <= MaxItems - 2
        /\ Len(body) <= sent /\ Len(seen) <= sent /\ Len(body) \in Nat /\ Len(seen) \in Nat
        /\ open' = FALSE
        /\ UNCHANGED <<provider, goroutine, channel, consumer, got>>
    <3>1. /\ open /\ open' = FALSE
          /\ UNCHANGED <<provider, goroutine, channel, consumer, got>>
      BY <1>7 DEF Break
    <3>2. /\ sent \in Nat /\ Len(body) <= sent /\ Len(seen) <= sent
          /\ Len(body) \in Nat /\ Len(seen) \in Nat
      BY DEF TypeOK
    <3>3. sent <= MaxItems - 2
      BY <3>1 DEF OrderInv
    <3> QED
      BY <3>1, <3>2, <3>3
  <2>4. sent' \in 0..MaxItems /\ Len(body') <= sent' /\ Len(seen) <= sent'
    <3> HIDE DEF TypeOK
    <3>1. kept <= Len(body) /\ kept \in Nat
      BY <2>3
    <3>2. seen' = seen /\ sent' = sent + Len(Ending(cut))
      BY <2>1, <2>3 DEF goroutine
    <3>3. PICK n \in 1..2 : n = Len(Ending(cut))
      BY <2>2
    <3>4. sent' = sent + n /\ Len(body') = kept + n
      BY <2>2, <3>2, <3>3
    <3>5. MaxItems \in Nat /\ n \in Nat /\ n <= 2
      BY <3>3
    <3>6. sent + n \in 0..MaxItems
      BY <2>3, <3>5
    <3>7. kept + n <= sent + n
      BY <2>3, <3>1, <3>5
    <3>8. Len(seen) <= sent + n
      BY <2>3, <3>5
    <3> QED
      BY <3>4, <3>6, <3>7, <3>8
  <2> QED
    BY <2>2, <2>3, <2>4 DEF goroutine
<1>8. ASSUME LongLine PROVE TypeOK'
  BY <1>0, <1>8 DEF LongLine, Kinds
<1>9. ASSUME Receive PROVE TypeOK'
  BY <1>9 DEF Receive, goroutine
<1>10. ASSUME SeeClosed PROVE TypeOK'
  BY <1>10 DEF SeeClosed, goroutine
<1>11. ASSUME Leave PROVE TypeOK'
  BY <1>11 DEF Leave, goroutine
<1>12. ASSUME UNCHANGED vars PROVE TypeOK'
  BY <1>12 DEF vars, goroutine
<1> QED
  BY <1>1, <1>2, <1>3, <1>4, <1>5, <1>6, <1>7, <1>8, <1>9, <1>10, <1>11, <1>12 DEF Next, Run

-----------------------------------------------------------------------------
(* The steps *)

LEMMA ScanEnds ==
    ASSUME TypeOK, EndsInv, Scan
    PROVE  EndsInv'
<1>1. Ends = {} /\ pc = "scan" /\ body /= <<>>
  BY DEF Scan, EndsInv
<1>2. /\ Head(body) \in Items /\ seen' = Append(seen, Head(body))
      /\ Len(seen') = Len(seen) + 1
      /\ \A i \in 1..Len(seen) : seen'[i] = seen[i]
      /\ seen'[Len(seen) + 1] = Head(body)
      /\ Len(seen) \in Nat
  BY <1>1 DEF Scan, TypeOK
<1>3. Ends' = {i \in 1..Len(seen') : seen'[i].kind \in Final}
  BY DEF Ends, Final
<1>4. \A i \in 1..Len(seen) : seen'[i].kind \notin Final
  BY <1>1, <1>2 DEF Ends
<1>5. CASE Head(body).kind \in Final
  <2>1. Ends' = {Len(seen')}
    BY <1>2, <1>3, <1>4, <1>5
  <2>2. pc' \in {"return", "fail"}
    BY <1>5 DEF Scan, Continue
  <2> QED
    BY <2>1, <2>2 DEF EndsInv
<1>6. CASE Head(body).kind \notin Final
  <2>1. Ends' = {}
    BY <1>2, <1>3, <1>4, <1>6
  <2>2. pc' \in {"scan", "send"}
    BY <1>6 DEF Scan, Continue
  <2> QED
    BY <2>1, <2>2 DEF EndsInv
<1> QED
  BY <1>5, <1>6

LEMMA EndsStep == TypeOK /\ EndsInv /\ [Next]_vars => EndsInv'
<1> SUFFICES ASSUME TypeOK, EndsInv, [Next]_vars PROVE EndsInv'
  OBVIOUS
<1>1. seen' = seen => Ends' = Ends
  BY DEF Ends, Final
<1>2. ASSUME UNCHANGED <<pc, seen>> PROVE EndsInv'
  BY <1>1, <1>2 DEF EndsInv
<1>3. ASSUME NEW status, Request(status) PROVE EndsInv'
  BY <1>1, <1>3 DEF Request, EndsInv
<1>4. ASSUME Scan PROVE EndsInv'
  BY <1>4, ScanEnds
<1>5. ASSUME Send PROVE EndsInv'
  BY <1>1, <1>5 DEF Send, EndsInv
<1>6. ASSUME Close PROVE EndsInv'
  BY <1>1, <1>6 DEF Close, EndsInv
<1> QED
  BY <1>2, <1>3, <1>4, <1>5, <1>6
     DEF Next, Run, ServerSends, ServerEnds, Arrives, Break, LongLine, Receive, SeeClosed, Leave,
         vars, goroutine

\* Moving the head of one sequence to the end of the one before it.
LEMMA MoveHead ==
    ASSUME NEW S, NEW a \in Seq(S), NEW b \in Seq(S), b /= <<>>
    PROVE  /\ Append(a, Head(b)) \in Seq(S) /\ Tail(b) \in Seq(S)
           /\ Append(a, Head(b)) \o Tail(b) = a \o b
           /\ Len(Append(a, Head(b))) + Len(Tail(b)) = Len(a) + Len(b)
<1>1. PICK h \in S, t \in Seq(S) : h = Head(b) /\ t = Tail(b) /\ Len(b) = Len(t) + 1
  <2>1. /\ Head(b) \in S /\ Tail(b) \in Seq(S)
        /\ Len(Tail(b)) = Len(b) - 1 /\ Len(b) \in Nat
    BY HeadTailProperties, LenProperties
  <2>2. Len(b) = Len(Tail(b)) + 1
    BY <2>1
  <2> QED
    BY <2>1, <2>2
<1>2. b = <<h>> \o t
  <2>1. 1 \in 1..Len(b) /\ Len(b) \in 1..Len(b) /\ b[1] = h
    BY <1>1
  <2>2. SubSeq(b, 1, Len(b)) = <<b[1]>> \o SubSeq(b, 1 + 1, Len(b))
    BY <2>1, SubSeqRecursiveFirst
  <2>3. SubSeq(b, 1, Len(b)) = b /\ t = SubSeq(b, 2, Len(b))
    BY <1>1, SubSeqFull, TailIsSubSeq
  <2> QED
    BY <2>1, <2>2, <2>3
<1>3. <<h>> \in Seq(S) /\ Append(a, h) = a \o <<h>>
  BY AppendIsConcat
<1>4. (a \o <<h>>) \o t = a \o (<<h>> \o t)
  BY <1>1, <1>3, Regrouping DEF Regroups
<1>5. Append(a, h) \in Seq(S) /\ Len(Append(a, h)) = Len(a) + 1
  OBVIOUS
<1>6. Len(a) + 1 + Len(t) = Len(a) + Len(b)
  BY <1>1
<1> QED
  BY <1>1, <1>2, <1>3, <1>4, <1>5, <1>6

LEMMA ScanMoves ==
    ASSUME TypeOK, Scan
    PROVE  /\ seen' \o body' = seen \o body
           /\ Len(seen') + Len(body') = Len(seen) + Len(body)
<1>1. PICK a \in Seq(Items), b \in Seq(Items) : a = seen /\ b = body
  BY DEF TypeOK
<1>2. b /= <<>> /\ seen' = Append(a, Head(b)) /\ body' = Tail(b)
  BY <1>1 DEF Scan
<1>3. /\ Append(a, Head(b)) \o Tail(b) = a \o b
      /\ Len(Append(a, Head(b))) + Len(Tail(b)) = Len(a) + Len(b)
  BY <1>2, MoveHead
<1> QED
  BY <1>1, <1>2, <1>3

LEMMA ArriveKeepsOrder ==
    ASSUME TypeOK, OrderInv, NEW kind \in Kinds, Arrives(kind)
    PROVE  /\ InOrder(seen' \o body')
           /\ Len(seen') + Len(body') = sent'
<1>1. PICK a \in Seq(Items) : a = seen \o body
  BY ConcatProperties DEF TypeOK
<1>2. PICK x \in Items : x = [kind |-> kind, n |-> sent + 1] /\ x.n = sent + 1
  BY ItemType DEF Arrives, TypeOK
<1>3. /\ body' = Append(body, x) /\ seen' = seen /\ sent' = sent + 1
      /\ sent = Len(seen) + Len(body) /\ InOrder(a)
  BY <1>1, <1>2 DEF Arrives, OrderInv, goroutine
<1>4. seen' \o body' = Append(a, x)
  <2>1. seen \in Seq(Items) /\ body \in Seq(Items) /\ <<x>> \in Seq(Items)
    BY DEF TypeOK
  <2>2. body' = body \o <<x>> /\ Append(a, x) = a \o <<x>>
    BY <1>3, <2>1, AppendIsConcat
  <2>3. Regroups(seen, body, <<x>>)
    BY <2>1, Regrouping
  <2> QED
    BY <1>1, <1>3, <2>2, <2>3 DEF Regroups
<1>5. Len(a) = sent /\ Len(seen') + Len(body') = sent'
  BY <1>1, <1>3, ConcatProperties DEF TypeOK
<1>6. InOrder(Append(a, x))
  BY <1>2, <1>3, <1>5 DEF InOrder
<1> QED
  BY <1>4, <1>5, <1>6

LEMMA BreakKeepsPlaces ==
    ASSUME TypeOK, OrderInv, open, NEW kept \in 0..Len(body),
           NEW cut \in {<<>>, <<"skip">>, <<"bad">>}
    PROVE  InPlace(seen \o Leftover(kept, cut))
<1>1. PICK n \in 1..2 : n = Len(Ending(cut))
  BY LeftoverParts
<1>2. PICK left \in Seq(Items) : left = Leftover(kept, cut)
  BY LeftoverParts
<1>3. /\ Len(left) = kept + n
      /\ \A i \in 1..kept : left[i] = body[i]
      /\ \A i \in 1..n : left[kept + i].kind = Ending(cut)[i]
      /\ Ending(cut)[n] = "fault"
      /\ n = 2 => Ending(cut)[1] \in {"skip", "bad"}
  <2>1. /\ Len(Leftover(kept, cut)) = kept + Len(Ending(cut))
        /\ \A i \in 1..kept : Leftover(kept, cut)[i] = body[i]
        /\ \A i \in 1..Len(Ending(cut)) : Leftover(kept, cut)[kept + i].kind = Ending(cut)[i]
        /\ Ending(cut)[Len(Ending(cut))] = "fault"
        /\ Len(Ending(cut)) = 2 => Ending(cut)[1] \in {"skip", "bad"}
    BY LeftoverParts, Zenon
  <2> QED
    BY <1>1, <1>2, <2>1
<1>4. PICK m \in Nat, q \in Nat : /\ m = Len(seen) /\ q = m + kept
                                  /\ q - m = kept /\ q <= m + Len(body) /\ kept \in Nat
  BY DEF TypeOK
<1>5. PICK all : all = seen \o left
  OBVIOUS
<1>6. /\ Len(all) = q + n
      /\ \A i \in 1..(q + n) : all[i] = IF i <= m THEN seen[i] ELSE left[i - m]
  <2>1. seen \in Seq(Items)
    BY DEF TypeOK
  <2>2. /\ Len(all) = Len(seen) + Len(left)
        /\ \A i \in 1..(Len(seen) + Len(left)) :
               all[i] = IF i <= Len(seen) THEN seen[i] ELSE left[i - Len(seen)]
    BY <1>5, <2>1, ConcatProperties
  <2>3. Len(seen) + Len(left) = q + n
    BY <1>3, <1>4
  <2> QED
    BY <1>4, <2>2, <2>3
<1>7. ASSUME NEW i \in 1..q PROVE all[i].n = i
  <2>1. PICK old : old = seen \o body
    OBVIOUS
  <2>2. /\ Len(old) = m + Len(body)
        /\ \A j \in 1..(m + Len(body)) : old[j] = IF j <= m THEN seen[j] ELSE body[j - m]
    BY <1>4, <2>1, ConcatProperties DEF TypeOK
  <2>3. i \in 1..(m + Len(body)) /\ i \in 1..(q + n) /\ (~(i <= m) => i - m \in 1..kept)
    BY <1>4 DEF TypeOK
  <2>4. old[i].n = i
    BY <2>1, <2>2, <2>3 DEF OrderInv, InOrder
  <2>5. CASE i <= m
    BY <1>6, <2>2, <2>3, <2>4, <2>5
  <2>6. CASE ~(i <= m)
    <3>1. all[i] = left[i - m] /\ old[i] = body[i - m]
      BY <1>6, <2>2, <2>3, <2>6
    <3> QED
      BY <1>3, <2>3, <2>4, <2>6, <3>1
  <2> QED
    BY <2>5, <2>6
<1>8. ASSUME NEW i \in 1..n PROVE all[q + i].kind = Ending(cut)[i]
  <2>1. PICK j \in 1..(q + n) : j = q + i /\ ~(j <= m) /\ j - m = kept + i
    BY <1>4
  <2>2. all[j] = left[kept + i]
    BY <1>6, <2>1
  <2> QED
    BY <1>3, <2>1, <2>2
<1>9. CASE n = 1
  <2>1. all[q + 1].kind = "fault"
    BY <1>3, <1>8, <1>9
  <2>2. ASSUME NEW i \in 1..Len(all)
        PROVE  all[i].n = i \/ all[i].kind \in {"bad", "fault"}
    <3>1. i \in 1..q \/ i = q + 1
      BY <1>6, <1>9
    <3> QED
      BY <1>7, <2>1, <3>1
  <2> QED
    BY <1>2, <1>5, <2>2 DEF InPlace
<1>10. CASE n = 2
  <2>1. all[q + 2].kind = "fault" /\ all[q + 1].kind \in {"skip", "bad"}
    BY <1>3, <1>8, <1>10
  <2>2. ASSUME NEW i \in 1..Len(all)
        PROVE  \/ all[i].n = i
               \/ all[i].kind \in {"bad", "fault"}
               \/ all[i].kind = "skip" /\ i < Len(all) /\ all[i + 1].kind = "fault"
    <3>1. i \in 1..q \/ i = q + 2 \/ (i = q + 1 /\ i < Len(all) /\ i + 1 = q + 2)
      BY <1>6, <1>10
    <3> QED
      BY <1>7, <2>1, <3>1
  <2> QED
    BY <1>2, <1>5, <2>2 DEF InPlace
<1> QED
  BY <1>9, <1>10

LEMMA OrderStep == TypeOK /\ OrderInv /\ [Next]_vars => OrderInv'
<1> SUFFICES ASSUME TypeOK, OrderInv, [Next]_vars PROVE OrderInv'
  OBVIOUS
<1>1. \A items : InOrder(items) => InPlace(items)
  BY DEF InOrder, InPlace
<1>2. pc' = "request" => pc = "request" /\ UNCHANGED <<open, sent>>
  BY DEF Next, Run, Request, Scan, Continue, Send, Close, ServerSends, ServerEnds, Arrives, Break,
         LongLine, Receive, SeeClosed, Leave, vars, goroutine, OrderInv, TypeOK
<1>3. ASSUME UNCHANGED <<seen, body, sent>>, open' => open PROVE OrderInv'
  BY <1>2, <1>3 DEF OrderInv, InOrder, InPlace
<1>4. ASSUME NEW status, Request(status) PROVE OrderInv'
  <2>1. UNCHANGED <<seen, body, sent>> /\ sent = 0
    BY <1>4 DEF Request, OrderInv
  <2>2. Len(seen) = 0 /\ Len(body) = 0
    BY <2>1 DEF OrderInv, TypeOK
  <2>3. Len(seen \o body) = 0
    BY <2>2, ConcatProperties DEF TypeOK
  <2>4. InOrder(seen \o body)
    BY <2>3 DEF InOrder
  <2> QED
    BY <1>1, <1>2, <2>1, <2>2, <2>4 DEF OrderInv
<1>5. ASSUME Scan PROVE OrderInv'
  <2>1. UNCHANGED <<open, sent>>
    BY <1>5 DEF Scan
  <2> QED
    BY <1>2, <1>5, <2>1, ScanMoves DEF OrderInv
<1>6. ASSUME NEW kind \in Kinds, Arrives(kind), open' => sent < MaxItems - 2 PROVE OrderInv'
  <2>1. InOrder(seen' \o body') /\ Len(seen') + Len(body') = sent'
    BY <1>6, ArriveKeepsOrder
  <2>2. sent \in Nat /\ sent' = sent + 1
    BY <1>6 DEF Arrives, TypeOK
  <2> QED
    BY <1>1, <1>2, <1>6, <2>1, <2>2 DEF OrderInv
<1>7. ASSUME Break PROVE OrderInv'
  <2>1. PICK kept \in 0..Len(body), cut \in {<<>>, <<"skip">>, <<"bad">>} :
            body' = Leftover(kept, cut) /\ sent' = sent + Len(Ending(cut))
    BY <1>7, Zenon DEF Break, Leftover, Ending
  <2>2. open /\ open' = FALSE /\ seen' = seen
    BY <1>7 DEF Break, goroutine
  <2>3. InPlace(seen' \o body')
    BY <2>1, <2>2, BreakKeepsPlaces
  <2>4. PICK n \in 1..2 : n = Len(Ending(cut)) /\ Len(Leftover(kept, cut)) = kept + n
    BY <2>2, LeftoverParts
  <2>5. sent \in Nat /\ Len(seen) \in Nat /\ Len(body) \in Nat /\ Len(seen) + Len(body) <= sent
    BY DEF TypeOK, OrderInv
  <2>6. Len(seen) + (kept + n) <= sent + n
    BY <2>5
  <2>7. Len(seen') + Len(body') <= sent'
    BY <2>1, <2>2, <2>4, <2>6
  <2>8. pc' = "request" => sent' = 0 /\ ~open'
    BY <1>2 DEF OrderInv
  <2> QED
    BY <2>2, <2>3, <2>7, <2>8 DEF OrderInv
<1>8. ASSUME NEW kind \in Sendable \cup {"done", "bad"}, ServerSends(kind) PROVE OrderInv'
  <2>1. kind \in Kinds /\ Arrives(kind) /\ sent < MaxItems - 2
    BY <1>8 DEF ServerSends, Sendable, Kinds
  <2> QED
    BY <1>6, <2>1
<1>9. ASSUME ServerEnds PROVE OrderInv'
  <2>1. "eof" \in Kinds /\ Arrives("eof") /\ open' = FALSE
    BY <1>9 DEF ServerEnds, Kinds
  <2> QED
    BY <1>6, <2>1
<1>10. ASSUME LongLine PROVE OrderInv'
  <2>1. "fault" \in Kinds /\ Arrives("fault") /\ sent < MaxItems - 2
    BY <1>10 DEF LongLine, Kinds
  <2> QED
    BY <1>6, <2>1
<1>11. ASSUME Send \/ Close \/ Receive \/ SeeClosed \/ Leave \/ UNCHANGED vars
       PROVE  UNCHANGED <<seen, body, sent>> /\ (open' => open)
  BY <1>11 DEF Send, Close, Receive, SeeClosed, Leave, vars, goroutine
<1> QED
  BY <1>3, <1>4, <1>5, <1>7, <1>8, <1>9, <1>10, <1>11 DEF Next, Run

LEMMA HeardType ==
    ASSUME TypeOK
    PROVE  Heard \in Seq(Seq(Chunks)) /\ Len(Heard) = Len(seen)
<1>1. \A i \in 1..Len(seen) : Says(provider, seen[i]) \in Seq(Chunks)
  BY SaysChunks DEF TypeOK
<1>2. Len(seen) \in Nat
  BY DEF TypeOK
<1> QED
  BY <1>1, <1>2 DEF Heard

\* The event that is read is the next part of the transcript.
LEMMA ScanHears ==
    ASSUME TypeOK, Scan
    PROVE  FlattenSeq(Heard') = FlattenSeq(Heard) \o pending'
<1>1. /\ Head(body) \in Items /\ seen' = Append(seen, Head(body)) /\ provider' = provider
      /\ pending' = Says(provider, Head(body))
  BY SaysIsChunksOf DEF Scan, TypeOK
<1>2. PICK h \in Items : h = Head(body)
  BY <1>1
<1>3. Says(provider, h) \in Seq(Chunks)
  BY SaysChunks
<1>4. Heard' = Append(Heard, Says(provider, h))
  <2>1. Heard' = [i \in 1..Len(seen') |-> Says(provider, seen'[i])]
    BY <1>1 DEF Heard
  <2>2. PICK n \in Nat : n = Len(seen)
    BY DEF TypeOK
  <2>3. Len(seen') = n + 1 /\ seen'[n + 1] = h /\ \A i \in 1..n : seen'[i] = seen[i]
    BY <1>1, <1>2, <2>2 DEF TypeOK
  <2>4. Heard \in Seq(Seq(Chunks)) /\ Len(Heard) = n
        /\ \A i \in 1..n : Heard[i] = Says(provider, seen[i])
    BY <2>2, HeardType DEF Heard
  <2>5. PICK a : a = Append(Heard, Says(provider, h))
    OBVIOUS
  <2>6. /\ a \in Seq(Seq(Chunks)) /\ Len(a) = n + 1 /\ a[n + 1] = Says(provider, h)
        /\ \A i \in 1..n : a[i] = Heard[i]
    BY <1>3, <2>4, <2>5, AppendProperties
  <2>7. a = [i \in 1..(n + 1) |-> a[i]]
    BY <2>6, LenProperties
  <2>8. ASSUME NEW i \in 1..(n + 1) PROVE a[i] = Says(provider, seen'[i])
    <3>1. CASE i = n + 1
      BY <2>3, <2>6, <3>1
    <3>2. CASE i \in 1..n
      BY <2>3, <2>4, <2>6, <3>2
    <3> QED
      BY <2>2, <3>1, <3>2
  <2> QED
    BY <2>1, <2>3, <2>5, <2>7, <2>8, Zenon
<1> QED
  BY <1>1, <1>2, <1>3, <1>4, HeardType, FlattenAppend

LEMMA MovedStep == TypeOK /\ MovedInv /\ [Next]_vars => MovedInv'
<1> SUFFICES ASSUME TypeOK, MovedInv, [Next]_vars PROVE MovedInv'
  OBVIOUS
<1>1. UNCHANGED <<provider, seen>> => Heard' = Heard
  BY DEF Heard
<1>2. consumer' = "ended" => closed' /\ channel' = <<>>
  BY DEF Next, Run, Request, Scan, Send, Close, ServerSends, ServerEnds, Arrives, Break,
         LongLine, Receive, SeeClosed, Leave, vars, goroutine, MovedInv, TypeOK
<1>3. ASSUME UNCHANGED <<provider, seen, pending, channel, got>> PROVE MovedInv'
  BY <1>1, <1>2, <1>3 DEF MovedInv
<1>4. got \in Seq(Chunks) /\ channel \in Seq(Chunks) /\ pending \in Seq(Chunks)
  BY DEF TypeOK
<1>5. ASSUME Scan PROVE MovedInv'
  <2>1. pending = <<>> /\ UNCHANGED <<got, channel>>
    BY <1>5 DEF Scan, TypeOK
  <2>2. got \o channel \in Seq(Chunks)
    BY <1>4, ConcatProperties
  <2>3. got \o channel \o pending = got \o channel
    BY <2>1, <2>2, ConcatEmptySeq
  <2>4. FlattenSeq(Heard') = FlattenSeq(Heard) \o pending'
    BY <1>5, ScanHears
  <2> QED
    BY <1>2, <2>1, <2>3, <2>4 DEF MovedInv
<1>6. ASSUME Send PROVE MovedInv'
  <2>1. /\ pending /= <<>>
        /\ channel' = Append(channel, Head(pending)) /\ pending' = Tail(pending)
        /\ UNCHANGED <<got, provider, seen>>
    BY <1>6 DEF Send, TypeOK
  <2>2. /\ channel' \in Seq(Chunks) /\ pending' \in Seq(Chunks)
        /\ channel' \o pending' = channel \o pending
    BY <1>4, <2>1, MoveHead
  <2>3. /\ got \o channel \o pending = got \o (channel \o pending)
        /\ got \o channel' \o pending' = got \o (channel' \o pending')
    <3>1. PICK c \in Seq(Chunks), p \in Seq(Chunks) : c = channel' /\ p = pending'
      BY <2>2
    <3>2. Regroups(got, c, p) /\ Regroups(got, channel, pending)
      BY <1>4, Regrouping
    <3> QED
      BY <3>1, <3>2 DEF Regroups
  <2> QED
    BY <1>1, <1>2, <2>1, <2>2, <2>3 DEF MovedInv
<1>7. ASSUME Receive PROVE MovedInv'
  <2>1. /\ channel /= <<>>
        /\ got' = Append(got, Head(channel)) /\ channel' = Tail(channel)
        /\ UNCHANGED <<pending, provider, seen>>
    BY <1>7 DEF Receive, goroutine
  <2>2. got' \o channel' = got \o channel
    BY <1>4, <2>1, MoveHead
  <2> QED
    BY <1>1, <1>2, <2>1, <2>2 DEF MovedInv
<1>8. ASSUME ~Scan, ~Send, ~Receive
      PROVE  UNCHANGED <<provider, seen, pending, channel, got>>
  BY <1>8 DEF Next, Run, Request, Close, ServerSends, ServerEnds, Arrives, Break, LongLine,
              SeeClosed, Leave, vars, goroutine
<1> QED
  BY <1>3, <1>5, <1>6, <1>7, <1>8

-----------------------------------------------------------------------------
LEMMA InitStream == Init => StreamInv
<1> SUFFICES ASSUME Init PROVE StreamInv
  OBVIOUS
<1>1. TypeOK
  <2>1. <<>> \in Seq(Items) /\ <<>> \in Seq(Chunks) /\ Len(<<>>) = 0
    BY EmptySeq
  <2>2. body \in Seq(Items) /\ Len(body) <= sent /\ seen \in Seq(Items) /\ Len(seen) <= sent
    BY <2>1 DEF Init
  <2>3. pending \in Seq(Chunks) /\ channel \in Seq(Chunks) /\ got \in Seq(Chunks) /\ Len(channel) <= Cap
    BY <2>1 DEF Init
  <2>4. sent \in 0..MaxItems
    BY DEF Init
  <2> QED
    BY <2>2, <2>3, <2>4 DEF Init, TypeOK
<1>2. EndsInv
  BY DEF Init, EndsInv, Ends
<1>3. seen \o body = <<>> /\ Len(seen) = 0 /\ Len(body) = 0 /\ got \o channel \o pending = <<>>
  BY ConcatEmptySeq, EmptySeq DEF Init
<1>4. OrderInv
  BY <1>3 DEF Init, OrderInv, InPlace
<1>5. FlattenSeq(Heard) = <<>>
  <2>1. Len(Heard) = 0 /\ Heard \in Seq(Seq(Chunks))
    BY <1>1, <1>3, HeardType
  <2>2. Heard = <<>>
    BY <2>1, EmptySeq
  <2> QED
    BY <2>1, <2>2 DEF FlattenSeq
<1>6. MovedInv
  BY <1>3, <1>5 DEF Init, MovedInv
<1> QED
  BY <1>1, <1>2, <1>4, <1>6 DEF StreamInv

THEOREM StreamInvHolds == Spec => []StreamInv
<1>1. StreamInv /\ [Next]_vars => StreamInv'
  BY TypeStep, EndsStep, OrderStep, MovedStep DEF StreamInv
<1> QED
  BY InitStream, <1>1, PTL DEF Spec

\* The scanner reads nothing behind a last item, so the transcript is all it read.
LEMMA TranscriptIsHeard ==
    ASSUME StreamInv
    PROVE  Transcript = FlattenSeq(Heard)
<1>1. Ends = {} \/ Ends = {Len(seen)}
  BY DEF StreamInv, EndsInv, TypeOK
<1>2. Len(seen) \in Nat
  BY DEF StreamInv, TypeOK
<1>3. Ends /= {} => Min(Ends) = Len(seen)
  BY <1>1, <1>2 DEF Min
<1>4. Transcript = FlattenSeq([i \in 1..Len(seen) |-> ChunksOf(seen[i])])
  BY <1>1, <1>3 DEF Transcript
<1>5. [i \in 1..Len(seen) |-> ChunksOf(seen[i])] = Heard
  BY SaysIsChunksOf DEF Heard
<1> QED
  BY <1>4, <1>5

\* A caller that saw the channel close has received everything that was read.
LEMMA EndedHasAll ==
    ASSUME StreamInv, consumer = "ended"
    PROVE  /\ Ends = {Len(seen)}
           /\ got = FlattenSeq(Heard)
<1>1. closed /\ channel = <<>> /\ pc = "done"
  BY DEF StreamInv, MovedInv, TypeOK
<1>2. Ends = {Len(seen)}
  BY <1>1 DEF StreamInv, EndsInv
<1>3. pending = <<>> /\ got \in Seq(Chunks)
  BY <1>1 DEF StreamInv, TypeOK
<1>4. got \o channel \o pending = got
  BY <1>1, <1>3, ConcatEmptySeq
<1> QED
  BY <1>2, <1>4 DEF StreamInv, MovedInv

\* An event that does not decode and a failed read end the transcript in an error.
LEMMA FailureIsHeard ==
    ASSUME StreamInv, provider /= "openrouter", Ends = {Len(seen)},
           seen[Len(seen)].kind \in {"bad", "fault"}
    PROVE  \E i \in 1..Len(FlattenSeq(Heard)) : FlattenSeq(Heard)[i].kind = "error"
<1>1. PICK n \in Nat \ {0} : n = Len(seen)
  BY DEF Ends
<1>2. seen[n] \in Items /\ provider \in {"anthropic", "openai"}
  BY <1>1 DEF StreamInv, TypeOK, Providers
<1>3. PICK e \in Chunks : e.kind = "error" /\ Says(provider, seen[n]) = <<e>>
  <2>1. [kind |-> "error", n |-> seen[n].n] \in Chunks
    BY <1>2 DEF Chunks, Items
  <2> QED
    BY <1>1, <1>2, <2>1, SaysChunks
<1>4. Heard \in Seq(Seq(Chunks)) /\ Len(Heard) = n /\ Heard[n] = <<e>>
  BY <1>1, <1>3, HeardType DEF Heard, StreamInv
<1>5. PICK s \in Seq(Seq(Chunks)), x \in Seq(Chunks) : Heard = Append(s, x)
  <2>1. Heard /= <<>>
    BY <1>4, EmptySeq
  <2>2. PICK T : T = Seq(Chunks)
    OBVIOUS
  <2>3. Heard \in Seq(T)
    BY <1>4, <2>2
  <2>4. \E s \in Seq(T) : \E x \in T : Heard = Append(s, x)
    BY <2>1, <2>3, SequenceEmptyOrAppend
  <2> QED
    BY <2>2, <2>4
<1>6. x = <<e>>
  <2>1. Len(Heard) = Len(s) + 1 /\ Heard[Len(s) + 1] = x
    BY <1>5, AppendProperties
  <2> QED
    BY <1>4, <2>1
<1>7. PICK f \in Seq(Chunks) : f = FlattenSeq(s)
  BY FlattenIsSeq
<1>8. FlattenSeq(Heard) = f \o <<e>>
  BY <1>5, <1>6, <1>7, FlattenAppend
<1>9. f \o <<e>> = Append(f, e)
  BY AppendIsConcat
<1>10. Len(Append(f, e)) = Len(f) + 1 /\ Append(f, e)[Len(f) + 1] = e /\ Len(f) \in Nat
  BY AppendProperties, LenProperties
<1> QED
  BY <1>3, <1>8, <1>9, <1>10

LEMMA ReportedCut == StreamInv => CutIsReported
<1> SUFFICES ASSUME StreamInv, consumer = "ended", provider /= "openrouter",
                    \A i \in 1..Len(got) : got[i].kind /= "error"
             PROVE  /\ \E i \in Ends : seen[i].kind \in {"done", "eof"}
                    /\ \A i \in 1..Len(seen) : seen[i].n = i
  BY DEF CutIsReported
<1>1. Ends = {Len(seen)} /\ got = FlattenSeq(Heard)
  BY EndedHasAll
<1>2. PICK n \in Nat \ {0} : n = Len(seen)
  BY <1>1 DEF Ends
<1>3. seen[n].kind \in {"done", "eof"}
  <2>1. seen[n].kind \notin {"bad", "fault"}
    BY <1>1, <1>2, FailureIsHeard
  <2>2. n \in Ends
    BY <1>1, <1>2
  <2> QED
    BY <2>1, <2>2 DEF Ends, Final
<1>4. ASSUME NEW i \in 1..n PROVE seen[i].n = i
  <2>1. PICK all : all = seen \o body
    OBVIOUS
  <2>2. /\ n + Len(body) \in Nat /\ n <= n + Len(body)
        /\ Len(all) = n + Len(body) /\ \A j \in 1..n : all[j] = seen[j]
    BY <1>2, <2>1, ConcatProperties DEF StreamInv, TypeOK
  <2>3. i < n => seen[i].kind \notin Final
    BY <1>1, <1>2 DEF Ends
  <2>4. i + 1 < n => seen[i + 1].kind \notin Final
    BY <1>1, <1>2 DEF Ends
  <2>5. \/ all[i].n = i
        \/ all[i].kind \in {"bad", "fault"}
        \/ all[i].kind = "skip" /\ all[i + 1].kind = "fault"
    BY <2>1, <2>2 DEF StreamInv, OrderInv, InPlace
  <2>6. CASE i = n
    BY <1>3, <2>2, <2>5, <2>6
  <2>7. CASE i < n
    <3>1. i + 1 \in 1..n /\ all[i] = seen[i] /\ all[i + 1] = seen[i + 1]
      BY <2>2, <2>7
    <3>2. all[i + 1].kind /= "fault"
      BY <1>3, <2>4, <3>1 DEF Final
    <3> QED
      BY <2>3, <2>5, <2>7, <3>1, <3>2 DEF Final
  <2> QED
    BY <1>2, <2>6, <2>7
<1> QED
  BY <1>1, <1>2, <1>3, <1>4

\* The stream keeps its types; in particular the channel is never above its
\* capacity and is closed only by a goroutine that is done.
THEOREM StreamTypeCorrect == Spec => []TypeOK
<1>1. StreamInv => TypeOK
  BY DEF StreamInv
<1> QED
  BY StreamInvHolds, <1>1, PTL

\* Every chunk of every event the scanner returned is received, in the buffer or
\* about to be sent, in order and once, whatever the caller and the connection do.
THEOREM TranscriptIsKept == Spec => []StreamIsTranscript
<1>1. StreamInv => StreamIsTranscript
  BY TranscriptIsHeard DEF StreamIsTranscript, StreamInv, MovedInv
<1> QED
  BY StreamInvHolds, <1>1, PTL

\* Without an error among its chunks, an anthropic or openai stream is all that
\* the server sent up to its end: a connection that broke leaves an error.
THEOREM CutsAreReported == Spec => []CutIsReported
<1>1. StreamInv => CutIsReported
  BY ReportedCut
<1> QED
  BY StreamInvHolds, <1>1, PTL

-----------------------------------------------------------------------------
(* The registry *)

USE RegistryAssumption DEF RegistryAssumption

RegistryInv ==
    /\ Values(providers) \subseteq Models
    /\ Values(defaults) \subseteq Models
    /\ DefaultIsOldest

\* A bounded set of naturals that is not empty has a maximum.
LEMMA MaxOfBounded ==
    ASSUME NEW S, S \subseteq 0..MaxModels, S /= {}
    PROVE  Max(S) \in S /\ \A x \in S : x <= Max(S)
<1> DEFINE T == {MaxModels - x : x \in S}
<1>1. T \subseteq Nat /\ T /= {}
  <2>1. \A x \in S : MaxModels - x \in Nat
    OBVIOUS
  <2> QED
    BY <2>1
<1>2. PICK n \in T : \A m \in T : n <= m
  <2> HIDE DEF T
  <2> QED
    BY <1>1, LeastNatural
<1>3. PICK x \in S : n = MaxModels - x
  BY <1>2
<1>4. ASSUME NEW y \in S PROVE x >= y
  <2>1. MaxModels - y \in T
    OBVIOUS
  <2>2. MaxModels - x <= MaxModels - y
    BY <1>2, <1>3, <2>1
  <2> QED
    BY <2>2
<1>5. Max(S) \in S /\ \A y \in S : Max(S) >= y
  BY <1>4, Zenon DEF Max
<1> QED
  BY <1>5

LEMMA SetEntry ==
    ASSUME NEW f, NEW x, NEW v
    PROVE  /\ DOMAIN Set(f, x, v) = {x} \cup DOMAIN f
           /\ Set(f, x, v)[x] = v
           /\ \A y \in DOMAIN f : y /= x => Set(f, x, v)[y] = f[y]
           /\ Values(Set(f, x, v)) \subseteq {v} \cup Values(f)
BY DEF Set, Values

LEMMA NewKey ==
    ASSUME RegistryInv
    PROVE  /\ NextKey \in Nat \ {0}
           /\ \A m \in Values(providers) \cup Values(defaults) : m.key < NextKey
<1> DEFINE S == {0} \cup {m.key : m \in Values(providers) \cup Values(defaults)}
<1>1. S \subseteq 0..MaxModels /\ S /= {}
  BY DEF RegistryInv, Models
<1>2. \A m \in Values(providers) \cup Values(defaults) : m.key \in S
  OBVIOUS
<1>3. NextKey = Max(S) + 1
  BY DEF NextKey
<1> HIDE DEF S
<1>4. PICK n \in S : n = Max(S) /\ \A x \in S : x <= n
  BY <1>1, MaxOfBounded
<1>5. \A x \in S : x \in Nat /\ x < n + 1
  BY <1>1, <1>4
<1> QED
  BY <1>2, <1>3, <1>4, <1>5

LEMMA RegisterStep ==
    ASSUME RegistryInv, NEW name \in Names, NEW type \in Types, Register(name, type)
    PROVE  RegistryInv'
<1>1. PICK m : /\ m = [type |-> type, key |-> NextKey]
              /\ m.type = type /\ m.key = NextKey
              /\ providers' = Set(providers, name, m)
              /\ defaults' = IF type \in DOMAIN defaults THEN defaults ELSE Set(defaults, type, m)
  BY DEF Register
<1>2. m \in Models
  BY <1>1, NewKey DEF Register, Models
<1>3. \A o \in Values(providers) \cup Values(defaults) : o.key < m.key /\ o.key \in Nat /\ m.key \in Nat
  BY <1>1, NewKey DEF RegistryInv, Models
<1>4. Values(providers') \subseteq {m} \cup Values(providers)
  <2>1. PICK g : g = Set(providers, name, m)
    OBVIOUS
  <2>2. Values(g) \subseteq {m} \cup Values(providers)
    BY <2>1 DEF Set, Values
  <2> QED
    BY <1>1, <2>1, <2>2
<1>5. CASE type \in DOMAIN defaults
  <2>1. defaults' = defaults
    BY <1>1, <1>5
  <2>2. \A t \in DOMAIN defaults : defaults[t] \in Values(defaults)
    BY DEF Values
  <2>3. DefaultIsOldest'
    BY <1>1, <1>3, <1>4, <1>5, <2>1, <2>2 DEF RegistryInv, DefaultIsOldest
  <2> QED
    BY <1>2, <1>4, <2>1, <2>3 DEF RegistryInv
<1>6. CASE type \notin DOMAIN defaults
  <2>1. /\ DOMAIN defaults' = {type} \cup DOMAIN defaults
        /\ defaults'[type] = m
        /\ \A t \in DOMAIN defaults : defaults'[t] = defaults[t]
        /\ Values(defaults') \subseteq {m} \cup Values(defaults)
    <3>1. PICK g : g = Set(defaults, type, m)
      OBVIOUS
    <3>2. /\ DOMAIN g = {type} \cup DOMAIN defaults /\ g[type] = m
          /\ \A t \in DOMAIN defaults : t /= type => g[t] = defaults[t]
          /\ Values(g) \subseteq {m} \cup Values(defaults)
      <4>1. DOMAIN g = {type} \cup DOMAIN defaults
        BY <3>1, SetEntry
      <4>2. g[type] = m
        BY <3>1 DEF Set
      <4>3. \A t \in DOMAIN defaults : t /= type => g[t] = defaults[t]
        BY <3>1 DEF Set
      <4>4. Values(g) \subseteq {m} \cup Values(defaults)
        BY <3>1 DEF Set, Values
      <4> QED
        BY <4>1, <4>2, <4>3, <4>4
    <3>3. defaults' = g
      BY <1>1, <1>6, <3>1
    <3> QED
      BY <1>6, <3>2, <3>3
  <2>3. \A o \in Values(providers) : o.type /= type
    BY <1>6 DEF RegistryInv, DefaultIsOldest
  <2>4. ASSUME NEW o \in Values(providers') PROVE o.type \in DOMAIN defaults'
    BY <1>1, <1>4, <2>1 DEF RegistryInv, DefaultIsOldest
  <2>5. ASSUME NEW t \in DOMAIN defaults'
        PROVE  /\ defaults'[t].type = t
               /\ \A o \in Values(providers') : o.type = t => defaults'[t].key <= o.key
    <3>1. CASE t = type
      <4>1. \A o \in Values(providers') : o.type = t => o = m
        BY <1>4, <2>3, <3>1
      <4> QED
        BY <1>1, <1>3, <2>1, <3>1, <4>1, NewKey
    <3>2. CASE t \in DOMAIN defaults
      <4>1. defaults'[t] = defaults[t] /\ defaults[t].type = t
        BY <2>1, <3>2 DEF RegistryInv, DefaultIsOldest
      <4>2. m.type /= t
        BY <1>1, <1>6, <3>2
      <4> QED
        BY <1>4, <3>2, <4>1, <4>2 DEF RegistryInv, DefaultIsOldest
    <3> QED
      BY <2>1, <3>1, <3>2
  <2>6. DefaultIsOldest'
    BY <2>4, <2>5 DEF DefaultIsOldest
  <2> QED
    BY <1>2, <1>4, <2>1, <2>6 DEF RegistryInv
<1> QED
  BY <1>5, <1>6

\* For any names, types and number of registrations: a type that was ever
\* registered has a default, and it is the oldest model of its type, so that
\* giving a name to another model never changes what GetDefault returns.
THEOREM DefaultsAreOldest == RegistrySpec => []DefaultIsOldest
<1>1. RegistryInit => RegistryInv
  BY DEF RegistryInit, RegistryInv, DefaultIsOldest, Values, Nothing
<1>2. RegistryInv /\ [RegistryNext]_registryVars => RegistryInv'
  <2>1. ASSUME RegistryInv, UNCHANGED registryVars PROVE RegistryInv'
    BY <2>1 DEF registryVars, RegistryInv, DefaultIsOldest, Values, Models
  <2> QED
    BY <2>1, RegisterStep DEF RegistryNext
<1>3. RegistryInv => DefaultIsOldest
  BY DEF RegistryInv
<1> QED
  BY <1>1, <1>2, <1>3, PTL DEF RegistrySpec

-----------------------------------------------------------------------------
(* More of FlattenSeq *)

HIDE DEF StreamAssumption, RegistryAssumption

LEMMA FlattenNone == FlattenSeq(<<>>) = <<>>
BY DEF FlattenSeq

LEMMA WiderSeq ==
    ASSUME NEW S, NEW T, S \subseteq T, NEW s \in Seq(S)
    PROVE  s \in Seq(T)
OBVIOUS

\* What stands where in the concatenation c of a and b.
Joined(c, a, b) ==
    /\ Len(c) = Len(a) + Len(b)
    /\ \A i \in 1..Len(a) : i \in 1..Len(c) /\ c[i] = a[i]
    /\ \A i \in 1..Len(b) : Len(a) + i \in 1..Len(c) /\ c[Len(a) + i] = b[i]
    /\ \A i \in 1..Len(c) : i \in 1..Len(a) \/ \E j \in 1..Len(b) : i = Len(a) + j

LEMMA ConcatAt ==
    ASSUME NEW S, NEW a \in Seq(S), NEW b \in Seq(S)
    PROVE  a \o b \in Seq(S) /\ Joined(a \o b, a, b)
<1>1. PICK x, y, c : x = Len(a) /\ y = Len(b) /\ c = a \o b /\ x \in Nat /\ y \in Nat
  BY LenProperties
<1>2. c \in Seq(S) /\ Len(c) = x + y
      /\ \A i \in 1..(x + y) : c[i] = IF i <= x THEN a[i] ELSE b[i - x]
  BY <1>1, ConcatProperties
<1>3. \A i \in 1..x : i \in 1..(x + y) /\ c[i] = a[i]
  BY <1>1, <1>2
<1>4. ASSUME NEW i \in 1..y PROVE x + i \in 1..(x + y) /\ c[x + i] = b[i]
  <2>1. PICK k : k = x + i
    OBVIOUS
  <2>2. k \in 1..(x + y) /\ ~(k <= x) /\ k - x = i
    BY <1>1, <2>1
  <2>3. c[k] = b[k - x]
    BY <1>2, <2>2
  <2> QED
    BY <2>1, <2>2, <2>3
<1>5. ASSUME NEW i \in 1..(x + y), i \notin 1..x PROVE \E j \in 1..y : i = x + j
  <2>1. i - x \in 1..y /\ i = x + (i - x)
    BY <1>1, <1>5
  <2> QED
    BY <2>1
<1> QED
  BY <1>1, <1>2, <1>3, <1>4, <1>5 DEF Joined

\* f applied to every element.
Mapped(f, s) == [i \in DOMAIN s |-> f[s[i]]]

Maps(f, s, r) == Len(r) = Len(s) /\ \A i \in 1..Len(s) : r[i] = f[s[i]]

LEMMA MappedSeq ==
    ASSUME NEW S, NEW T, NEW f \in [S -> T], NEW s \in Seq(S)
    PROVE  Mapped(f, s) \in Seq(T) /\ Maps(f, s, Mapped(f, s))
<1>1. PICK n \in Nat : n = Len(s) /\ DOMAIN s = 1..n /\ \A i \in 1..n : f[s[i]] \in T
  BY LenProperties, ElementOfSeq
<1> QED
  BY <1>1 DEF Mapped, Maps

MapsParts(f, a, b) == Mapped(f, a \o b) = Mapped(f, a) \o Mapped(f, b)

LEMMA MappedConcat ==
    ASSUME NEW S, NEW T, NEW f \in [S -> T], NEW a \in Seq(S), NEW b \in Seq(S)
    PROVE  MapsParts(f, a, b)
<1>1. PICK c : c = a \o b
  OBVIOUS
<1>2. c \in Seq(S) /\ Joined(c, a, b)
  BY <1>1, ConcatAt
<1>3. PICK p, q, r : p = Mapped(f, a) /\ q = Mapped(f, b) /\ r = Mapped(f, c)
  OBVIOUS
<1>4. p \in Seq(T) /\ q \in Seq(T) /\ r \in Seq(T) /\ Maps(f, a, p) /\ Maps(f, b, q) /\ Maps(f, c, r)
  BY <1>2, <1>3, MappedSeq
<1>5. PICK pq : pq = p \o q
  OBVIOUS
<1>6. pq \in Seq(T) /\ Joined(pq, p, q)
  BY <1>4, <1>5, ConcatAt
<1>7. ASSUME NEW i \in 1..Len(c) PROVE r[i] = pq[i]
  <2>1. CASE i \in 1..Len(a)
    <3>1. c[i] = a[i] /\ r[i] = f[c[i]] /\ p[i] = f[a[i]]
      BY <1>2, <1>4, <2>1 DEF Joined, Maps
    <3>2. pq[i] = p[i]
      BY <1>4, <1>6, <2>1 DEF Joined, Maps
    <3> QED
      BY <3>1, <3>2
  <2>2. ASSUME NEW j \in 1..Len(b), i = Len(a) + j PROVE r[i] = pq[i]
    <3>1. c[i] = b[j] /\ r[i] = f[c[i]] /\ q[j] = f[b[j]]
      BY <1>2, <1>4, <2>2 DEF Joined, Maps
    <3>2. pq[i] = q[j]
      BY <1>4, <1>6, <2>2 DEF Joined, Maps
    <3> QED
      BY <3>1, <3>2
  <2> QED
    BY <1>2, <2>1, <2>2 DEF Joined
<1>8. r = pq
  <2>1. Len(r) = Len(pq)
    BY <1>2, <1>4, <1>6 DEF Joined, Maps
  <2> QED
    <3>1. \A i \in 1..Len(r) : r[i] = pq[i]
      BY <1>4, <1>7 DEF Maps
    <3> QED
      BY <1>4, <1>6, <2>1, <3>1, SeqEqual
<1> QED
  BY <1>1, <1>3, <1>5, <1>8 DEF MapsParts

LEMMA FlattenConcat ==
    ASSUME NEW S, NEW s \in Seq(Seq(S)), NEW t \in Seq(Seq(S))
    PROVE  FlattenSeq(s \o t) = FlattenSeq(s) \o FlattenSeq(t)
<1> DEFINE Bad == {n \in Nat : \E u \in Seq(Seq(S)) :
                       Len(u) = n /\ FlattenSeq(s \o u) /= FlattenSeq(s) \o FlattenSeq(u)}
<1> SUFFICES ASSUME Bad /= {} PROVE FALSE
  <2>1. Len(t) \in Nat
    OBVIOUS
  <2> QED
    BY <2>1
<1>1. PICK n \in Bad : \A m \in Bad : n <= m
  <2>1. Bad \subseteq Nat
    OBVIOUS
  <2> HIDE DEF Bad
  <2> QED
    BY <2>1, LeastNatural
<1>2. PICK u \in Seq(Seq(S)) :
          Len(u) = n /\ FlattenSeq(s \o u) /= FlattenSeq(s) \o FlattenSeq(u)
  BY <1>1
<1>3. u /= <<>>
  <2>1. SUFFICES ASSUME u = <<>> PROVE FALSE
    OBVIOUS
  <2>2. s \o u = s
    BY <2>1, ConcatEmptySeq
  <2>3. FlattenSeq(s) \o FlattenSeq(u) = FlattenSeq(s)
    <3>1. FlattenSeq(s) \in Seq(S) /\ FlattenSeq(u) = <<>>
      BY <2>1, FlattenNone, FlattenIsSeq
    <3> QED
      BY <3>1, ConcatEmptySeq
  <2> QED
    BY <1>2, <2>2, <2>3
<1>4. PICK v \in Seq(Seq(S)), x \in Seq(S) : u = Append(v, x)
  BY <1>3, SequenceEmptyOrAppend
<1>5. Len(v) = n - 1 /\ n - 1 \in Nat
  BY <1>2, <1>4, AppendProperties, LenProperties
<1>6. FlattenSeq(s \o v) = FlattenSeq(s) \o FlattenSeq(v)
  <2>1. n - 1 \notin Bad
    <3>1. n \in Nat /\ \A j \in Bad : n <= j
      BY <1>1
    <3> HIDE DEF Bad
    <3> QED
      BY <3>1
  <2> QED
    BY <1>5, <2>1
<1>7. s \o u = Append(s \o v, x) /\ s \o v \in Seq(Seq(S))
  <2>1. s \o v \in Seq(Seq(S))
    BY ConcatProperties
  <2>2. u = v \o <<x>> /\ Append(s \o v, x) = (s \o v) \o <<x>>
    BY <1>4, <2>1, AppendIsConcat
  <2>3. Regroups(s, v, <<x>>)
    <3>1. <<x>> \in Seq(Seq(S))
      OBVIOUS
    <3>2. PICK T : T = Seq(S)
      OBVIOUS
    <3>3. s \in Seq(T) /\ v \in Seq(T) /\ <<x>> \in Seq(T)
      BY <3>1, <3>2
    <3> QED
      BY <3>3, Regrouping
  <2> QED
    BY <2>1, <2>2, <2>3 DEF Regroups
<1>8. FlattenSeq(s \o u) = (FlattenSeq(s) \o FlattenSeq(v)) \o x
  <2>1. PICK w \in Seq(Seq(S)) : w = s \o v
    BY <1>7
  <2>2. FlattenSeq(Append(w, x)) = FlattenSeq(w) \o x
    BY FlattenAppend
  <2> QED
    BY <1>6, <1>7, <2>1, <2>2
<1>9. FlattenSeq(u) = FlattenSeq(v) \o x
  BY <1>4, FlattenAppend
<1>10. Regroups(FlattenSeq(s), FlattenSeq(v), x)
  BY FlattenIsSeq, Regrouping
<1> QED
  BY <1>2, <1>8, <1>9, <1>10 DEF Regroups

LEMMA FlattenOne ==
    ASSUME NEW S, NEW x \in Seq(S)
    PROVE  FlattenSeq(<<x>>) = x
<1>1. <<>> \in Seq(Seq(S)) /\ <<x>> = Append(<<>>, x)
  OBVIOUS
<1>2. FlattenSeq(<<x>>) = FlattenSeq(<<>>) \o x
  BY <1>1, FlattenAppend
<1> QED
  BY <1>2, FlattenNone, ConcatEmptySeq

\* A sequence is empty once flattened exactly when its parts are.
LEMMA FlattenEmpty ==
    ASSUME NEW S, NEW s \in Seq(Seq(S))
    PROVE  FlattenSeq(s) = <<>> <=> \A i \in 1..Len(s) : s[i] = <<>>
<1> DEFINE Wrong(u) == ~(FlattenSeq(u) = <<>> <=> \A i \in 1..Len(u) : u[i] = <<>>)
           Bad == {n \in Nat : \E u \in Seq(Seq(S)) : Len(u) = n /\ Wrong(u)}
<1> SUFFICES ASSUME Bad /= {} PROVE FALSE
  <2>1. Len(s) \in Nat
    OBVIOUS
  <2> QED
    BY <2>1
<1>1. PICK n \in Bad : \A m \in Bad : n <= m
  <2>1. Bad \subseteq Nat
    OBVIOUS
  <2> HIDE DEF Bad
  <2> QED
    BY <2>1, LeastNatural
<1>2. PICK u \in Seq(Seq(S)) : Len(u) = n /\ Wrong(u)
  BY <1>1
<1>3. u /= <<>>
  BY <1>2, FlattenNone
<1>4. PICK v \in Seq(Seq(S)), x \in Seq(S) : u = Append(v, x)
  BY <1>3, SequenceEmptyOrAppend
<1>5. /\ Len(v) = n - 1 /\ n \in Nat /\ n - 1 \in Nat /\ u[n] = x
      /\ \A i \in 1..(n - 1) : u[i] = v[i]
  BY <1>2, <1>4, AppendProperties, LenProperties
<1>6. ~Wrong(v)
  <2>1. n - 1 \notin Bad
    <3> HIDE DEF Bad
    <3> QED
      BY <1>1, <1>5
  <2>2. Wrong(v) => n - 1 \in Bad
    <3> HIDE DEF Wrong
    <3> QED
      BY <1>5
  <2> HIDE DEF Wrong, Bad
  <2> QED
    BY <2>1, <2>2
<1>7. FlattenSeq(u) = FlattenSeq(v) \o x
  BY <1>4, FlattenAppend
<1>8. FlattenSeq(u) = <<>> <=> FlattenSeq(v) = <<>> /\ x = <<>>
  BY <1>7, FlattenIsSeq, ConcatEqualIffEmpty
<1>9. (\A i \in 1..Len(u) : u[i] = <<>>) <=> (\A i \in 1..Len(v) : v[i] = <<>>) /\ x = <<>>
  <2>1. Len(u) = n /\ Len(v) = n - 1 /\ n \in 1..n /\ u[n] = x
    BY <1>2, <1>5
  <2>2. \A i \in 1..n : i = n \/ (i \in 1..(n - 1) /\ u[i] = v[i])
    <3>1. \A i \in 1..n : i = n \/ i \in 1..(n - 1)
      BY <1>5
    <3> QED
      BY <1>5, <3>1
  <2>3. 1..(n - 1) \subseteq 1..n
    BY <1>5
  <2> HIDE DEF Bad, Wrong
  <2> QED
    BY <1>5, <2>1, <2>2, <2>3
<1> QED
  BY <1>2, <1>6, <1>8, <1>9

\* The parts that hold one element each.
LEMMA FlattenSingles ==
    ASSUME NEW S, NEW u \in Seq(S)
    PROVE  FlattenSeq([k \in 1..Len(u) |-> <<u[k]>>]) = u
<1> DEFINE ones(v) == [k \in 1..Len(v) |-> <<v[k]>>]
           Bad == {n \in Nat : \E v \in Seq(S) : Len(v) = n /\ FlattenSeq(ones(v)) /= v}
<1> SUFFICES ASSUME Bad /= {} PROVE FALSE
  <2>1. Len(u) \in Nat
    OBVIOUS
  <2> QED
    BY <2>1
<1>1. PICK n \in Bad : \A m \in Bad : n <= m
  <2>1. Bad \subseteq Nat
    OBVIOUS
  <2> HIDE DEF Bad
  <2> QED
    BY <2>1, LeastNatural
<1>2. PICK v \in Seq(S) : Len(v) = n /\ FlattenSeq(ones(v)) /= v
  BY <1>1
<1>3. v /= <<>>
  <2>1. SUFFICES ASSUME v = <<>> PROVE FALSE
    OBVIOUS
  <2>2. ones(v) = <<>>
    BY <2>1
  <2> QED
    BY <1>2, <2>1, <2>2, FlattenNone
<1>4. PICK w \in Seq(S), x \in S : v = Append(w, x)
  BY <1>3, SequenceEmptyOrAppend
<1>5. /\ Len(w) = n - 1 /\ n \in Nat /\ n - 1 \in Nat /\ v[n] = x
      /\ \A i \in 1..(n - 1) : v[i] = w[i]
  BY <1>2, <1>4, AppendProperties, LenProperties
<1>6. FlattenSeq(ones(w)) = w
  <2>1. n - 1 \notin Bad
    <3> HIDE DEF Bad
    <3> QED
      BY <1>1, <1>5
  <2> QED
    BY <1>5, <2>1
<1>7. ones(w) \in Seq(Seq(S)) /\ <<x>> \in Seq(S)
  <2>1. \A i \in 1..Len(w) : <<w[i]>> \in Seq(S)
    OBVIOUS
  <2> QED
    BY <2>1, LenProperties
<1>8. ones(v) = Append(ones(w), <<x>>)
  <2>1. Len(v) = n /\ n \in Nat /\ Len(ones(w)) = n - 1
    BY <1>2, <1>5
  <2>2. \A k \in 1..n : ones(v)[k] = Append(ones(w), <<x>>)[k]
    BY <1>5, <2>1
  <2> QED
    BY <1>5, <2>1, <2>2
<1>9. FlattenSeq(ones(v)) = w \o <<x>>
  <2> HIDE DEF ones
  <2> QED
    BY <1>6, <1>7, <1>8, FlattenAppend
<1> QED
  BY <1>2, <1>4, <1>9, AppendIsConcat

\* One number more for each member of C.
CountTo(n, C) == Cardinality({j \in 1..n : j \in C})
Numbers(m, n) == [k \in 1..n |-> m + k]
NumbersOf(m, n, C) ==
    FlattenSeq([i \in 1..n |-> IF i \in C THEN <<m + CountTo(i, C)>> ELSE <<>>])

LEMMA FlattenNumbers ==
    ASSUME NEW m \in Nat, NEW n \in Nat, NEW C
    PROVE  NumbersOf(m, n, C) = Numbers(m, CountTo(n, C))
<1> DEFINE To(i) == {j \in 1..i : j \in C}
           part(i) == IF i \in C THEN <<m + Cardinality(To(i))>> ELSE <<>>
           s(x) == [i \in 1..x |-> part(i)]
           u(x) == [k \in 1..Cardinality(To(x)) |-> m + k]
           Bad == {x \in Nat : FlattenSeq(s(x)) /= u(x)}
<1> SUFFICES ASSUME Bad /= {} PROVE FALSE
  <2>1. FlattenSeq(s(n)) = u(n) => NumbersOf(m, n, C) = Numbers(m, CountTo(n, C))
    BY DEF NumbersOf, Numbers, CountTo
  <2> HIDE DEF s, u
  <2> QED
    BY <2>1
<1>1. PICK x \in Bad : \A y \in Bad : x <= y
  <2>1. Bad \subseteq Nat
    OBVIOUS
  <2> HIDE DEF Bad
  <2> QED
    BY <2>1, LeastNatural
<1>2. ASSUME NEW i \in Nat PROVE IsFiniteSet(To(i)) /\ Cardinality(To(i)) \in Nat
  <2>1. IsFiniteSet(1..i) /\ To(i) \in SUBSET (1..i)
    BY FS_Interval
  <2> HIDE DEF To
  <2> QED
    BY <2>1, FS_Subset, FS_CardinalityType
<1>3. x /= 0
  <2>1. SUFFICES ASSUME x = 0 PROVE FALSE
    OBVIOUS
  <2>2. s(x) = <<>>
    BY <2>1
  <2>3. Cardinality(To(x)) = 0
    <3>1. To(x) = {}
      BY <2>1
    <3> QED
      BY <3>1, FS_EmptySet
  <2>4. u(x) = <<>>
    <3> HIDE DEF To
    <3> QED
      BY <2>3
  <2> QED
    BY <2>2, <2>4, FlattenNone
<1>4. PICK y \in Nat : y = x - 1 /\ x = y + 1 /\ x \in Nat
  BY <1>3
<1>5. FlattenSeq(s(y)) = u(y)
  <2>1. y \notin Bad
    <3> HIDE DEF Bad
    <3> QED
      BY <1>1, <1>4
  <2> QED
    BY <2>1
<1>6. \A i \in 1..x : part(i) \in Seq(Nat)
  <2>1. TAKE i \in 1..x
  <2>2. i \in Nat
    BY <1>4
  <2>3. PICK d \in Nat : d = Cardinality(To(i))
    BY <1>2, <2>2
  <2>4. part(i) = IF i \in C THEN <<m + d>> ELSE <<>>
    BY <2>3
  <2>5. m + d \in Nat
    OBVIOUS
  <2> HIDE DEF To, part
  <2> QED
    BY <2>4, <2>5
<1>7. s(y) \in Seq(Seq(Nat)) /\ s(x) = Append(s(y), part(x))
  <2> HIDE DEF part
  <2> QED
    BY <1>4, <1>6
<1>8. FlattenSeq(s(x)) = u(y) \o part(x)
  <2>1. part(x) \in Seq(Nat)
    BY <1>4, <1>6
  <2> HIDE DEF s, u, part
  <2> QED
    BY <1>5, <1>7, <2>1, FlattenAppend
<1>9. To(x) = IF x \in C THEN To(y) \cup {x} ELSE To(y)
  BY <1>4
<1>10. Cardinality(To(x)) = IF x \in C THEN Cardinality(To(y)) + 1 ELSE Cardinality(To(y))
  <2>1. x \notin To(y)
    BY <1>4
  <2> HIDE DEF To
  <2> QED
    BY <1>2, <1>9, <2>1, FS_AddElement
<1>11. u(x) = u(y) \o part(x)
  <2>1. PICK a, b : a = Cardinality(To(y)) /\ b = Cardinality(To(x)) /\ a \in Nat /\ b \in Nat
    BY <1>2, <1>4
  <2>2. u(y) = [k \in 1..a |-> m + k] /\ u(x) = [k \in 1..b |-> m + k]
    BY <2>1
  <2>3. part(x) = IF x \in C THEN <<m + b>> ELSE <<>>
    BY <2>1
  <2>4. b = IF x \in C THEN a + 1 ELSE a
    BY <1>10, <2>1
  <2> HIDE DEF u, part, To
  <2>5. CASE x \in C
    BY <2>1, <2>2, <2>3, <2>4, <2>5
  <2>6. CASE x \notin C
    <3>1. u(y) \in Seq(Nat)
      BY <2>1, <2>2
    <3> QED
      BY <2>2, <2>3, <2>4, <2>6, <3>1, ConcatEmptySeq
  <2> QED
    BY <2>5, <2>6
<1>12. FlattenSeq(s(x)) = u(x)
  BY <1>8, <1>11
<1> QED
  BY <1>1, <1>12

-----------------------------------------------------------------------------
(* Messages and their calls *)

USE ChatAssumption DEF ChatAssumption

Ids == Nat \ {0}
Roles == {"system", "user", "assistant", "tool"}

\* The provers do not know that a literal is a member of Piece.
Pieces == Piece \cup {"option", "said", "more", "result"}
Entry == [role : Roles, text : Seq(Pieces), link : Nat, calls : Seq(Ids)]

\* What a caller has in its conversation: only a result has a link, only an answer
\* has calls.
Said ==
    {m \in Entry : /\ m.role = "tool" <=> m.link /= 0
                   /\ m.calls /= <<>> => m.role = "assistant"}

AllCalls(ms) == FlattenSeq([i \in DOMAIN ms |-> ms[i].calls])

Quiet(ms) == \A i \in 1..Len(ms) : ms[i].calls = <<>>

Linked(ms) ==
    \A i \in 1..Len(ms) : \A k \in 1..Len(ms[i].calls) :
        i + k \in 1..Len(ms) /\ ms[i + k].link = ms[i].calls[k]

CallsIn == [m \in Entry |-> m.calls]

LEMMA CallsAreSeqs ==
    /\ CallsIn \in [Entry -> Seq(Ids)]
    /\ \A ms \in Seq(Entry) : AllCalls(ms) = FlattenSeq(Mapped(CallsIn, ms))
<1>1. CallsIn \in [Entry -> Seq(Ids)]
  BY DEF CallsIn, Entry
<1>2. ASSUME NEW ms \in Seq(Entry)
      PROVE  [i \in DOMAIN ms |-> ms[i].calls] = Mapped(CallsIn, ms)
  <2>1. PICK n \in Nat : DOMAIN ms = 1..n /\ \A i \in 1..n : ms[i] \in Entry
    BY LenProperties, ElementOfSeq
  <2> QED
    BY <2>1 DEF Mapped, CallsIn
<1> QED
  BY <1>1, <1>2 DEF AllCalls

LEMMA AllCallsConcat ==
    ASSUME NEW S, S \subseteq Entry, NEW p \in Seq(S), NEW t \in Seq(S)
    PROVE  AllCalls(p \o t) = AllCalls(p) \o AllCalls(t)
<1>1. p \in Seq(Entry) /\ t \in Seq(Entry)
  BY WiderSeq
<1>2. PICK ms : ms = p \o t
  OBVIOUS
<1>3. PICK f, I : f = CallsIn /\ I = Ids
  OBVIOUS
<1>4. PICK T : T = Seq(I)
  OBVIOUS
<1>5. f \in [Entry -> T]
  BY <1>3, <1>4, CallsAreSeqs
<1>6. PICK c, d : c = Mapped(f, p) /\ d = Mapped(f, t)
  OBVIOUS
<1>7. ms \in Seq(Entry) /\ Mapped(f, ms) = c \o d
  <2>1. MapsParts(f, p, t)
    BY <1>1, <1>5, MappedConcat
  <2>2. p \o t \in Seq(Entry)
    BY <1>1, ConcatProperties
  <2> QED
    BY <1>2, <1>6, <2>1, <2>2 DEF MapsParts
<1>8. c \in Seq(T) /\ d \in Seq(T)
  BY <1>1, <1>5, <1>6, MappedSeq
<1>9. FlattenSeq(c \o d) = FlattenSeq(c) \o FlattenSeq(d)
  BY <1>4, <1>8, FlattenConcat
<1> QED
  BY <1>1, <1>2, <1>3, <1>6, <1>7, <1>9, CallsAreSeqs

LEMMA AllCallsType ==
    ASSUME NEW S, S \subseteq Entry, NEW ms \in Seq(S)
    PROVE  AllCalls(ms) \in Seq(Ids) /\ (Quiet(ms) => AllCalls(ms) = <<>>)
<1>1. ms \in Seq(Entry)
  BY WiderSeq
<1>2. PICK c, f, I, T : f = CallsIn /\ c = Mapped(f, ms) /\ I = Ids /\ T = Seq(I)
  OBVIOUS
<1>3. c \in Seq(Seq(I)) /\ Len(c) = Len(ms) /\ \A i \in 1..Len(ms) : c[i] = CallsIn[ms[i]]
  <2>1. f \in [Entry -> T]
    BY <1>2, CallsAreSeqs
  <2>2. c \in Seq(T) /\ Maps(f, ms, c)
    BY <1>1, <1>2, <2>1, MappedSeq
  <2> QED
    BY <1>2, <2>2 DEF Maps
<1>4. \A i \in 1..Len(ms) : c[i] = ms[i].calls
  BY <1>1, <1>3, ElementOfSeq DEF CallsIn
<1>5. AllCalls(ms) = FlattenSeq(c)
  BY <1>1, <1>2, CallsAreSeqs
<1> QED
  BY <1>2, <1>3, <1>4, <1>5, FlattenIsSeq, FlattenEmpty DEF Quiet

\* What stands before the first call disturbs no link.
LEMMA QuietPrefix ==
    ASSUME NEW S, S \subseteq Entry, NEW p \in Seq(S), NEW t \in Seq(S), Quiet(p), Linked(t)
    PROVE  Linked(p \o t) /\ AllCalls(p \o t) = AllCalls(t)
<1>1. PICK ms : ms = p \o t
  OBVIOUS
<1>2. PICK a, b : a = Len(p) /\ b = Len(t) /\ a \in Nat /\ b \in Nat
  BY LenProperties
<1>3. /\ \A i \in 1..a : ms[i] = p[i]
      /\ \A i \in 1..b : a + i \in 1..Len(ms) /\ ms[a + i] = t[i]
      /\ \A i \in 1..Len(ms) : i \in 1..a \/ \E j \in 1..b : i = a + j
  <2>1. Joined(ms, p, t)
    BY <1>1, ConcatAt
  <2> QED
    BY <1>2, <2>1 DEF Joined
<1>4. ASSUME NEW i \in 1..Len(ms), NEW k \in 1..Len(ms[i].calls)
      PROVE  i + k \in 1..Len(ms) /\ ms[i + k].link = ms[i].calls[k]
  <2>1. CASE i \in 1..a
    <3>1. ms[i].calls = <<>>
      BY <1>2, <1>3, <2>1 DEF Quiet
    <3> QED
      BY <1>4, <3>1
  <2>2. CASE \E j \in 1..b : i = a + j
    <3>1. PICK j \in 1..b : i = a + j
      BY <2>2
    <3>2. ms[i] = t[j]
      BY <1>3, <3>1
    <3>3. j + k \in 1..b /\ t[j + k].link = t[j].calls[k]
      BY <1>2, <1>4, <3>2 DEF Linked
    <3>4. k \in Nat
      <4>1. t[j].calls \in Seq(Ids)
        BY <1>2, ElementOfSeq DEF Entry
      <4> QED
        BY <1>4, <3>2, <4>1, LenProperties
    <3>5. a + (j + k) \in 1..Len(ms) /\ ms[a + (j + k)] = t[j + k]
      BY <1>3, <3>3
    <3>6. a + (j + k) = i + k
      BY <1>2, <3>1, <3>4
    <3> QED
      BY <3>2, <3>3, <3>5, <3>6
  <2> QED
    BY <1>3, <2>1, <2>2
<1>5. Linked(ms)
  BY <1>4 DEF Linked
<1>6. AllCalls(ms) = AllCalls(p) \o AllCalls(t)
  BY <1>1, AllCallsConcat
<1>7. AllCalls(p) = <<>> /\ AllCalls(t) \in Seq(Ids)
  BY AllCallsType
<1> QED
  BY <1>1, <1>5, <1>6, <1>7, ConcatEmptySeq

\* The calls that anthropic and openai made, of the calls listed in md.
KnownOf(md) ==
    FlattenSeq([n \in DOMAIN md |-> IF md[n] = "openrouter" THEN <<>> ELSE <<n>>])

LEMMA KnownAfter ==
    ASSUME NEW md \in Seq(Types), NEW v \in Types, NEW n \in Nat
    PROVE  KnownOf(md \o [k \in 1..n |-> v])
               = KnownOf(md) \o (IF v = "openrouter" THEN <<>> ELSE [k \in 1..n |-> Len(md) + k])
<1> DEFINE part(d, i) == IF d[i] = "openrouter" THEN <<>> ELSE <<i>>
           parts(d) == [i \in DOMAIN d |-> part(d, i)]
           new == [k \in 1..n |-> v]
           rest == [k \in 1..n |-> IF v = "openrouter" THEN <<>> ELSE <<Len(md) + k>>]
<1>1. PICK l \in Nat : l = Len(md)
  BY LenProperties
<1>2. PICK d : d = md \o new
  OBVIOUS
<1>3. d \in Seq(Types) /\ Len(d) = l + n
      /\ \A i \in 1..(l + n) : d[i] = IF i <= l THEN md[i] ELSE new[i - l]
  <2>1. new \in Seq(Types) /\ Len(new) = n
    OBVIOUS
  <2> HIDE DEF new
  <2> QED
    BY <1>1, <1>2, <2>1, ConcatProperties
<1>4. parts(d) \in Seq(Seq(Nat)) /\ Len(parts(d)) = l + n
      /\ \A i \in 1..(l + n) : parts(d)[i] = part(d, i)
  <2>1. \A i \in 1..(l + n) : part(d, i) \in Seq(Nat)
    OBVIOUS
  <2>2. DOMAIN d = 1..(l + n)
    BY <1>3, LenProperties
  <2> HIDE DEF part
  <2> QED
    BY <2>1, <2>2
<1>5. parts(md) \in Seq(Seq(Nat)) /\ Len(parts(md)) = l
      /\ \A i \in 1..l : parts(md)[i] = part(md, i)
  <2>1. \A i \in 1..l : part(md, i) \in Seq(Nat)
    OBVIOUS
  <2>2. DOMAIN md = 1..l
    BY <1>1, LenProperties
  <2> HIDE DEF part
  <2> QED
    BY <2>1, <2>2
<1>6. rest \in Seq(Seq(Nat)) /\ Len(rest) = n
  <2>1. \A k \in 1..n : (IF v = "openrouter" THEN <<>> ELSE <<Len(md) + k>>) \in Seq(Nat)
    BY <1>1
  <2> QED
    BY <2>1
<1>7. parts(d) = parts(md) \o rest
  <2>1. PICK p, q, r, T : p = parts(md) /\ q = rest /\ r = parts(d) /\ T = Seq(Nat)
    OBVIOUS
  <2>2. p \in Seq(T) /\ q \in Seq(T) /\ r \in Seq(T) /\ Len(p) = l /\ Len(q) = n /\ Len(r) = l + n
    BY <1>4, <1>5, <1>6, <2>1
  <2>3. p \o q \in Seq(T) /\ Len(p \o q) = l + n
        /\ \A i \in 1..(l + n) : (p \o q)[i] = IF i <= l THEN p[i] ELSE q[i - l]
    <3>1. p \in Seq(T) /\ q \in Seq(T) /\ Len(p) = l /\ Len(q) = n
      BY <2>2
    <3> HIDE DEF parts, part, rest, new
    <3>2. p \o q \in Seq(T) /\ Len(p \o q) = Len(p) + Len(q)
      BY <3>1, ConcatProperties
    <3>3. \A i \in 1..(Len(p) + Len(q)) : (p \o q)[i] = IF i <= Len(p) THEN p[i] ELSE q[i - Len(p)]
      BY <3>1, ConcatProperties
    <3> QED
      BY <3>1, <3>2, <3>3
  <2>4. ASSUME NEW i \in 1..(l + n) PROVE r[i] = (p \o q)[i]
    <3>1. CASE i <= l
      <4>1. i \in 1..l /\ d[i] = md[i]
        BY <1>3, <3>1
      <4>2. r[i] = part(md, i)
        BY <1>4, <2>1, <4>1
      <4>3. p[i] = part(md, i)
        BY <1>5, <2>1, <4>1
      <4> HIDE DEF part, parts, rest, new
      <4> QED
        BY <2>3, <3>1, <4>2, <4>3
    <3>2. CASE i > l
      <4>1. i - l \in 1..n /\ ~(i <= l)
        BY <3>2
      <4>2. PICK k \in 1..n : k = i - l /\ i = l + k
        <5>1. PICK k : k = i - l
          OBVIOUS
        <5> QED
          BY <4>1, <5>1
      <4>3. d[i] = v
        BY <1>3, <4>1, <4>2
      <4>4. r[i] = IF v = "openrouter" THEN <<>> ELSE <<l + k>>
        BY <1>4, <2>1, <4>2, <4>3
      <4>5. q[k] = IF v = "openrouter" THEN <<>> ELSE <<l + k>>
        BY <1>1, <2>1
      <4>6. (p \o q)[i] = q[k]
        <5> HIDE DEF part, parts, rest, new
        <5> QED
          BY <2>3, <4>1, <4>2
      <4> QED
        BY <4>4, <4>5, <4>6, Zenon
    <3>3. i <= l \/ i > l
      OBVIOUS
    <3> QED
      BY <3>1, <3>2, <3>3, Zenon
  <2> HIDE DEF parts, part, rest, new
  <2>5. PICK pq : pq = p \o q
    OBVIOUS
  <2>6. pq \in Seq(T) /\ r \in Seq(T) /\ Len(pq) = Len(r) /\ \A i \in 1..Len(r) : r[i] = pq[i]
    BY <2>2, <2>3, <2>4, <2>5
  <2>7. r = pq
    BY <2>6, SeqEqual
  <2> QED
    BY <2>1, <2>5, <2>7
<1>8. FlattenSeq(parts(d)) = FlattenSeq(parts(md)) \o FlattenSeq(rest)
  <2> HIDE DEF parts, rest, part
  <2> QED
    BY <1>5, <1>6, <1>7, FlattenConcat
<1>9. KnownOf(d) = FlattenSeq(parts(d)) /\ KnownOf(md) = FlattenSeq(parts(md))
  BY DEF KnownOf
<1>10. FlattenSeq(rest) = IF v = "openrouter" THEN <<>> ELSE [k \in 1..n |-> Len(md) + k]
  <2>1. CASE v = "openrouter"
    <3>1. \A k \in 1..Len(rest) : rest[k] = <<>>
      BY <1>6, <2>1
    <3> HIDE DEF rest
    <3> QED
      BY <1>6, <2>1, <3>1, FlattenEmpty
  <2>2. CASE v /= "openrouter"
    <3>0. PICK u : u = [k \in 1..n |-> Len(md) + k]
      OBVIOUS
    <3>1. u \in Seq(Nat) /\ Len(u) = n /\ \A k \in 1..n : u[k] = Len(md) + k
      <4>1. \A k \in 1..n : Len(md) + k \in Nat
        BY <1>1
      <4> QED
        BY <3>0, <4>1
    <3>2. rest = [k \in 1..Len(u) |-> <<u[k]>>]
      BY <2>2, <3>1
    <3>3. FlattenSeq([k \in 1..Len(u) |-> <<u[k]>>]) = u
      BY <3>1, FlattenSingles
    <3> HIDE DEF rest
    <3> QED
      BY <2>2, <3>0, <3>2, <3>3
  <2> QED
    BY <2>1, <2>2
<1> HIDE DEF parts, rest, new, part
<1>11. KnownOf(d) = KnownOf(md) \o FlattenSeq(rest)
  BY <1>8, <1>9
<1> USE DEF new
<1> QED
  BY <1>2, <1>10, <1>11, Zenon

LEMMA KnownType ==
    ASSUME NEW md \in Seq(Types)
    PROVE  KnownOf(md) \in Seq(Nat)
<1> DEFINE part(n) == IF md[n] = "openrouter" THEN <<>> ELSE <<n>>
           parts == [n \in DOMAIN md |-> part(n)]
<1>1. PICK l \in Nat : DOMAIN md = 1..l
  BY LenProperties
<1>2. \A n \in 1..l : part(n) \in Seq(Nat)
  OBVIOUS
<1>3. parts \in Seq(Seq(Nat))
  <2> HIDE DEF part
  <2> QED
    BY <1>1, <1>2
<1>4. KnownOf(md) = FlattenSeq(parts)
  BY DEF KnownOf
<1> HIDE DEF parts
<1> QED
  BY <1>3, <1>4, FlattenIsSeq

-----------------------------------------------------------------------------
(* Requests *)

LEMMA MinOfNaturals ==
    ASSUME NEW S, S \subseteq Nat, S /= {}
    PROVE  Min(S) \in S /\ \A y \in S : Min(S) <= y
<1>1. \E x \in S : \A y \in S : x <= y
  BY LeastNatural
<1> QED
  BY <1>1 DEF Min

Systems(ms) == {i \in 1..Len(ms) : GivesSystem(ms[i])}

LEMMA FirstSystemIs ==
    ASSUME NEW ms, Len(ms) \in Nat
    PROVE  FirstSystem(ms) = IF Systems(ms) = {} THEN <<>> ELSE ms[Min(Systems(ms))].text
<1>1. SelectInSeq(ms, GivesSystem) = IF Systems(ms) = {} THEN 0 ELSE Min(Systems(ms))
  BY DEF SelectInSeq, Systems
<1>2. Systems(ms) /= {} => Min(Systems(ms)) /= 0
  <2>1. Systems(ms) \subseteq Nat /\ 0 \notin Systems(ms)
    BY DEF Systems
  <2> QED
    BY <2>1, MinOfNaturals
<1> QED
  BY <1>1, <1>2 DEF FirstSystem

LEMMA NoFirstSystem ==
    ASSUME NEW ms, Len(ms) \in Nat, \A i \in 1..Len(ms) : ~IsSystem(ms[i])
    PROVE  FirstSystem(ms) = <<>>
<1>1. Systems(ms) = {}
  BY DEF Systems, GivesSystem
<1> QED
  BY <1>1, FirstSystemIs

LEMMA SameFirstSystem ==
    ASSUME NEW ms, Len(ms) \in Nat, NEW ns, Len(ns) = Len(ms),
           \A i \in 1..Len(ms) : ns[i].role = ms[i].role /\ ns[i].text = ms[i].text
    PROVE  FirstSystem(ns) = FirstSystem(ms)
<1>1. Systems(ns) = Systems(ms)
  BY DEF Systems, GivesSystem, IsSystem
<1>2. CASE Systems(ms) = {}
  BY <1>1, <1>2, FirstSystemIs
<1>3. CASE Systems(ms) /= {}
  <2>1. Systems(ms) \subseteq Nat /\ Systems(ms) \subseteq 1..Len(ms)
    BY DEF Systems
  <2>2. PICK i \in 1..Len(ms) : i = Min(Systems(ms))
    BY <1>3, <2>1, MinOfNaturals
  <2> QED
    BY <1>1, <1>3, <2>2, FirstSystemIs
<1> QED
  BY <1>2, <1>3

LEMMA FirstSystemAdded ==
    ASSUME NEW ms, Len(ms) \in Nat \ {0}, GivesSystem(ms[1])
    PROVE  FirstSystem(ms) = ms[1].text
<1>1. 1 \in Systems(ms) /\ Systems(ms) \subseteq Nat /\ \A i \in Systems(ms) : i >= 1
  BY DEF Systems
<1>2. Min(Systems(ms)) \in Systems(ms) /\ Min(Systems(ms)) <= 1
  BY <1>1, MinOfNaturals
<1>3. Min(Systems(ms)) = 1
  BY <1>1, <1>2
<1> QED
  BY <1>1, <1>3, FirstSystemIs

LEMMA ConvertKeeps ==
    ASSUME NEW m \in Said
    PROVE  /\ convertMessage(m) \in Entry
           /\ IsSystem(convertMessage(m)) <=> IsSystem(m)
           /\ convertMessage(m).link = m.link
           /\ convertMessage(m).calls = m.calls
<1>1. CASE m.role = "tool"
  <2>1. m.calls = <<>>
    BY <1>1 DEF Said
  <2>2. convertMessage(m) = [role |-> "user", text |-> m.text, link |-> m.link, calls |-> <<>>]
    BY <1>1 DEF convertMessage, Message
  <2>3. <<>> \in Seq(Ids)
    OBVIOUS
  <2>4. m.text \in Seq(Pieces) /\ m.link \in Nat
    BY DEF Said, Entry
  <2>5. PICK c : c = convertMessage(m)
    OBVIOUS
  <2>6. c.role = "user" /\ c.link = m.link /\ c.calls = <<>>
    BY <2>2, <2>5
  <2>7. c \in Entry
    <3>1. PICK e, f, g, I : e = <<>> /\ f = m.text /\ g = m.link /\ I = Seq(Ids)
      OBVIOUS
    <3>2. c = [role |-> "user", text |-> f, link |-> g, calls |-> e]
      BY <2>2, <2>5, <3>1
    <3>3. f \in Seq(Pieces) /\ g \in Nat /\ e \in I
      BY <2>3, <2>4, <3>1
    <3>4. Entry = [role : Roles, text : Seq(Pieces), link : Nat, calls : I]
      BY <3>1 DEF Entry
    <3> HIDE DEF Ids
    <3> QED
      BY <3>2, <3>3, <3>4 DEF Roles
  <2> QED
    BY <1>1, <2>1, <2>5, <2>6, <2>7 DEF IsSystem
<1>2. CASE m.role /= "tool"
  BY <1>2 DEF Said, convertMessage
<1> QED
  BY <1>1, <1>2

Plain == {m \in Entry : ~IsSystem(m)}

\* The messages that anthropic is sent of a part of the conversation.
Converted(ms) ==
    FlattenSeq([i \in DOMAIN ms |-> IF IsSystem(ms[i]) THEN <<>> ELSE <<convertMessage(ms[i])>>])

LEMMA ConvertedOf ==
    ASSUME NEW S, NEW ms, NEW l \in Nat, DOMAIN ms = 1..l,
           \A i \in 1..l : ~IsSystem(ms[i]) => convertMessage(ms[i]) \in S
    PROVE  /\ [i \in DOMAIN ms |-> IF IsSystem(ms[i]) THEN <<>> ELSE <<convertMessage(ms[i])>>]
                  \in Seq(Seq(S))
           /\ Converted(ms) \in Seq(S)
<1> DEFINE part(i) == IF IsSystem(ms[i]) THEN <<>> ELSE <<convertMessage(ms[i])>>
           parts == [i \in DOMAIN ms |-> part(i)]
<1>1. ASSUME NEW i \in 1..l PROVE part(i) \in Seq(S)
  <2>1. CASE IsSystem(ms[i])
    BY <2>1
  <2>2. CASE ~IsSystem(ms[i])
    <3>1. PICK c \in S : c = convertMessage(ms[i])
      BY <2>2
    <3>2. part(i) = <<c>>
      BY <2>2, <3>1
    <3> HIDE DEF part
    <3> QED
      BY <3>2
  <2> QED
    BY <2>1, <2>2
<1>2. parts \in Seq(Seq(S))
  <2> HIDE DEF part
  <2> QED
    BY <1>1
<1>3. Converted(ms) = FlattenSeq(parts)
  BY DEF Converted
<1>4. Converted(ms) \in Seq(S)
  <2> HIDE DEF parts
  <2> QED
    BY <1>2, <1>3, FlattenIsSeq
<1> QED
  BY <1>2, <1>4

LEMMA ConvertedParts ==
    ASSUME NEW ms \in Seq(Said)
    PROVE  /\ [i \in DOMAIN ms |-> IF IsSystem(ms[i]) THEN <<>> ELSE <<convertMessage(ms[i])>>]
                  \in Seq(Seq(Plain))
           /\ Converted(ms) \in Seq(Plain)
<1>1. PICK l \in Nat : DOMAIN ms = 1..l /\ \A i \in 1..l : ms[i] \in Said
  BY LenProperties, ElementOfSeq
<1>2. \A i \in 1..l : ~IsSystem(ms[i]) => convertMessage(ms[i]) \in Plain
  BY <1>1, ConvertKeeps DEF Plain
<1> QED
  BY <1>1, <1>2, ConvertedOf

LEMMA ConvertedConcat ==
    ASSUME NEW o \in Seq(Said), NEW t \in Seq(Said)
    PROVE  Converted(o \o t) = Converted(o) \o Converted(t)
<1> DEFINE part(m) == IF IsSystem(m) THEN <<>> ELSE <<convertMessage(m)>>
<1>1. PICK f : f = [m \in Said |-> part(m)]
  OBVIOUS
<1>2. f \in [Said -> Seq(Plain)]
  <2>1. ASSUME NEW m \in Said PROVE part(m) \in Seq(Plain)
    <3>1. CASE IsSystem(m)
      BY <3>1
    <3>2. CASE ~IsSystem(m)
      <4>1. PICK c \in Plain : c = convertMessage(m)
        BY <3>2, ConvertKeeps DEF Plain
      <4>2. part(m) = <<c>>
        BY <3>2, <4>1
      <4> HIDE DEF part
      <4> QED
        BY <4>2
    <3> QED
      BY <3>1, <3>2
  <2> HIDE DEF part
  <2> QED
    BY <1>1, <2>1
<1>3. ASSUME NEW ms \in Seq(Said) PROVE Converted(ms) = FlattenSeq(Mapped(f, ms))
  <2>1. PICK n \in Nat : DOMAIN ms = 1..n /\ \A i \in 1..n : ms[i] \in Said
    BY LenProperties, ElementOfSeq
  <2>2. [i \in DOMAIN ms |-> part(ms[i])] = Mapped(f, ms)
    <3> HIDE DEF part
    <3> QED
      BY <1>1, <2>1 DEF Mapped
  <2> QED
    BY <2>2 DEF Converted
<1>4. PICK p, q, ms, S, P : /\ p = Mapped(f, o) /\ q = Mapped(f, t) /\ ms = o \o t
                            /\ S = Said /\ P = Plain
  OBVIOUS
<1>5. PICK T : T = Seq(P)
  OBVIOUS
<1> HIDE DEF part
<1>6. f \in [S -> T] /\ o \in Seq(S) /\ t \in Seq(S)
  BY <1>2, <1>4, <1>5
<1>7. p \in Seq(T) /\ q \in Seq(T)
  BY <1>4, <1>6, MappedSeq
<1>8. FlattenSeq(p \o q) = FlattenSeq(p) \o FlattenSeq(q)
  BY <1>5, <1>7, FlattenConcat
<1>9. Mapped(f, ms) = p \o q /\ ms \in Seq(S)
  <2>1. MapsParts(f, o, t)
    BY <1>6, MappedConcat
  <2>2. o \o t \in Seq(S)
    BY <1>6, ConcatProperties
  <2> QED
    BY <1>4, <2>1, <2>2 DEF MapsParts
<1> QED
  BY <1>3, <1>4, <1>8, <1>9

\* Without system messages every message keeps its place, its link and its calls.
LEMMA ConvertedAnswers ==
    ASSUME NEW t \in Seq(Said), \A i \in 1..Len(t) : ~IsSystem(t[i]), Linked(t)
    PROVE  Linked(Converted(t)) /\ AllCalls(Converted(t)) = AllCalls(t)
<1> DEFINE u == [i \in 1..Len(t) |-> convertMessage(t[i])]
<1>1. PICK n \in Nat : n = Len(t) /\ DOMAIN t = 1..n /\ \A i \in 1..n : t[i] \in Said
  BY LenProperties, ElementOfSeq
<1>2. \A i \in 1..n : /\ convertMessage(t[i]) \in Entry
                      /\ convertMessage(t[i]).link = t[i].link
                      /\ convertMessage(t[i]).calls = t[i].calls
  BY <1>1, ConvertKeeps
<1>3. PICK v : v = u
  OBVIOUS
<1>4. v \in Seq(Entry) /\ Len(v) = n /\ \A i \in 1..n : v[i] = convertMessage(t[i])
  BY <1>1, <1>2, <1>3
<1>5. Converted(t) = v
  <2>1. [i \in DOMAIN t |-> IF IsSystem(t[i]) THEN <<>> ELSE <<convertMessage(t[i])>>]
            = [i \in 1..Len(v) |-> <<v[i]>>]
    <3>1. \A i \in 1..n : ~IsSystem(t[i])
      BY <1>1
    <3> HIDE DEF u
    <3> QED
      BY <1>1, <1>4, <3>1
  <2>2. FlattenSeq([i \in 1..Len(v) |-> <<v[i]>>]) = v
    BY <1>4, FlattenSingles
  <2> QED
    BY <2>1, <2>2 DEF Converted
<1>6. \A i \in 1..n : v[i].link = t[i].link /\ v[i].calls = t[i].calls
  BY <1>2, <1>4
<1> HIDE DEF u
<1>7. Linked(v)
  <2>1. ASSUME NEW i \in 1..n, NEW k \in 1..Len(v[i].calls)
        PROVE  i + k \in 1..n /\ v[i + k].link = v[i].calls[k]
    <3>1. i + k \in 1..n /\ t[i + k].link = t[i].calls[k]
      BY <1>1, <1>6 DEF Linked
    <3> QED
      BY <1>6, <3>1
  <2> QED
    BY <1>4, <2>1 DEF Linked
<1>8. AllCalls(v) = AllCalls(t)
  <2>1. DOMAIN v = DOMAIN t
    BY <1>1, <1>4, LenProperties
  <2>2. [i \in DOMAIN v |-> v[i].calls] = [i \in DOMAIN t |-> t[i].calls]
    BY <1>1, <1>6, <2>1
  <2> QED
    BY <2>2 DEF AllCalls
<1> QED
  BY <1>5, <1>7, <1>8

\* A conversation is what it opened with and what was said since: system messages
\* and nothing that is linked in the one, answers and results in the other.
TalkOf(ms, o, t) ==
    /\ o \in Seq(Said) /\ t \in Seq(Said) /\ ms = o \o t
    /\ Quiet(o)
    /\ \A i \in 1..Len(t) : ~IsSystem(t[i])
    /\ Linked(t)

LEMMA SaidIsEntry == Said \subseteq Entry
BY DEF Said

LEMMA AnthropicLinked ==
    ASSUME NEW ms, NEW o, NEW t, TalkOf(ms, o, t)
    PROVE  LET w == WireAnthropic(ms).messages IN Linked(w) /\ AllCalls(w) = AllCalls(t)
<1>1. o \in Seq(Said) /\ t \in Seq(Said) /\ ms = o \o t
  BY DEF TalkOf
<1>2. WireAnthropic(ms).messages = Converted(ms)
  BY DEF WireAnthropic, Converted
<1>3. PICK p, u : p = Converted(o) /\ u = Converted(t)
  OBVIOUS
<1>4. Converted(ms) = p \o u
  BY <1>1, <1>3, ConvertedConcat
<1>5. p \in Seq(Plain) /\ u \in Seq(Plain) /\ Plain \subseteq Entry
  BY <1>1, <1>3, ConvertedParts DEF Plain
<1>6. Quiet(p)
  <2>1. PICK l \in Nat : l = Len(o) /\ DOMAIN o = 1..l /\ \A i \in 1..l : o[i] \in Said
    BY <1>1, LenProperties, ElementOfSeq
  <2>2. \A i \in 1..l : convertMessage(o[i]) \in {m \in Entry : m.calls = <<>>}
    <3>1. \A i \in 1..l : o[i].calls = <<>>
      BY <2>1 DEF TalkOf, Quiet
    <3> QED
      BY <2>1, <3>1, ConvertKeeps
  <2>3. PICK S : S = {m \in Entry : m.calls = <<>>}
    OBVIOUS
  <2>4. p \in Seq(S)
    BY <1>3, <2>1, <2>2, <2>3, ConvertedOf
  <2> QED
    BY <2>3, <2>4, ElementOfSeq DEF Quiet
<1>7. Linked(u) /\ AllCalls(u) = AllCalls(t)
  BY <1>1, <1>3, ConvertedAnswers DEF TalkOf
<1>8. Linked(p \o u) /\ AllCalls(p \o u) = AllCalls(u)
  BY <1>5, <1>6, <1>7, QuietPrefix
<1> QED
  BY <1>2, <1>4, <1>7, <1>8

SystemMessage == Message("system", system, 0, <<>>)

LEMMA SystemMessageIs ==
    ASSUME system \in Seq(Pieces)
    PROVE  /\ SystemMessage \in Entry /\ IsSystem(SystemMessage)
           /\ SystemMessage.calls = <<>> /\ SystemMessage.text = system
<1>1. PICK e, P, I : e = <<>> /\ P = Seq(Pieces) /\ I = Seq(Ids)
  OBVIOUS
<1>2. e \in I /\ system \in P
  BY <1>1
<1>3. SystemMessage = [role |-> "system", text |-> system, link |-> 0, calls |-> e]
  BY <1>1 DEF SystemMessage, Message
<1>4. Entry = [role : Roles, text : P, link : Nat, calls : I]
  BY <1>1 DEF Entry
<1>5. SystemMessage \in Entry
  BY <1>2, <1>3, <1>4 DEF Roles
<1> QED
  BY <1>1, <1>3, <1>5 DEF IsSystem

\* A system message in front of the conversation belongs to its opening.
LEMMA PrependedParts ==
    ASSUME system \in Seq(Pieces), NEW ms, NEW o, NEW t, TalkOf(ms, o, t)
    PROVE  \E p \in Seq(Entry) : Quiet(p) /\ Prepended(ms) = p \o t
<1>1. o \in Seq(Entry) /\ t \in Seq(Entry) /\ ms = o \o t /\ Quiet(o)
  BY SaidIsEntry DEF TalkOf
<1>2. CASE system = <<>>
  BY <1>1, <1>2 DEF Prepended
<1>3. CASE system /= <<>>
  <2>1. PICK x \in Entry : x = SystemMessage /\ x.calls = <<>>
    BY SystemMessageIs
  <2>2. PICK p : p = <<x>> \o o
    OBVIOUS
  <2>3. <<x>> \in Seq(Entry) /\ Len(<<x>>) = 1 /\ <<x>>[1] = x
    OBVIOUS
  <2>4. p \in Seq(Entry) /\ Len(p) = 1 + Len(o) /\ Len(o) \in Nat
        /\ \A i \in 1..(1 + Len(o)) : p[i] = IF i <= 1 THEN <<x>>[i] ELSE o[i - 1]
    BY <1>1, <2>2, <2>3, ConcatProperties, LenProperties
  <2>5. Quiet(p)
    <3>1. ASSUME NEW i \in 1..(1 + Len(o)) PROVE p[i].calls = <<>>
      <4>1. CASE i = 1
        BY <2>1, <2>3, <2>4, <4>1
      <4>2. CASE i /= 1
        <5>1. i - 1 \in 1..Len(o) /\ ~(i <= 1)
          BY <2>4, <4>2
        <5>2. p[i] = o[i - 1]
          BY <2>4, <5>1
        <5> QED
          BY <1>1, <5>1, <5>2 DEF Quiet
      <4> QED
        BY <4>1, <4>2
    <3> QED
      BY <2>4, <3>1 DEF Quiet
  <2>6. Prepended(ms) = <<x>> \o ms
    BY <1>3, <2>1 DEF Prepended, SystemMessage
  <2>7. p \o t = <<x>> \o ms
    <3>1. Regroups(<<x>>, o, t)
      BY <1>1, <2>3, Regrouping
    <3> QED
      BY <1>1, <2>2, <3>1 DEF Regroups
  <2> QED
    BY <2>4, <2>5, <2>6, <2>7
<1> QED
  BY <1>2, <1>3

LEMMA OpenAILinked ==
    ASSUME system \in Seq(Pieces), NEW ms, NEW o, NEW t, TalkOf(ms, o, t)
    PROVE  LET w == WireOpenAI(ms).messages IN Linked(w) /\ AllCalls(w) = AllCalls(t)
<1>1. PICK p \in Seq(Entry) : Quiet(p) /\ Prepended(ms) = p \o t
  BY PrependedParts
<1>2. t \in Seq(Entry) /\ Linked(t)
  BY SaidIsEntry DEF TalkOf
<1>3. Linked(p \o t) /\ AllCalls(p \o t) = AllCalls(t)
  BY <1>1, <1>2, QuietPrefix
<1> QED
  BY <1>1, <1>3 DEF WireOpenAI

Governs(w, ms) ==
    (IF w.system /= <<>> THEN w.system ELSE FirstSystem(w.messages))
        = IF system /= <<>> THEN system ELSE FirstSystem(ms)

LEMMA PrependedGoverns ==
    ASSUME system \in Seq(Pieces), NEW ms \in Seq(Said)
    PROVE  /\ Prepended(ms) \in Seq(Entry)
           /\ FirstSystem(Prepended(ms)) = IF system /= <<>> THEN system ELSE FirstSystem(ms)
<1>1. ms \in Seq(Entry)
  BY SaidIsEntry
<1>2. CASE system = <<>>
  BY <1>1, <1>2 DEF Prepended
<1>3. CASE system /= <<>>
  <2>1. PICK x \in Entry : x = SystemMessage /\ IsSystem(x) /\ x.text = system
    BY SystemMessageIs
  <2>2. PICK ns : ns = <<x>> \o ms
    OBVIOUS
  <2>3. <<x>> \in Seq(Entry) /\ Len(<<x>>) = 1 /\ <<x>>[1] = x
    OBVIOUS
  <2>4. ns \in Seq(Entry) /\ Len(ns) = 1 + Len(ms) /\ Len(ms) \in Nat /\ ns[1] = <<x>>[1]
    BY <1>1, <2>2, <2>3, ConcatProperties, LenProperties
  <2>5. FirstSystem(ns) = system
    BY <1>3, <2>1, <2>3, <2>4, FirstSystemAdded DEF GivesSystem
  <2>6. Prepended(ms) = ns
    BY <1>3, <2>1, <2>2 DEF Prepended, SystemMessage
  <2> QED
    BY <1>3, <2>4, <2>5, <2>6
<1> QED
  BY <1>2, <1>3

LEMMA RequestGoverns ==
    ASSUME system \in Seq(Pieces), NEW ms \in Seq(Said), NEW type
    PROVE  Governs(buildRequest(type, ms), ms)
<1>1. CASE type = "anthropic"
  <2>1. PICK w : w = WireAnthropic(ms)
    OBVIOUS
  <2>2. w.messages = Converted(ms) /\ w.system = IF system = <<>> THEN FirstSystem(ms) ELSE system
    BY <2>1 DEF WireAnthropic, Converted
  <2>3. Converted(ms) \in Seq(Plain)
    BY ConvertedParts
  <2>4. FirstSystem(Converted(ms)) = <<>>
    <3>1. Len(Converted(ms)) \in Nat
      BY <2>3, LenProperties
    <3>2. \A i \in 1..Len(Converted(ms)) : ~IsSystem(Converted(ms)[i])
      BY <2>3, ElementOfSeq DEF Plain
    <3> QED
      BY <3>1, <3>2, NoFirstSystem
  <2>5. buildRequest(type, ms) = w
    BY <1>1, <2>1 DEF buildRequest
  <2> QED
    BY <2>2, <2>4, <2>5 DEF Governs
<1>2. CASE type = "openrouter"
  <2>1. PICK ns \in Seq(Entry) : ns = Prepended(ms)
    BY PrependedGoverns
  <2>2. PICK us : us = [i \in DOMAIN ns |-> [ns[i] EXCEPT !.link = 0, !.calls = <<>>]]
    OBVIOUS
  <2>3. PICK n \in Nat : n = Len(ns) /\ DOMAIN ns = 1..n /\ \A i \in 1..n : ns[i] \in Entry
    BY LenProperties, ElementOfSeq
  <2>4. Len(us) = n /\ \A i \in 1..n : us[i].role = ns[i].role /\ us[i].text = ns[i].text
    <3>1. \A i \in 1..n : us[i] = [ns[i] EXCEPT !.link = 0, !.calls = <<>>]
      BY <2>2, <2>3
    <3>2. Len(us) = n
      <4> DEFINE bare(m) == [m EXCEPT !.link = 0, !.calls = <<>>]
      <4>1. PICK S : S = {bare(ns[i]) : i \in 1..n}
        OBVIOUS
      <4>2. \A i \in 1..n : bare(ns[i]) \in S
        BY <4>1
      <4>3. us = [i \in 1..n |-> bare(ns[i])]
        BY <2>2, <2>3
      <4> HIDE DEF bare
      <4> QED
        BY <4>2, <4>3
    <3>3. ASSUME NEW m \in Entry
          PROVE  LET u == [m EXCEPT !.link = 0, !.calls = <<>>] IN u.role = m.role /\ u.text = m.text
      BY DEF Entry
    <3> QED
      BY <2>3, <3>1, <3>2, <3>3
  <2>5. FirstSystem(us) = FirstSystem(ns)
    BY <2>3, <2>4, SameFirstSystem
  <2>6. PICK w : w = WireOpenRouter(ms)
    OBVIOUS
  <2>7. w.messages = us /\ w.system = <<>>
    BY <2>1, <2>2, <2>6 DEF WireOpenRouter
  <2>8. buildRequest(type, ms) = w
    BY <1>2, <2>6 DEF buildRequest
  <2> QED
    BY <2>1, <2>5, <2>7, <2>8, PrependedGoverns DEF Governs
<1>3. CASE type /= "anthropic" /\ type /= "openrouter"
  <2>1. PICK w : w = WireOpenAI(ms)
    OBVIOUS
  <2>2. w.system = <<>> /\ w.messages = Prepended(ms)
    BY <2>1 DEF WireOpenAI
  <2>3. buildRequest(type, ms) = w
    BY <1>3, <2>1 DEF buildRequest
  <2> QED
    BY <2>2, <2>3, PrependedGoverns DEF Governs
<1> QED
  BY <1>1, <1>2, <1>3

-----------------------------------------------------------------------------
(* Answers and turns *)

\* The blocks of ApiReplies when m calls were made before.
BlocksOf(blocks, m) ==
    [i \in DOMAIN blocks |->
        IF blocks[i] = "text" THEN [kind |-> "text", text |-> "said"]
        ELSE [kind |-> "call", call |-> m + Cardinality({j \in 1..i : blocks[j] /= "text"})]]

\* The calls of an answer are numbered on from those made before.
LEMMA CallsAreNumbered ==
    ASSUME NEW m \in Nat, NEW n \in Nat, NEW blocks, DOMAIN blocks = 1..n,
           NEW said, said = BlocksOf(blocks, m)
    PROVE  \E c \in Nat :
               /\ CallsOf(said) = Numbers(m, c)
               /\ c = 0 <=> \A i \in 1..n : blocks[i] = "text"
<1> DEFINE C == {i \in 1..n : blocks[i] /= "text"}
           id(i) == m + Cardinality({j \in 1..i : blocks[j] /= "text"})
           num(i) == m + Cardinality({j \in 1..i : j \in C})
<1>1. \A i \in 1..n : id(i) = num(i)
  <2>1. TAKE i \in 1..n
  <2>2. {j \in 1..i : blocks[j] /= "text"} = {j \in 1..i : j \in C}
    OBVIOUS
  <2> QED
    BY <2>2
<1>2. \A i \in 1..n : said[i] = IF blocks[i] = "text" THEN [kind |-> "text", text |-> "said"]
                                ELSE [kind |-> "call", call |-> id(i)]
  BY DEF BlocksOf
<1>3. \A i \in 1..n : (IF said[i].kind = "call" THEN <<said[i].call>> ELSE <<>>)
                          = IF i \in C THEN <<num(i)>> ELSE <<>>
  <2>1. TAKE i \in 1..n
  <2>2. CASE i \in C
    <3>1. PICK x : x = id(i)
      OBVIOUS
    <3>2. said[i] = [kind |-> "call", call |-> x]
      BY <1>2, <2>2, <3>1
    <3>3. said[i].kind = "call" /\ said[i].call = x
      BY <3>2
    <3>4. num(i) = x
      BY <1>1, <3>1
    <3> HIDE DEF C, num, id
    <3> QED
      BY <2>2, <3>3, <3>4
  <2>3. CASE i \notin C
    <3>1. said[i] = [kind |-> "text", text |-> "said"]
      BY <1>2, <2>3
    <3>2. said[i].kind /= "call"
      BY <3>1
    <3> HIDE DEF C, num, id
    <3> QED
      BY <2>3, <3>2
  <2> QED
    BY <2>2, <2>3
<1>4. DOMAIN said = 1..n
  BY DEF BlocksOf
<1>5. CallsOf(said) = FlattenSeq([i \in 1..n |-> IF i \in C THEN <<num(i)>> ELSE <<>>])
  <2>1. [i \in DOMAIN said |-> IF said[i].kind = "call" THEN <<said[i].call>> ELSE <<>>]
            = [i \in 1..n |-> IF i \in C THEN <<num(i)>> ELSE <<>>]
    <3> HIDE DEF C, num, id
    <3> QED
      BY <1>3, <1>4
  <2> QED
    BY <2>1 DEF CallsOf
<1>6. {j \in 1..n : j \in C} = C
  OBVIOUS
<1>7. IsFiniteSet(C)
  <2>1. C \in SUBSET (1..n) /\ IsFiniteSet(1..n)
    BY FS_Interval
  <2> HIDE DEF C
  <2> QED
    BY <2>1, FS_Subset
<1>8. PICK c : c = Cardinality(C)
  OBVIOUS
<1>9. c \in Nat /\ (c = 0 <=> C = {})
  <2> HIDE DEF C
  <2> QED
    BY <1>7, <1>8, FS_CardinalityType, FS_EmptySet
<1>10. FlattenSeq([i \in 1..n |-> IF i \in C THEN <<num(i)>> ELSE <<>>])
           = [k \in 1..c |-> m + k]
  <2>1. NumbersOf(m, n, C) = FlattenSeq([i \in 1..n |-> IF i \in C THEN <<num(i)>> ELSE <<>>])
    BY DEF NumbersOf, CountTo
  <2>2. Numbers(m, CountTo(n, C)) = [k \in 1..c |-> m + k]
    BY <1>6, <1>8 DEF Numbers, CountTo
  <2>3. NumbersOf(m, n, C) = Numbers(m, CountTo(n, C))
    <3> HIDE DEF C
    <3> QED
      BY FlattenNumbers
  <2> HIDE DEF C, num
  <2> QED
    BY <2>1, <2>2, <2>3
<1>11. C = {} <=> \A i \in 1..n : blocks[i] = "text"
  OBVIOUS
<1> HIDE DEF C, num, id
<1> QED
  BY <1>5, <1>9, <1>10, <1>11 DEF Numbers

LEMMA TextIsPieces ==
    ASSUME NEW n \in Nat, NEW said, DOMAIN said = 1..n,
           \A i \in 1..n : said[i].kind = "text" => said[i].text \in Pieces
    PROVE  TextOf(said) \in Seq(Pieces)
<1> DEFINE part(i) == IF said[i].kind = "text" THEN <<said[i].text>> ELSE <<>>
           parts == [i \in DOMAIN said |-> part(i)]
<1>1. PICK P : P = Pieces
  OBVIOUS
<1>2. \A i \in 1..n : part(i) \in Seq(P)
  BY <1>1
<1>3. parts \in Seq(Seq(P))
  <2> HIDE DEF part
  <2> QED
    BY <1>2
<1>4. TextOf(said) = FlattenSeq(parts)
  BY DEF TextOf
<1> HIDE DEF parts
<1> QED
  BY <1>1, <1>3, <1>4, FlattenIsSeq

\* An answer and, behind it, the result of each of its calls.
LEMMA TurnIsLinked ==
    ASSUME NEW t \in Seq(Said), Linked(t), \A i \in 1..Len(t) : ~IsSystem(t[i]),
           NEW a \in Said, ~IsSystem(a),
           NEW rest \in Seq(Said), Quiet(rest), \A i \in 1..Len(rest) : ~IsSystem(rest[i]),
           \A k \in 1..Len(a.calls) : k \in 1..Len(rest) /\ rest[k].link = a.calls[k]
    PROVE  LET u == t \o (<<a>> \o rest)
           IN  /\ u \in Seq(Said) /\ Linked(u) /\ \A i \in 1..Len(u) : ~IsSystem(u[i])
               /\ AllCalls(u) = AllCalls(t) \o a.calls
<1>1. PICK v : v = <<a>> \o rest
  OBVIOUS
<1>2. PICK l \in Nat, r \in Nat : l = Len(t) /\ r = Len(rest)
  BY LenProperties
<1>3. <<a>> \in Seq(Said) /\ Len(<<a>>) = 1 /\ <<a>>[1] = a
  OBVIOUS
<1>4. v \in Seq(Said) /\ Len(v) = 1 + r
      /\ \A i \in 1..(1 + r) : v[i] = IF i <= 1 THEN <<a>>[i] ELSE rest[i - 1]
  BY <1>1, <1>2, <1>3, ConcatProperties
<1>5. v[1] = a
  BY <1>2, <1>3, <1>4
<1>6. \A k \in 1..r : v[k + 1] = rest[k] /\ k + 1 \in 1..(1 + r)
  <2>1. TAKE k \in 1..r
  <2>2. PICK i : i = k + 1
    OBVIOUS
  <2>3. i \in 1..(1 + r) /\ ~(i <= 1) /\ i - 1 = k
    BY <1>2, <2>2
  <2>4. v[i] = rest[i - 1]
    BY <1>4, <2>3
  <2> QED
    BY <2>2, <2>3, <2>4
<1>7. \A i \in 1..(1 + r) : i = 1 \/ \E k \in 1..r : i = k + 1
  <2>1. TAKE i \in 1..(1 + r)
  <2>2. SUFFICES ASSUME i /= 1 PROVE \E k \in 1..r : i = k + 1
    OBVIOUS
  <2>3. i - 1 \in 1..r /\ i = (i - 1) + 1
    BY <1>2, <2>2
  <2> QED
    BY <2>3
<1>8. \A i \in 1..(1 + r) : ~IsSystem(v[i])
  BY <1>2, <1>5, <1>6, <1>7
<1>9. Linked(v)
  <2>1. ASSUME NEW i \in 1..(1 + r), NEW k \in 1..Len(v[i].calls)
        PROVE  i + k \in 1..(1 + r) /\ v[i + k].link = v[i].calls[k]
    <3>1. CASE i = 1
      <4>1. k \in 1..r /\ rest[k].link = a.calls[k]
        BY <1>2, <1>5, <2>1, <3>1
      <4>2. v[k + 1] = rest[k] /\ k + 1 \in 1..(1 + r) /\ 1 + k = k + 1
        BY <1>6, <4>1
      <4> QED
        BY <1>5, <3>1, <4>1, <4>2
    <3>2. CASE i /= 1
      <4>1. PICK j \in 1..r : i = j + 1
        BY <1>7, <3>2
      <4>2. v[i].calls = <<>>
        BY <1>2, <1>6, <4>1 DEF Quiet
      <4> QED
        BY <2>1, <4>2
    <3> QED
      BY <3>1, <3>2
  <2> QED
    BY <1>4, <2>1 DEF Linked
<1>10. AllCalls(v) = a.calls
  <2>1. AllCalls(v) = AllCalls(<<a>>) \o AllCalls(rest)
    BY <1>1, <1>3, SaidIsEntry, AllCallsConcat
  <2>2. AllCalls(rest) = <<>>
    BY SaidIsEntry, AllCallsType
  <2>3. AllCalls(<<a>>) = a.calls
    <3>1. PICK cs \in Seq(Ids) : cs = a.calls
      BY DEF Said, Entry
    <3>2. [i \in DOMAIN <<a>> |-> <<a>>[i].calls] = <<cs>>
      BY <3>1
    <3>3. FlattenSeq(<<cs>>) = cs
      BY FlattenOne
    <3> QED
      BY <3>1, <3>2, <3>3 DEF AllCalls
  <2>4. a.calls \in Seq(Ids)
    BY DEF Said, Entry
  <2> QED
    BY <2>1, <2>2, <2>3, <2>4, ConcatEmptySeq
<1>11. PICK u : u = t \o v
  OBVIOUS
<1>12. u \in Seq(Said) /\ Len(u) = l + (1 + r)
       /\ \A i \in 1..(l + (1 + r)) : u[i] = IF i <= l THEN t[i] ELSE v[i - l]
  BY <1>2, <1>4, <1>11, ConcatProperties
<1>13. AllCalls(u) = AllCalls(t) \o a.calls
  BY <1>4, <1>10, <1>11, SaidIsEntry, AllCallsConcat
<1>14. \A i \in 1..(l + (1 + r)) :
           (i \in 1..l /\ u[i] = t[i]) \/ (i - l \in 1..(1 + r) /\ u[i] = v[i - l])
  BY <1>2, <1>12
<1>15. ASSUME NEW i \in 1..(l + (1 + r)) PROVE ~IsSystem(u[i])
  BY <1>2, <1>8, <1>14
<1>16. ASSUME NEW i \in 1..(l + (1 + r)), NEW k \in 1..Len(u[i].calls)
       PROVE  i + k \in 1..(l + (1 + r)) /\ u[i + k].link = u[i].calls[k]
  <2>1. u[i] \in Said
    BY <1>12, ElementOfSeq
  <2>2. k \in Nat
    <3>1. u[i].calls \in Seq(Ids)
      BY <2>1 DEF Said, Entry
    <3> QED
      BY <3>1, LenProperties
  <2>3. CASE i \in 1..l /\ u[i] = t[i]
    <3>1. i + k \in 1..l /\ t[i + k].link = t[i].calls[k]
      BY <1>2, <1>16, <2>3 DEF Linked
    <3>2. PICK j : j = i + k
      OBVIOUS
    <3>3. j \in 1..(l + (1 + r)) /\ j <= l
      BY <1>2, <3>1, <3>2
    <3>4. u[j] = t[j]
      BY <1>12, <3>3
    <3> QED
      BY <2>3, <3>1, <3>2, <3>3, <3>4
  <2>4. CASE i - l \in 1..(1 + r) /\ u[i] = v[i - l]
    <3>1. PICK j : j = i - l
      OBVIOUS
    <3>2. j \in 1..(1 + r) /\ u[i] = v[j] /\ k \in 1..Len(v[j].calls)
      BY <1>16, <2>4, <3>1
    <3>3. j + k \in 1..(1 + r) /\ v[j + k].link = v[j].calls[k]
      BY <1>4, <1>9, <3>2 DEF Linked
    <3>4. PICK q : q = i + k
      OBVIOUS
    <3>5. q \in 1..(l + (1 + r)) /\ ~(q <= l) /\ q - l = j + k
      BY <1>2, <2>2, <3>1, <3>2, <3>3, <3>4
    <3>6. u[q] = v[q - l]
      BY <1>12, <3>5
    <3> QED
      BY <3>2, <3>3, <3>4, <3>5, <3>6
  <2> QED
    BY <1>14, <2>3, <2>4
<1>17. Linked(u)
  BY <1>12, <1>16 DEF Linked
<1> QED
  BY <1>1, <1>11, <1>12, <1>13, <1>15, <1>17

-----------------------------------------------------------------------------
(* The invariant of the conversation *)

Answered(r) == ~r.error /\ r.text \in Seq(Pieces) /\ r.calls \in Seq(Ids)

\* The calls that an answer holds and the conversation does not yet.
Pending == IF at = "answered" /\ ~response.error THEN response.calls ELSE <<>>

DomainInv ==
    /\ RegistryInv
    /\ DOMAIN providers \subseteq Names /\ DOMAIN defaults \subseteq Types

CallerInv ==
    /\ system \in Seq(Pieces)
    /\ at \in {"turn", "asked", "replied", "answered"}
    /\ via \in Types \cup {"none"}
    /\ at /= "turn" => via \in Types
    /\ made \in Seq(Types)
    /\ at = "answered" => response = Failure \/ Answered(response)

TalkInv == \E o, t : TalkOf(messages, o, t) /\ AllCalls(t) \o Pending = KnownOf(made)

WireInv == at = "asked" => wire = buildRequest(via, messages)

ReplyOf(r, m) ==
    /\ TextOf(r.blocks) \in Seq(Pieces)
    /\ \E c \in Nat :
           /\ CallsOf(r.blocks) = Numbers(m, c)
           /\ r.choices = 0 => c = 0

ReplyInv == at = "replied" => ReplyOf(reply, Len(made))

ChatInv == DomainInv /\ CallerInv /\ TalkInv /\ WireInv /\ ReplyInv

LEMMA NumbersAreIds ==
    ASSUME NEW m \in Nat, NEW c \in Nat
    PROVE  /\ Numbers(m, c) \in Seq(Ids) /\ Len(Numbers(m, c)) = c
           /\ DOMAIN Numbers(m, c) = 1..c
           /\ c = 0 <=> Numbers(m, c) = <<>>
<1>1. \A k \in 1..c : m + k \in Ids
  BY DEF Ids
<1>2. Numbers(m, c) \in Seq(Ids) /\ Len(Numbers(m, c)) = c /\ DOMAIN Numbers(m, c) = 1..c
  <2> HIDE DEF Ids
  <2> QED
    BY <1>1 DEF Numbers
<1>3. c = 0 <=> Numbers(m, c) = <<>>
  BY <1>2, EmptySeq
<1> QED
  BY <1>2, <1>3

LEMMA InitChat == ChatInit => ChatInv
<1> SUFFICES ASSUME ChatInit PROVE ChatInv
  OBVIOUS
<1>1. DomainInv
  BY DEF ChatInit, RegistryInit, DomainInv, RegistryInv, DefaultIsOldest, Values, Nothing
<1>2. CallerInv
  <2>1. <<>> \in Seq(Types) /\ <<>> \in Seq(Pieces)
    OBVIOUS
  <2>2. "option" \in Pieces
    BY DEF Pieces
  <2>3. <<"option">> \in Seq(Pieces)
    BY <2>2
  <2> QED
    BY <2>1, <2>3 DEF ChatInit, CallerInv
<1>3. WireInv /\ ReplyInv
  BY DEF ChatInit, WireInv, ReplyInv
<1>4. messages \in Seq(Said) /\ Quiet(messages)
  <2>1. PICK R : R = [role : {"system", "user", "assistant"}, text : Seq(Piece),
                      link : {0}, calls : {<<>>}]
    OBVIOUS
  <2>2. messages \in Seq(R)
    BY <2>1 DEF ChatInit
  <2>3. ASSUME NEW m \in R PROVE m \in Said /\ m.calls = <<>>
    <3>1. PICK f, e, I : f = m.text /\ e = <<>> /\ I = Seq(Ids)
      OBVIOUS
    <3>2. e \in I /\ f \in Seq(Pieces)
      <4>1. f \in Seq(Piece)
        BY <2>1, <2>3, <3>1
      <4>2. Piece \subseteq Pieces
        BY DEF Pieces
      <4>3. f \in Seq(Pieces)
        BY <4>1, <4>2, WiderSeq
      <4>4. e \in I
        BY <3>1
      <4> QED
        BY <4>3, <4>4
    <3>3. Entry = [role : Roles, text : Seq(Pieces), link : Nat, calls : I]
      BY <3>1 DEF Entry
    <3>4. m = [role |-> m.role, text |-> f, link |-> 0, calls |-> e]
          /\ m.role \in {"system", "user", "assistant"}
      BY <2>1, <2>3, <3>1
    <3>5. m \in Entry
      BY <3>2, <3>3, <3>4 DEF Roles
    <3> QED
      BY <3>1, <3>4, <3>5 DEF Said
  <2>4. R \subseteq Said /\ \A i \in 1..Len(messages) : messages[i] \in R
    BY <2>2, <2>3, ElementOfSeq
  <2> QED
    BY <2>2, <2>3, <2>4 DEF Quiet
<1>5. TalkInv
  <2>1. TalkOf(messages, messages, <<>>)
    <3>1. <<>> \in Seq(Said) /\ Len(<<>>) = 0
      OBVIOUS
    <3>2. messages \o <<>> = messages
      BY <1>4, ConcatEmptySeq
    <3> QED
      BY <1>4, <3>1, <3>2 DEF TalkOf, Linked
  <2>2. AllCalls(<<>>) = <<>>
    <3>1. [i \in DOMAIN <<>> |-> <<>>[i].calls] = <<>>
      OBVIOUS
    <3> QED
      BY <3>1, FlattenNone DEF AllCalls
  <2>3. KnownOf(made) = <<>>
    <3>1. made = <<>>
      BY DEF ChatInit
    <3>2. [n \in DOMAIN made |-> IF made[n] = "openrouter" THEN <<>> ELSE <<n>>] = <<>>
      BY <3>1
    <3> QED
      BY <3>2, FlattenNone DEF KnownOf
  <2>4. Pending = <<>>
    BY DEF ChatInit, Pending
  <2>5. AllCalls(<<>>) \o Pending = KnownOf(made)
    BY <2>2, <2>3, <2>4
  <2> QED
    BY <2>1, <2>5 DEF TalkInv
<1> QED
  BY <1>1, <1>2, <1>3, <1>5 DEF ChatInv

\* A step that leaves the conversation and what is pending as they were.
LEMMA TalkStays ==
    ASSUME TalkInv, messages' = messages, made' = made, Pending' = Pending
    PROVE  TalkInv'
<1>1. PICK o, t : TalkOf(messages, o, t) /\ AllCalls(t) \o Pending = KnownOf(made)
  BY DEF TalkInv
<1>2. TalkOf(messages', o, t) /\ AllCalls(t) \o Pending' = KnownOf(made')
  BY <1>1
<1> QED
  BY <1>2 DEF TalkInv

LEMMA RegistryStep ==
    ASSUME ChatInv, RegistryNext, UNCHANGED chatVars
    PROVE  ChatInv'
<1>1. DomainInv'
  <2>1. PICK name \in Names, type \in Types : Register(name, type)
    BY DEF RegistryNext
  <2>2. RegistryInv'
    BY <2>1, RegisterStep DEF ChatInv, DomainInv
  <2>3. DOMAIN providers' \subseteq Names /\ DOMAIN defaults' \subseteq Types
    BY <2>1 DEF ChatInv, DomainInv, Register, Set
  <2> QED
    BY <2>2, <2>3 DEF DomainInv
<1>2. UNCHANGED <<system, messages, at, via, wire, reply, response, made>>
  BY DEF chatVars
<1>3. CallerInv' /\ ReplyInv'
  BY <1>2 DEF ChatInv, CallerInv, ReplyInv
<1>4. WireInv'
  BY <1>2 DEF ChatInv, WireInv, buildRequest, WireAnthropic, WireOpenRouter, WireOpenAI, Prepended
<1>5. TalkInv'
  BY <1>2, TalkStays DEF ChatInv, Pending
<1> QED
  BY <1>1, <1>3, <1>4, <1>5 DEF ChatInv

LEMMA DomainStays ==
    ASSUME DomainInv, UNCHANGED registryVars
    PROVE  DomainInv'
BY DEF registryVars, DomainInv, RegistryInv, DefaultIsOldest, Values, Models

LEMMA AskStep ==
    ASSUME ChatInv, Ask
    PROVE  ChatInv'
<1>1. at' = "asked" /\ UNCHANGED <<registryVars, system, messages, reply, made>>
  BY DEF Ask
<1>2. PICK m \in Obtainable : via' = m.type /\ wire' = buildRequest(m.type, messages)
  BY DEF Ask
<1>3. m.type \in Types
  BY DEF ChatInv, DomainInv, RegistryInv, Obtainable, Models
<1>4. DomainInv'
  BY <1>1, DomainStays DEF ChatInv
<1>5. CallerInv'
  BY <1>1, <1>2, <1>3 DEF ChatInv, CallerInv
<1>6. WireInv'
  BY <1>1, <1>2 DEF WireInv, buildRequest, WireAnthropic, WireOpenRouter, WireOpenAI, Prepended
<1>7. ReplyInv'
  BY <1>1 DEF ReplyInv
<1>8. TalkInv'
  <2>1. Pending = <<>> /\ Pending' = <<>>
    BY <1>1 DEF Ask, Pending
  <2> QED
    BY <1>1, <2>1, TalkStays DEF ChatInv
<1> QED
  BY <1>4, <1>5, <1>6, <1>7, <1>8 DEF ChatInv

LEMMA FailStep ==
    ASSUME ChatInv, ChatFails
    PROVE  ChatInv'
<1>1. /\ at \in {"asked", "replied"} /\ at' = "answered" /\ response' = Failure
      /\ UNCHANGED <<registryVars, system, messages, via, wire, made>>
  BY DEF ChatFails
<1>2. DomainInv'
  BY <1>1, DomainStays DEF ChatInv
<1>3. CallerInv'
  BY <1>1 DEF ChatInv, CallerInv, Failure
<1>4. Failure.error
  BY DEF Failure
<1>5. WireInv' /\ ReplyInv'
  BY <1>1, <1>4 DEF WireInv, ReplyInv
<1>6. TalkInv'
  <2>1. Pending = <<>> /\ Pending' = <<>>
    BY <1>1, <1>4 DEF Pending
  <2> QED
    BY <1>1, <2>1, TalkStays DEF ChatInv
<1> QED
  BY <1>2, <1>3, <1>5, <1>6 DEF ChatInv

LEMMA ReplyStep ==
    ASSUME ChatInv, NEW status, NEW blocks \in Answers, NEW stop, NEW choices,
           ApiReplies(status, blocks, stop, choices)
    PROVE  ChatInv'
<1>1. /\ at = "asked" /\ at' = "replied"
      /\ UNCHANGED <<registryVars, system, messages, via, wire, response, made>>
  BY DEF ApiReplies
<1>2. DomainInv'
  BY <1>1, DomainStays DEF ChatInv
<1>3. CallerInv'
  BY <1>1 DEF ChatInv, CallerInv
<1>4. WireInv'
  BY <1>1 DEF WireInv
<1>5. TalkInv'
  <2>1. Pending = <<>> /\ Pending' = <<>>
    BY <1>1 DEF Pending
  <2> QED
    BY <1>1, <2>1, TalkStays DEF ChatInv
<1>6. ReplyInv'
  <2>1. PICK n \in 0..MaxBlocks : blocks \in [1..n -> {"text", "call"}]
    BY DEF Answers
  <2>2. n \in Nat /\ DOMAIN blocks = 1..n
    BY <2>1
  <2>3. PICK m \in Nat : m = Len(made)
    BY LenProperties DEF ChatInv, CallerInv
  <2>4. PICK said : said = BlocksOf(blocks, m)
    OBVIOUS
  <2>5. reply' = [status |-> status, choices |-> choices, stop |-> stop,
                  blocks |-> said]
    BY <2>3, <2>4 DEF ApiReplies, BlocksOf
  <2>6. reply'.choices = choices /\ reply'.blocks = said
    BY <2>5
  <2>7. PICK c \in Nat : /\ CallsOf(said) = Numbers(m, c)
                         /\ c = 0 <=> \A i \in 1..n : blocks[i] = "text"
    BY <2>2, <2>4, CallsAreNumbered
  <2>8. CallsOf(said) = Numbers(m, c)
    BY <2>7
  <2>9. choices = 0 => c = 0
    <3>1. SUFFICES ASSUME choices = 0 PROVE c = 0
      OBVIOUS
    <3>2. blocks = <<>>
      BY <3>1 DEF ApiReplies
    <3>3. n = 0
      <4>1. DOMAIN blocks = {}
        BY <3>2
      <4>2. SUFFICES ASSUME n /= 0 PROVE FALSE
        OBVIOUS
      <4>3. 1 \in 1..n
        BY <2>2, <4>2
      <4> QED
        BY <2>2, <4>1, <4>3
    <3> QED
      BY <2>7, <3>3
  <2>10. TextOf(said) \in Seq(Pieces)
    <3>1. \A i \in 1..n : said[i].kind = "text" => said[i].text \in Pieces
      <4>1. TAKE i \in 1..n
      <4>2. CASE blocks[i] = "text"
        <5>1. said[i] = [kind |-> "text", text |-> "said"]
          BY <2>2, <2>4, <4>2 DEF BlocksOf
        <5>2. said[i].text = "said"
          BY <5>1
        <5> QED
          BY <5>2 DEF Pieces
      <4>3. CASE blocks[i] /= "text"
        <5>1. PICK x : said[i] = [kind |-> "call", call |-> x]
          BY <2>2, <2>4, <4>3 DEF BlocksOf
        <5>2. said[i].kind = "call"
          BY <5>1
        <5> QED
          BY <5>2
      <4> QED
        BY <4>2, <4>3
    <3>2. DOMAIN said = 1..n
      BY <2>2, <2>4 DEF BlocksOf
    <3> QED
      BY <2>2, <3>1, <3>2, TextIsPieces
  <2>11. ReplyOf(reply', m)
    BY <2>6, <2>8, <2>9, <2>10 DEF ReplyOf
  <2> QED
    BY <1>1, <2>3, <2>11 DEF ReplyInv
<1> QED
  BY <1>2, <1>3, <1>4, <1>5, <1>6 DEF ChatInv

LEMMA ReturnStep ==
    ASSUME ChatInv, ChatReturns
    PROVE  ChatInv'
<1>1. /\ at = "replied" /\ at' = "answered" /\ response' = convertResponse
      /\ made' = IF convertResponse.error THEN made
                 ELSE made \o [k \in DOMAIN CallsOf(reply.blocks) |-> via]
      /\ UNCHANGED <<registryVars, system, messages, via, wire>>
  BY DEF ChatReturns
<1>2. via \in Types /\ made \in Seq(Types) /\ system \in Seq(Pieces)
  BY <1>1 DEF ChatInv, CallerInv
<1>3. PICK m \in Nat : m = Len(made)
  BY <1>2, LenProperties
<1>4. TextOf(reply.blocks) \in Seq(Pieces)
  BY <1>1 DEF ChatInv, ReplyInv, ReplyOf
<1>5. PICK c \in Nat : CallsOf(reply.blocks) = Numbers(m, c) /\ (reply.choices = 0 => c = 0)
  BY <1>1, <1>3 DEF ChatInv, ReplyInv, ReplyOf
<1>6. PICK cs : cs = Numbers(m, c)
  OBVIOUS
<1>7. cs \in Seq(Ids) /\ DOMAIN cs = 1..c /\ (c = 0 <=> cs = <<>>)
  BY <1>6, NumbersAreIds
<1>8. DomainInv'
  BY <1>1, DomainStays DEF ChatInv
<1>9. WireInv' /\ ReplyInv'
  BY <1>1 DEF WireInv, ReplyInv
<1>10. CASE convertResponse = Failure
  <2>1. Failure.error
    BY DEF Failure
  <2>2. response' = Failure /\ made' = made
    BY <1>1, <1>10, <2>1
  <2>3. CallerInv'
    BY <1>1, <1>2, <2>1, <2>2 DEF CallerInv
  <2>4. Pending = <<>> /\ Pending' = <<>>
    BY <1>1, <2>1, <2>2 DEF Pending
  <2>5. TalkInv'
    BY <1>1, <2>2, <2>4, TalkStays DEF ChatInv
  <2> QED
    BY <1>8, <1>9, <2>3, <2>5 DEF ChatInv
<1>11. CASE convertResponse /= Failure
  <2>1. PICK a : a = convertResponse
    OBVIOUS
  <2>2. Answered(a) /\ a.calls = IF via = "openrouter" THEN <<>> ELSE cs
    <3>1. CASE reply.choices = 0
      <4>1. PICK e : e = <<>>
        OBVIOUS
      <4>2. a = [error |-> FALSE, text |-> e, calls |-> e, finish |-> ""]
        BY <1>11, <2>1, <3>1, <4>1 DEF convertResponse
      <4>3. ~a.error /\ a.text = e /\ a.calls = e
        BY <4>2
      <4>4. e \in Seq(Pieces) /\ e \in Seq(Ids) /\ cs = e
        BY <1>5, <1>7, <3>1, <4>1
      <4> QED
        BY <4>1, <4>3, <4>4 DEF Answered
    <3>2. CASE reply.choices /= 0
      <4>1. PICK x, y, z : x = TextOf(reply.blocks)
                /\ y = (IF via = "openrouter" THEN <<>> ELSE cs)
                /\ z = (IF via = "anthropic" THEN mapStopReason(reply.stop) ELSE reply.stop)
        OBVIOUS
      <4>2. x \in Seq(Pieces) /\ y \in Seq(Ids)
        BY <1>4, <1>7, <4>1
      <4>3. a = [error |-> FALSE, text |-> x, calls |-> y, finish |-> z]
        BY <1>5, <1>6, <1>11, <2>1, <3>2, <4>1 DEF convertResponse
      <4>4. ~a.error /\ a.text = x /\ a.calls = y
        BY <4>3
      <4> QED
        BY <4>1, <4>2, <4>4 DEF Answered
    <3> QED
      BY <3>1, <3>2
  <2>3. response' = a /\ made' = made \o [k \in 1..c |-> via]
    BY <1>1, <1>5, <1>6, <1>7, <2>1, <2>2 DEF Answered
  <2>4. made' \in Seq(Types)
    <3>1. PICK new : new = [k \in 1..c |-> via]
      OBVIOUS
    <3>2. new \in Seq(Types)
      BY <1>2, <3>1
    <3> QED
      BY <1>2, <2>3, <3>1, <3>2, ConcatProperties
  <2>5. CallerInv'
    BY <1>1, <1>2, <2>2, <2>3, <2>4 DEF CallerInv
  <2>6. Pending = <<>> /\ Pending' = a.calls
    BY <1>1, <2>2, <2>3 DEF Pending, Answered
  <2>7. PICK o, t : TalkOf(messages, o, t) /\ AllCalls(t) \o Pending = KnownOf(made)
    BY DEF ChatInv, TalkInv
  <2>8. AllCalls(t) = KnownOf(made)
    <3>1. AllCalls(t) \in Seq(Ids)
      BY <2>7, SaidIsEntry, AllCallsType DEF TalkOf
    <3> QED
      BY <2>6, <2>7, <3>1, ConcatEmptySeq
  <2>9. KnownOf(made') = KnownOf(made) \o a.calls
    <3>1. KnownOf(made \o [k \in 1..c |-> via])
              = KnownOf(made) \o (IF via = "openrouter" THEN <<>> ELSE [k \in 1..c |-> Len(made) + k])
      BY <1>2, KnownAfter
    <3>2. cs = [k \in 1..c |-> Len(made) + k]
      BY <1>3, <1>6 DEF Numbers
    <3> QED
      BY <2>2, <2>3, <3>1, <3>2
  <2>10. TalkInv'
    <3>1. TalkOf(messages', o, t) /\ AllCalls(t) \o Pending' = KnownOf(made')
      BY <1>1, <2>6, <2>7, <2>8, <2>9
    <3> QED
      BY <3>1 DEF TalkInv
  <2> QED
    BY <1>8, <1>9, <2>5, <2>10 DEF ChatInv
<1> QED
  BY <1>10, <1>11

LEMMA TurnStep ==
    ASSUME ChatInv, TakeTurn
    PROVE  ChatInv'
<1>1. /\ at = "answered" /\ ~response.error /\ at' = "turn" /\ via' = "none"
      /\ UNCHANGED <<registryVars, system, reply, made>>
  BY DEF TakeTurn
<1>2. DomainInv'
  BY <1>1, DomainStays DEF ChatInv
<1>3. CallerInv'
  BY <1>1 DEF ChatInv, CallerInv
<1>4. WireInv' /\ ReplyInv'
  BY <1>1 DEF WireInv, ReplyInv
<1>5. Answered(response)
  BY <1>1 DEF ChatInv, CallerInv, Failure
<1>6. PICK cs \in Seq(Ids), x \in Seq(Pieces) : cs = response.calls /\ x = response.text
  BY <1>5 DEF Answered
<1>7. PICK n \in Nat : n = Len(cs) /\ DOMAIN cs = 1..n /\ \A k \in 1..n : cs[k] \in Ids
  BY LenProperties, ElementOfSeq
<1>8. PICK o, t : TalkOf(messages, o, t) /\ AllCalls(t) \o Pending = KnownOf(made)
  BY DEF ChatInv, TalkInv
<1>9. PICK a : a = Message("assistant", x, 0, cs)
  OBVIOUS
<1>10. a \in Said /\ ~IsSystem(a) /\ a.calls = cs
  <2>1. a = [role |-> "assistant", text |-> x, link |-> 0, calls |-> cs]
    BY <1>9 DEF Message
  <2>2. a \in Entry
    <3>1. PICK P, I : P = Seq(Pieces) /\ I = Seq(Ids)
      OBVIOUS
    <3>2. Entry = [role : Roles, text : P, link : Nat, calls : I]
      BY <3>1 DEF Entry
    <3> QED
      BY <1>6, <2>1, <3>1, <3>2 DEF Roles
  <2> QED
    BY <2>1, <2>2 DEF Said, IsSystem
<1>11. PICK rest :
           rest = IF cs = <<>> THEN <<Message("user", <<"more">>, 0, <<>>)>>
                  ELSE [i \in DOMAIN cs |-> Message("tool", <<"result">>, cs[i], <<>>)]
  OBVIOUS
<1>12. ASSUME NEW s, s \in {"more", "result"}, NEW role \in {"user", "tool"}, NEW link \in Nat,
              role = "tool" <=> link /= 0
       PROVE  LET r == Message(role, <<s>>, link, <<>>)
              IN  r \in Said /\ ~IsSystem(r) /\ r.calls = <<>> /\ r.link = link
  <2>1. PICK e, f, P, I : e = <<>> /\ f = <<s>> /\ P = Seq(Pieces) /\ I = Seq(Ids)
    OBVIOUS
  <2>2. s \in Pieces
    BY <1>12 DEF Pieces
  <2>3. e \in I /\ f \in P
    BY <2>1, <2>2
  <2>4. PICK r : r = [role |-> role, text |-> f, link |-> link, calls |-> e]
    OBVIOUS
  <2>5. Entry = [role : Roles, text : P, link : Nat, calls : I]
    BY <2>1 DEF Entry
  <2>6. r \in Entry
    BY <2>3, <2>4, <2>5 DEF Roles
  <2>7. r = Message(role, <<s>>, link, <<>>)
    BY <2>1, <2>4 DEF Message
  <2>8. r.role = role /\ r.link = link /\ r.calls = e
    BY <2>4
  <2>9. r \in Said /\ ~IsSystem(r)
    BY <1>12, <2>1, <2>6, <2>8 DEF Said, IsSystem
  <2> QED
    BY <2>1, <2>7, <2>8, <2>9
<1>13. /\ rest \in Seq(Said) /\ Quiet(rest) /\ \A i \in 1..Len(rest) : ~IsSystem(rest[i])
       /\ \A k \in 1..n : k \in 1..Len(rest) /\ rest[k].link = cs[k]
  <2>1. CASE cs = <<>>
    <3>1. PICK r \in Said : r = Message("user", <<"more">>, 0, <<>>) /\ ~IsSystem(r) /\ r.calls = <<>>
      BY <1>12
    <3>2. rest = <<r>> /\ n = 0
      BY <1>7, <1>11, <2>1, <3>1
    <3> QED
      BY <3>1, <3>2 DEF Quiet
  <2>2. CASE cs /= <<>>
    <3> DEFINE r(i) == Message("tool", <<"result">>, cs[i], <<>>)
    <3>1. \A i \in 1..n : r(i) \in Said /\ ~IsSystem(r(i)) /\ r(i).calls = <<>> /\ r(i).link = cs[i]
      BY <1>7, <1>12 DEF Ids
    <3>2. rest = [i \in 1..n |-> r(i)]
      BY <1>7, <1>11, <2>2
    <3> HIDE DEF r
    <3>3. rest \in Seq(Said) /\ Len(rest) = n /\ \A i \in 1..n : rest[i] = r(i)
      BY <1>7, <3>1, <3>2
    <3> QED
      BY <3>1, <3>3 DEF Quiet
  <2> QED
    BY <2>1, <2>2
<1>14. messages' = (messages \o <<a>>) \o rest
  BY <1>6, <1>9, <1>11 DEF TakeTurn
<1>15. o \in Seq(Said) /\ t \in Seq(Said) /\ messages = o \o t /\ Quiet(o) /\ Linked(t)
       /\ \A i \in 1..Len(t) : ~IsSystem(t[i])
  BY <1>8 DEF TalkOf
<1>16. PICK u : u = t \o (<<a>> \o rest)
  OBVIOUS
<1>17. /\ u \in Seq(Said) /\ Linked(u) /\ \A i \in 1..Len(u) : ~IsSystem(u[i])
       /\ AllCalls(u) = AllCalls(t) \o cs
  BY <1>7, <1>10, <1>13, <1>15, <1>16, TurnIsLinked
<1>18. messages' = o \o u
  <2>1. PICK v, w, S : v = <<a>> \o rest /\ w = messages \o <<a>> /\ S = Said
    OBVIOUS
  <2>2. <<a>> \in Seq(S) /\ rest \in Seq(S) /\ messages \in Seq(S) /\ o \in Seq(S) /\ t \in Seq(S)
    BY <1>10, <1>13, <1>15, <2>1, ConcatProperties
  <2>3. v \in Seq(S)
    BY <2>1, <2>2, ConcatProperties
  <2>4. w \o rest = messages \o v
    <3>1. Regroups(messages, <<a>>, rest)
      BY <2>2, Regrouping
    <3> QED
      BY <2>1, <3>1 DEF Regroups
  <2>5. messages \o v = o \o u
    <3>1. u = t \o v
      BY <1>16, <2>1
    <3>2. Regroups(o, t, v)
      BY <2>2, <2>3, Regrouping
    <3> QED
      BY <1>15, <3>1, <3>2 DEF Regroups
  <2> QED
    BY <1>14, <2>1, <2>4, <2>5
<1>19. TalkOf(messages', o, u)
  BY <1>15, <1>17, <1>18 DEF TalkOf
<1>20. AllCalls(u) \o Pending' = KnownOf(made')
  <2>1. Pending = cs /\ Pending' = <<>> /\ made' = made
    BY <1>1, <1>6 DEF Pending
  <2>2. AllCalls(u) \in Seq(Ids)
    BY <1>17, SaidIsEntry, AllCallsType
  <2>3. AllCalls(u) \o <<>> = AllCalls(u)
    BY <2>2, ConcatEmptySeq
  <2> QED
    BY <1>8, <1>17, <2>1, <2>3
<1>21. TalkInv'
  BY <1>19, <1>20 DEF TalkInv
<1> QED
  BY <1>2, <1>3, <1>4, <1>21 DEF ChatInv

THEOREM ChatInvHolds == ChatSpec => []ChatInv
<1>1. ChatInv /\ [ChatNext]_conversationVars => ChatInv'
  <2> SUFFICES ASSUME ChatInv, [ChatNext]_conversationVars PROVE ChatInv'
    OBVIOUS
  <2>1. CASE RegistryNext /\ UNCHANGED chatVars
    BY <2>1, RegistryStep
  <2>2. CASE Ask
    BY <2>2, AskStep
  <2>3. CASE ChatReturns
    BY <2>3, ReturnStep
  <2>4. CASE ChatFails
    BY <2>4, FailStep
  <2>5. CASE TakeTurn
    BY <2>5, TurnStep
  <2>6. ASSUME NEW status, NEW blocks \in Answers, NEW stop, NEW choices,
               ApiReplies(status, blocks, stop, choices)
        PROVE  ChatInv'
    BY <2>6, ReplyStep
  <2>7. CASE UNCHANGED conversationVars
    <3>1. UNCHANGED registryVars
          /\ UNCHANGED <<system, messages, at, via, wire, reply, response, made>>
      BY <2>7 DEF conversationVars, chatVars
    <3>2. DomainInv'
      BY <3>1, DomainStays DEF ChatInv
    <3>3. CallerInv' /\ ReplyInv'
      BY <3>1 DEF ChatInv, CallerInv, ReplyInv
    <3>4. WireInv'
      BY <3>1
      DEF ChatInv, WireInv, buildRequest, WireAnthropic, WireOpenRouter, WireOpenAI, Prepended
    <3>5. TalkInv'
      BY <3>1, TalkStays DEF ChatInv, Pending
    <3> QED
      BY <3>2, <3>3, <3>4, <3>5 DEF ChatInv
  <2> QED
    BY <2>1, <2>2, <2>3, <2>4, <2>5, <2>6, <2>7 DEF ChatNext
<1> QED
  BY InitChat, <1>1, PTL DEF ChatSpec

\* For any opening, any models and a conversation of any length: the type
\* invariant of the caller, its messages and the registry it asks.
THEOREM ChatTypeCorrect == ChatSpec => []ChatTypeOK
<1>1. ChatInv => ChatTypeOK
  <2> SUFFICES ASSUME ChatInv PROVE ChatTypeOK
    OBVIOUS
  <2>1. PICK o, t : TalkOf(messages, o, t)
    BY DEF ChatInv, TalkInv
  <2>2. messages \in Seq(Said)
    BY <2>1, ConcatProperties DEF TalkOf
  <2>3. ASSUME NEW i \in DOMAIN messages
        PROVE  /\ (messages[i].role = "tool") = (messages[i].link /= 0)
               /\ messages[i].calls /= <<>> => messages[i].role = "assistant"
    <3>1. messages[i] \in Said
      BY <2>2, <2>3, LenProperties, ElementOfSeq
    <3> QED
      BY <3>1 DEF Said
  <2> QED
    BY <2>3 DEF ChatInv, DomainInv, RegistryInv, CallerInv, ChatTypeOK
<1> QED
  BY ChatInvHolds, <1>1, PTL

\* For any opening, empty system messages included, and whoever is asked: a system
\* text the caller gives in one way is the one that governs at the provider.
THEOREM SystemTextGoverns == ChatSpec => []SystemGoverns
<1>1. ChatInv => SystemGoverns
  <2> SUFFICES ASSUME ChatInv PROVE SystemGoverns
    OBVIOUS
  <2>1. PICK o, t : TalkOf(messages, o, t)
    BY DEF ChatInv, TalkInv
  <2>2. messages \in Seq(Said)
    BY <2>1, ConcatProperties DEF TalkOf
  <2>3. system \in Seq(Pieces)
    BY DEF ChatInv, CallerInv
  <2> QED
    BY <2>2, <2>3, RequestGoverns DEF ChatInv, WireInv, Governs, SystemGoverns
<1> QED
  BY ChatInvHolds, <1>1, PTL

\* For any opening, whoever is asked in any order and however often a call fails:
\* the calls with their results reach anthropic and openai as the caller has them,
\* whatever the APIs answer as long as no call has the id of another.
THEOREM CallsReachProviders == ChatSpec => []CallsAreLinked
<1>1. ChatInv => CallsAreLinked
  <2> SUFFICES ASSUME ChatInv PROVE CallsAreLinked
    OBVIOUS
  <2>1. SUFFICES ASSUME at = "asked", via /= "openrouter" PROVE CallsAreLinked
    BY DEF CallsAreLinked
  <2>2. PICK o, t : TalkOf(messages, o, t) /\ AllCalls(t) \o Pending = KnownOf(made)
    BY DEF ChatInv, TalkInv
  <2>3. messages \in Seq(Said)
    BY <2>2, ConcatProperties DEF TalkOf
  <2>4. system \in Seq(Pieces)
    BY DEF ChatInv, CallerInv
  <2>5. PICK ms \in Seq(Entry) :
            ms = wire.messages /\ Linked(ms) /\ AllCalls(ms) = AllCalls(t)
    <3>1. wire = buildRequest(via, messages)
      BY <2>1 DEF ChatInv, WireInv
    <3>2. CASE via = "anthropic"
      <4>1. wire.messages = WireAnthropic(messages).messages
        BY <3>1, <3>2 DEF buildRequest
      <4>2. wire.messages \in Seq(Entry)
        <5>1. wire.messages = Converted(messages)
          BY <4>1 DEF WireAnthropic, Converted
        <5>2. Converted(messages) \in Seq(Plain) /\ Plain \subseteq Entry
          BY <2>3, ConvertedParts DEF Plain
        <5> QED
          BY <5>1, <5>2, WiderSeq
      <4> QED
        BY <2>2, <4>1, <4>2, AnthropicLinked
    <3>3. CASE via /= "anthropic"
      <4>1. wire.messages = WireOpenAI(messages).messages
        BY <2>1, <3>1, <3>3 DEF buildRequest
      <4>2. wire.messages \in Seq(Entry)
        BY <2>3, <2>4, <4>1, PrependedGoverns DEF WireOpenAI
      <4> QED
        BY <2>2, <2>4, <4>1, <4>2, OpenAILinked
    <3> QED
      BY <3>2, <3>3
  <2>6. AllCalls(t) = KnownOf(made)
    <3>1. Pending = <<>>
      BY <2>1 DEF Pending
    <3>2. AllCalls(t) \in Seq(Ids)
      BY <2>2, SaidIsEntry, AllCallsType DEF TalkOf
    <3> QED
      BY <2>2, <3>1, <3>2, ConcatEmptySeq
  <2>7. FlattenSeq([i \in DOMAIN ms |-> ms[i].calls])
            = FlattenSeq([n \in DOMAIN made |-> IF made[n] = "openrouter" THEN <<>> ELSE <<n>>])
    BY <2>5, <2>6 DEF AllCalls, KnownOf
  <2>8. \A i \in DOMAIN ms : \A k \in DOMAIN ms[i].calls :
            i + k \in DOMAIN ms /\ ms[i + k].link = ms[i].calls[k]
    <3>1. DOMAIN ms = 1..Len(ms)
      BY LenProperties
    <3>2. \A i \in 1..Len(ms) : DOMAIN ms[i].calls = 1..Len(ms[i].calls)
      BY ElementOfSeq, LenProperties DEF Entry
    <3>3. ASSUME NEW i \in 1..Len(ms), NEW k \in 1..Len(ms[i].calls)
          PROVE  i + k \in 1..Len(ms) /\ ms[i + k].link = ms[i].calls[k]
      BY <2>5 DEF Linked
    <3> QED
      BY <3>1, <3>2, <3>3
  <2> QED
    BY <2>5, <2>7, <2>8 DEF CallsAreLinked
<1> QED
  BY ChatInvHolds, <1>1, PTL

-----------------------------------------------------------------------------
(* A stream and a conversation side by side *)

\* For a stream and a conversation that do not touch each other, whichever of the
\* two a behaviour is: all variables of both keep their types.
THEOREM TypesAreCorrect == MCSpec => []TypesOK
<1>1. MCSpec => Spec
  <2>1. MCInit => Init
    BY DEF MCInit
  <2>2. [MCNext]_<<mode, vars, conversationVars>> => [Next]_vars
    BY DEF MCNext
  <2> QED
    BY <2>1, <2>2, PTL DEF MCSpec, Spec
<1>2. MCSpec => ChatSpec
  <2>1. MCInit => ChatInit
    BY DEF MCInit
  <2>2. [MCNext]_<<mode, vars, conversationVars>> => [ChatNext]_conversationVars
    BY DEF MCNext
  <2> QED
    BY <2>1, <2>2, PTL DEF MCSpec, ChatSpec
<1>3. TypeOK /\ ChatTypeOK => TypesOK
  BY DEF TypesOK
<1> QED
  BY <1>1, <1>2, <1>3, StreamTypeCorrect, ChatTypeCorrect, PTL
=============================================================================
