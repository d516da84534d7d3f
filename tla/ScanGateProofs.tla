---------------------------- MODULE ScanGateProofs ----------------------------
(***************************************************************************)
(* What the scan-token gate guarantees for every set of sources, every TTL *)
(* and every limit.  Two arguments, one for each half of the gate:         *)
(*   ThrottleInv  the deque of a source is the tail of its issuances, and  *)
(*                whatever was dropped from it is a Minute old (until a    *)
(*                panic, which leaves an instant in it that no token has); *)
(*   TokenInv     the map holds every token that is not dead, with the     *)
(*                instant it dies, and none that was not handed out.       *)
(***************************************************************************)
EXTENDS ScanGate, SequenceFacts, FiniteSetTheorems

TailOf(q, g) ==
    /\ Len(q) <= Len(g)
    /\ \A n \in 1..Len(q) : q[n] = g[(Len(g) - Len(q)) + n].at

StaleBefore(q, g, t) == \A n \in 1..(Len(g) - Len(q)) : g[n].at + Minute <= t

Spaced(g) ==
    IssueLimit > 0 => \A m, n \in 1..Len(g) : n >= m + IssueLimit => g[n].at >= g[m].at + Minute

ThrottleInv ==
    \A s \in Source :
        /\ ~poisoned => TailOf(window[s], issued[s]) /\ StaleBefore(window[s], issued[s], now)
        /\ Spaced(issued[s])

KnownUntilDead(s, n) ==
    LET i == issued[s][n]
    IN  /\ i.token <= seq
        /\ i.token \in DOMAIN tokens => tokens[i.token] = i.at + Ttl
        /\ i.token \notin DOMAIN tokens => i.at + Ttl <= now

Origin(t) ==
    \E s \in Source : \E n \in 1..Len(issued[s]) :
        issued[s][n].token = t /\ tokens[t] = issued[s][n].at + Ttl

TokenInv ==
    /\ \A s \in Source : \A n \in 1..Len(issued[s]) : KnownUntilDead(s, n)
    /\ \A t \in DOMAIN tokens : Origin(t)

ScanInv == ScanTypeOK /\ ThrottleInv /\ TokenInv /\ AnswersHonest

----------------------------------------------------------------------------
(* Facts about deques alone.                                               *)

LEMMA InstantOf ==
    /\ \A q \in Seq(Time) : \A n \in 1..Len(q) : q[n] \in Int
    /\ \A g \in Seq(Issue) : \A n \in 1..Len(g) : g[n].at \in Int /\ g[n].token \in Nat
<1>1. Time \subseteq Int
  BY DEF Time
<1>2. ASSUME NEW q \in Seq(Time), NEW n \in 1..Len(q) PROVE q[n] \in Int
  BY <1>1, ElementOfSeq
<1>3. ASSUME NEW g \in Seq(Issue), NEW n \in 1..Len(g) PROVE g[n].at \in Int /\ g[n].token \in Nat
  <2>1. g[n] \in Issue
    BY ElementOfSeq
  <2> QED BY <1>1, <2>1 DEF Issue, Token
<1> QED BY <1>2, <1>3

(* Nothing issued yet.                                                     *)
LEMMA EmptyDeque ==
    ASSUME NEW q, NEW g, q = << >>, g = << >>, NEW t
    PROVE  TailOf(q, g) /\ StaleBefore(q, g, t) /\ Spaced(g)
<1>1. Len(q) = 0 /\ Len(g) = 0
  OBVIOUS
<1>2. 1..Len(q) = {} /\ 1..Len(g) = {} /\ 1..(Len(g) - Len(q)) = {} /\ Len(q) <= Len(g)
  BY <1>1
<1> QED BY <1>2 DEF TailOf, StaleBefore, Spaced

(* What the deque loses is a Minute old, and what it keeps is the tail.    *)
LEMMA Evict ==
    ASSUME ScanTypeOK, NEW q \in Seq(Time), NEW g \in Seq(Issue), NEW k \in 0..Len(q),
           NEW r \in Seq(Time), Len(r) = Len(q) - k,
           \A n \in 1..(Len(q) - k) : r[n] = q[k + n],
           TailOf(q, g), StaleBefore(q, g, now), StalePrefix(q, k)
    PROVE  TailOf(r, g) /\ StaleBefore(r, g, now)
<1>1. /\ Len(q) \in Nat /\ Len(g) \in Nat /\ k \in Nat /\ k <= Len(q) /\ Len(q) <= Len(g)
      /\ Minute \in Nat /\ now \in Int
  BY LenProperties, ScanAssumption DEF TailOf, Time, ScanTypeOK
<1>2. TailOf(r, g)
  <2>1. ASSUME NEW n \in 1..Len(r)
        PROVE  r[n] = g[(Len(g) - Len(r)) + n].at
    <3>1. r[n] = q[k + n] /\ k + n \in 1..Len(q)
      BY <1>1, <2>1
    <3>2. q[k + n] = g[(Len(g) - Len(q)) + (k + n)].at
      BY <3>1 DEF TailOf
    <3>3. (Len(g) - Len(r)) + n = (Len(g) - Len(q)) + (k + n)
      BY <1>1
    <3> QED BY <3>1, <3>2, <3>3
  <2>2. Len(r) <= Len(g)
    BY <1>1
  <2> QED BY <2>1, <2>2 DEF TailOf
<1>3. ASSUME NEW n \in 1..(Len(g) - Len(r))
      PROVE  g[n].at + Minute <= now
  <2>1. CASE n <= Len(g) - Len(q)
    BY <2>1, <1>1 DEF StaleBefore
  <2>2. CASE n > Len(g) - Len(q)
    <3> DEFINE p == n - (Len(g) - Len(q))
    <3>1. p \in 1..k /\ p \in 1..Len(q) /\ (Len(g) - Len(q)) + p = n
      BY <2>2, <1>1
    <3>2. q[p] = g[n].at
      BY <3>1 DEF TailOf
    <3>3. now - q[p] >= Minute
      BY <3>1 DEF StalePrefix
    <3>4. q[p] \in Int
      BY <3>1, InstantOf
    <3> QED BY <1>1, <3>2, <3>3, <3>4
  <2> QED BY <2>1, <2>2, <1>1
<1> QED BY <1>2, <1>3 DEF StaleBefore

(* With fewer than IssueLimit instants left, every issuance IssueLimit     *)
(* places back has been dropped, hence is a Minute old.                    *)
LEMMA AdmitIssue ==
    ASSUME ScanTypeOK, NEW r \in Seq(Time), NEW g \in Seq(Issue), NEW i \in Issue, i.at = now,
           TailOf(r, g), StaleBefore(r, g, now), Spaced(g), WithinLimit(Len(r))
    PROVE  LET h == Append(g, i)
           IN  /\ TailOf(Append(r, now), h) /\ StaleBefore(Append(r, now), h, now) /\ Spaced(h)
<1> DEFINE h == Append(g, i)
           q == Append(r, now)
<1>0. now \in Time
  BY DEF ScanTypeOK
<1>2. h \in Seq(Issue) /\ Len(h) = Len(g) + 1 /\ (\A n \in 1..Len(g) : h[n] = g[n]) /\ h[Len(g) + 1] = i
  BY AppendLast
<1>3. Len(q) = Len(r) + 1 /\ (\A n \in 1..Len(r) : q[n] = r[n]) /\ q[Len(r) + 1] = now
  BY <1>0, AppendLast
<1> HIDE DEF h, q
<1>5. Len(r) \in Nat /\ Len(g) \in Nat /\ Len(r) <= Len(g) /\ IssueLimit \in Nat /\ Minute \in Nat
      /\ (IssueLimit > 0 => Len(r) < IssueLimit) /\ now \in Int
  BY <1>0, LenProperties, ScanAssumption DEF TailOf, WithinLimit, Time
<1>6. TailOf(q, h)
  <2>1. ASSUME NEW n \in 1..Len(r)
        PROVE  q[n] = h[(Len(h) - Len(q)) + n].at
    <3>1. (Len(h) - Len(q)) + n = (Len(g) - Len(r)) + n /\ (Len(g) - Len(r)) + n \in 1..Len(g)
      BY <1>2, <1>3, <1>5
    <3> QED BY <3>1, <1>2, <1>3 DEF TailOf
  <2>2. q[Len(r) + 1] = h[(Len(h) - Len(q)) + (Len(r) + 1)].at
    <3>1. (Len(h) - Len(q)) + (Len(r) + 1) = Len(g) + 1
      BY <1>2, <1>3, <1>5
    <3> QED BY <3>1, <1>2, <1>3
  <2>3. ASSUME NEW n \in 1..Len(q) PROVE n \in 1..Len(r) \/ n = Len(r) + 1
    BY <1>3, <1>5
  <2>4. Len(q) <= Len(h)
    BY <1>2, <1>3, <1>5
  <2> QED BY <2>1, <2>2, <2>3, <2>4 DEF TailOf
<1>7. StaleBefore(q, h, now)
  <2> SUFFICES ASSUME NEW n \in 1..(Len(h) - Len(q)) PROVE h[n].at + Minute <= now
    BY DEF StaleBefore
  <2>1. n \in 1..(Len(g) - Len(r)) /\ n \in 1..Len(g)
    BY <1>2, <1>3, <1>5
  <2> QED BY <2>1, <1>2 DEF StaleBefore
<1>8. Spaced(h)
  <2> SUFFICES ASSUME IssueLimit > 0, NEW m \in 1..Len(h), NEW n \in 1..Len(h), n >= m + IssueLimit
               PROVE  h[n].at >= h[m].at + Minute
    BY DEF Spaced
  <2>1. m \in 1..Len(g)
    BY <1>2, <1>5
  <2>2. CASE n \in 1..Len(g)
    BY <2>1, <2>2, <1>2 DEF Spaced
  <2>3. CASE n = Len(g) + 1
    <3>1. m \in 1..(Len(g) - Len(r))
      BY <2>1, <2>3, <1>5
    <3>2. g[m].at + Minute <= now /\ h[n].at = now /\ h[m] = g[m]
      BY <2>1, <2>3, <3>1, <1>2 DEF StaleBefore
    <3>3. g[m].at \in Int
      BY <2>1, InstantOf
    <3> QED BY <3>2, <3>3, <1>5
  <2>4. n \in 1..Len(g) \/ n = Len(g) + 1
    BY <1>2, <1>5
  <2> QED BY <2>2, <2>3, <2>4
<1> QED BY <1>6, <1>7, <1>8 DEF h, q

----------------------------------------------------------------------------
(* Every issuance and every refusal of one starts with the same eviction.  *)
LEMMA EvictionInState ==
    ASSUME ScanInv, ~poisoned, NEW s \in Source, NEW k \in 0..Len(window[s]),
           StalePrefix(window[s], k)
    PROVE  LET r == SubSeq(window[s], k + 1, Len(window[s]))
           IN  /\ r \in Seq(Time) /\ Len(r) = Len(window[s]) - k /\ issued[s] \in Seq(Issue)
               /\ TailOf(r, issued[s]) /\ StaleBefore(r, issued[s], now) /\ Spaced(issued[s])
<1> DEFINE q == window[s]
           r == SubSeq(q, k + 1, Len(q))
           g == issued[s]
<1>1. /\ q \in Seq(Time) /\ g \in Seq(Issue) /\ ScanTypeOK
      /\ TailOf(q, g) /\ StaleBefore(q, g, now) /\ Spaced(g)
  BY DEF ScanInv, ScanTypeOK, ThrottleInv
<1>2. r \in Seq(Time) /\ Len(r) = Len(q) - k /\ \A n \in 1..(Len(q) - k) : r[n] = q[k + n]
  BY <1>1, DropPrefix
<1>3. k \in 0..Len(q) /\ StalePrefix(q, k)
  OBVIOUS
<1> HIDE DEF q, r, g
<1>4. TailOf(r, g) /\ StaleBefore(r, g, now)
  BY <1>1, <1>2, <1>3, Evict
<1> QED BY <1>1, <1>2, <1>4 DEF q, r, g

(* A deque that changes at one source only.                                *)
LEMMA WindowUpdate ==
    ASSUME ScanTypeOK, NEW s \in Source, NEW q \in Seq(Time), window' = [window EXCEPT ![s] = q]
    PROVE  /\ window' \in [Source -> Seq(Time)] /\ window'[s] = q
           /\ \A u \in Source \ {s} : window'[u] = window[u]
  BY DEF ScanTypeOK

LEMMA IssueTokenKeepsInv ==
    ASSUME ScanInv, NEW s \in Source, IssueToken(s)
    PROVE  ScanInv'
<1> DEFINE i == [token |-> seq + 1, at |-> now]
           h == Append(issued[s], i)
<1>1. PICK k \in 0..Len(window[s]) :
         /\ StalePrefix(window[s], k)
         /\ WithinLimit(Len(window[s]) - k)
         /\ window' = [window EXCEPT ![s] = Append(SubSeq(@, k + 1, Len(@)), now)]
  BY DEF IssueToken
<1> DEFINE r == SubSeq(window[s], k + 1, Len(window[s]))
           q == Append(r, now)
<1>2. /\ ~poisoned /\ IsOn /\ seq' = seq + 1 /\ now' = now /\ Ttl' = Ttl /\ poisoned' = poisoned
      /\ tokens' = [t \in DOMAIN tokens \cup {seq + 1} |-> IF t = seq + 1 THEN now + Ttl ELSE tokens[t]]
      /\ issued' = [issued EXCEPT ![s] = h]
      /\ answer' = [kind |-> "created", token |-> seq + 1, at |-> now]
  BY DEF IssueToken, Answer
<1>3. /\ ScanTypeOK /\ now \in Time /\ now \in Nat /\ seq \in Nat /\ Ttl \in Nat
      /\ issued \in [Source -> Seq(Issue)] /\ window \in [Source -> Seq(Time)]
  BY ScanAssumption DEF ScanInv, ScanTypeOK, Time
<1>4. i \in Issue /\ i.at = now /\ i.token = seq + 1
  BY <1>3 DEF Issue, Token
<1>5. /\ r \in Seq(Time) /\ issued[s] \in Seq(Issue) /\ WithinLimit(Len(r))
      /\ TailOf(r, issued[s]) /\ StaleBefore(r, issued[s], now) /\ Spaced(issued[s])
  BY <1>1, <1>2, EvictionInState
<1>6. q \in Seq(Time)
  <2> HIDE DEF r
  <2> QED BY <1>3, <1>5, AppendLast
<1>7. /\ h \in Seq(Issue) /\ Len(h) = Len(issued[s]) + 1 /\ h[Len(issued[s]) + 1] = i
      /\ \A n \in 1..Len(issued[s]) : h[n] = issued[s][n]
  <2> HIDE DEF i
  <2> QED BY <1>4, <1>5, AppendLast
<1>8. TailOf(q, h) /\ StaleBefore(q, h, now) /\ Spaced(h)
  <2> HIDE DEF i, r
  <2> QED BY <1>3, <1>4, <1>5, AdmitIssue
<1>9. window' = [window EXCEPT ![s] = q]
  BY <1>1
<1> HIDE DEF i, h, r, q
<1>10. /\ window' \in [Source -> Seq(Time)] /\ window'[s] = q
       /\ \A u \in Source \ {s} : window'[u] = window[u]
  BY <1>3, <1>6, <1>9, WindowUpdate
<1>11. /\ issued' \in [Source -> Seq(Issue)] /\ issued'[s] = h
       /\ \A u \in Source \ {s} : issued'[u] = issued[u]
  BY <1>2, <1>3, <1>7
<1>12. ScanTypeOK'
  <2>1. answer' \in [kind : Kind, token : Nat, at : Time]
    BY <1>2, <1>3 DEF Kind
  <2>2. DOMAIN tokens' \subseteq Token /\ \A t \in DOMAIN tokens' : tokens'[t] \in Nat
    BY <1>2, <1>3 DEF ScanTypeOK, Token
  <2> QED BY <1>2, <1>3, <1>10, <1>11, <2>1, <2>2 DEF ScanTypeOK
<1>13. ThrottleInv'
  <2>1. ASSUME NEW u \in Source
        PROVE  TailOf(window'[u], issued'[u]) /\ StaleBefore(window'[u], issued'[u], now) /\ Spaced(issued'[u])
    <3>1. CASE u = s
      BY <3>1, <1>8, <1>10, <1>11
    <3>2. CASE u # s
      BY <3>2, <1>2, <1>10, <1>11 DEF ScanInv, ThrottleInv
    <3> QED BY <3>1, <3>2
  <2> QED BY <1>2, <2>1 DEF ThrottleInv, TailOf, StaleBefore, Spaced
<1>14. ASSUME NEW u \in Source, NEW n \in 1..Len(issued'[u])
       PROVE  \/ u = s /\ issued'[u][n] = i
              \/ n \in 1..Len(issued[u]) /\ issued'[u][n] = issued[u][n]
  <2>1. Len(issued[s]) \in Nat
    BY <1>5, LenProperties
  <2>2. CASE u = s
    BY <2>1, <2>2, <1>7, <1>11
  <2>3. CASE u # s
    BY <2>3, <1>11
  <2> QED BY <2>2, <2>3
<1>15. ASSUME NEW u \in Source, NEW n \in 1..Len(issued'[u]) PROVE KnownUntilDead(u, n)'
  <2>1. CASE issued'[u][n] = i
    BY <2>1, <1>2, <1>3, <1>4 DEF KnownUntilDead
  <2>2. CASE n \in 1..Len(issued[u]) /\ issued'[u][n] = issued[u][n]
    <3>1. KnownUntilDead(u, n)
      BY <2>2 DEF ScanInv, TokenInv
    <3>2. issued[u][n].token \in Nat /\ issued[u][n].token # seq + 1
      BY <2>2, <3>1, <1>3, InstantOf DEF KnownUntilDead
    <3> QED BY <2>2, <3>1, <3>2, <1>2, <1>3 DEF KnownUntilDead
  <2> QED BY <1>14, <2>1, <2>2
<1>16. ASSUME NEW t \in DOMAIN tokens' PROVE Origin(t)'
  <2>1. CASE t = seq + 1
    <3>1. Len(issued[s]) + 1 \in 1..Len(issued'[s])
      BY <1>5, <1>7, <1>11, LenProperties
    <3>2. issued'[s][Len(issued[s]) + 1].token = t /\ tokens'[t] = issued'[s][Len(issued[s]) + 1].at + Ttl'
      BY <2>1, <1>2, <1>4, <1>7, <1>11
    <3> QED BY <3>1, <3>2 DEF Origin
  <2>2. CASE t # seq + 1
    <3>1. t \in DOMAIN tokens /\ tokens'[t] = tokens[t]
      BY <2>2, <1>2
    <3>2. PICK u \in Source : \E n \in 1..Len(issued[u]) : issued[u][n].token = t /\ tokens[t] = issued[u][n].at + Ttl
      BY <3>1 DEF ScanInv, TokenInv, Origin
    <3>3. PICK n \in 1..Len(issued[u]) : issued[u][n].token = t /\ tokens[t] = issued[u][n].at + Ttl
      BY <3>2
    <3>4. n \in 1..Len(issued'[u]) /\ issued'[u][n] = issued[u][n]
      <4>1. CASE u = s
        BY <4>1, <1>5, <1>7, <1>11, LenProperties
      <4>2. CASE u # s
        BY <4>2, <1>11
      <4> QED BY <4>1, <4>2
    <3> QED BY <3>1, <3>3, <3>4, <1>2 DEF Origin
  <2> QED BY <2>1, <2>2
<1>17. TokenInv'
  BY <1>15, <1>16 DEF TokenInv
<1>18. AnswersHonest'
  BY <1>2 DEF AnswersHonest
<1> QED BY <1>12, <1>13, <1>17, <1>18 DEF ScanInv

(* A request that leaves the history, the tokens and the clock alone and   *)
(* answers neither "admitted" nor "unknown" nor "expired".                 *)
LEMMA PlainAnswer ==
    ASSUME ScanInv, UNCHANGED <<Ttl, now, tokens, issued>>, seq' >= seq, seq' \in Nat,
           NEW kind \in Kind \ {"admitted", "unknown", "expired"}, Answer(kind, NoToken)
    PROVE  /\ answer' \in [kind : Kind, token : Nat, at : Time]
           /\ TokenInv' /\ AnswersHonest'
<1>1. answer' = [kind |-> kind, token |-> 0, at |-> now] /\ now \in Time
  BY DEF Answer, NoToken, ScanInv, ScanTypeOK
<1>2. answer' \in [kind : Kind, token : Nat, at : Time]
  BY <1>1
<1>3. AnswersHonest'
  BY <1>1 DEF AnswersHonest
<1>4. ASSUME NEW s \in Source, NEW n \in 1..Len(issued[s]) PROVE KnownUntilDead(s, n)'
  <2>1. issued[s][n].token \in Nat /\ seq \in Nat
    BY InstantOf DEF ScanInv, ScanTypeOK
  <2>2. KnownUntilDead(s, n)
    BY DEF ScanInv, TokenInv
  <2> QED BY <2>1, <2>2 DEF KnownUntilDead
<1>5. TokenInv'
  BY <1>4 DEF ScanInv, TokenInv, Origin
<1> QED BY <1>2, <1>3, <1>5

LEMMA IssuePanicsKeepsInv ==
    ASSUME ScanInv, NEW s \in Source, IssuePanics(s)
    PROVE  ScanInv'
<1>1. PICK k \in 0..Len(window[s]) :
         /\ StalePrefix(window[s], k)
         /\ window' = [window EXCEPT ![s] = Append(SubSeq(@, k + 1, Len(@)), now)]
  BY DEF IssuePanics
<1> DEFINE r == SubSeq(window[s], k + 1, Len(window[s]))
<1>2. /\ ~poisoned /\ poisoned' /\ poisoned' = TRUE /\ seq' = seq + 1
      /\ UNCHANGED <<Ttl, now, tokens, issued>> /\ Answer("silence", NoToken)
  BY DEF IssuePanics
<1>3. ScanTypeOK /\ now \in Time /\ seq \in Nat
  BY DEF ScanInv, ScanTypeOK
<1>4. r \in Seq(Time)
  BY <1>1, <1>2, EvictionInState
<1>5. Append(r, now) \in Seq(Time)
  <2> HIDE DEF r
  <2> QED BY <1>3, <1>4, AppendLast
<1>6. window' \in [Source -> Seq(Time)]
  BY <1>1, <1>3, <1>5, WindowUpdate
<1>7. answer' \in [kind : Kind, token : Nat, at : Time] /\ TokenInv' /\ AnswersHonest'
  BY <1>2, <1>3, PlainAnswer DEF Kind
<1>8. ScanTypeOK'
  BY <1>2, <1>3, <1>6, <1>7 DEF ScanTypeOK
<1>9. ThrottleInv'
  BY <1>2 DEF ScanInv, ThrottleInv, Spaced
<1> QED BY <1>7, <1>8, <1>9 DEF ScanInv

LEMMA IssueRefusedKeepsInv ==
    ASSUME ScanInv, NEW s \in Source, IssueRefused(s)
    PROVE  ScanInv'
<1>1. PICK k \in 0..Len(window[s]) :
         /\ StalePrefix(window[s], k)
         /\ window' = [window EXCEPT ![s] = SubSeq(@, k + 1, Len(@))]
  BY DEF IssueRefused
<1> DEFINE r == SubSeq(window[s], k + 1, Len(window[s]))
<1>2. /\ ~poisoned /\ UNCHANGED <<Ttl, now, tokens, seq, poisoned, issued>> /\ Answer("limit", NoToken)
  BY DEF IssueRefused
<1>3. ScanTypeOK /\ seq \in Nat
  BY DEF ScanInv, ScanTypeOK
<1>4. r \in Seq(Time) /\ TailOf(r, issued[s]) /\ StaleBefore(r, issued[s], now) /\ Spaced(issued[s])
  BY <1>1, <1>2, EvictionInState
<1>5. window' = [window EXCEPT ![s] = r]
  BY <1>1
<1> HIDE DEF r
<1>6. /\ window' \in [Source -> Seq(Time)] /\ window'[s] = r
      /\ \A u \in Source \ {s} : window'[u] = window[u]
  BY <1>3, <1>4, <1>5, WindowUpdate
<1>7. answer' \in [kind : Kind, token : Nat, at : Time] /\ TokenInv' /\ AnswersHonest'
  BY <1>2, <1>3, PlainAnswer DEF Kind
<1>8. ScanTypeOK'
  BY <1>2, <1>3, <1>6, <1>7 DEF ScanTypeOK
<1>9. ASSUME NEW u \in Source
      PROVE  TailOf(window'[u], issued[u]) /\ StaleBefore(window'[u], issued[u], now) /\ Spaced(issued[u])
  <2>1. CASE u = s
    BY <2>1, <1>4, <1>6
  <2>2. CASE u # s
    BY <2>2, <1>2, <1>6 DEF ScanInv, ThrottleInv
  <2> QED BY <2>1, <2>2
<1>10. ThrottleInv'
  BY <1>2, <1>9 DEF ThrottleInv, TailOf, StaleBefore, Spaced
<1> QED BY <1>7, <1>8, <1>10 DEF ScanInv

(* Requests that change nothing but the answer.                            *)
LEMMA AnswerKeepsInv ==
    ASSUME ScanInv, UNCHANGED <<Ttl, now, tokens, window, seq, poisoned, issued>>,
           NEW kind \in Kind, NEW t \in Nat, Answer(kind, t),
           (kind = "admitted" /\ IsOn) => LiveAt(t, now),
           kind \in {"unknown", "expired"} => ~LiveAt(t, now)
    PROVE  ScanInv'
<1>1. answer' = [kind |-> kind, token |-> t, at |-> now] /\ now \in Time
  BY DEF Answer, ScanInv, ScanTypeOK
<1>2. ScanTypeOK'
  BY <1>1 DEF ScanInv, ScanTypeOK
<1>3. ThrottleInv' /\ TokenInv'
  BY DEF ScanInv, ThrottleInv, TokenInv, Origin, KnownUntilDead
<1>4. LiveAt(t, now)' <=> LiveAt(t, now)
  BY DEF LiveAt
<1>5. AnswersHonest'
  BY <1>1 DEF AnswersHonest, LiveAt, IsOn
<1> QED BY <1>2, <1>3, <1>5 DEF ScanInv

(* The map and the history agree on what is live.                          *)
LEMMA LiveIsInMap ==
    ASSUME ScanInv, NEW t \in Nat
    PROVE  LiveAt(t, now) <=> (t \in DOMAIN tokens /\ ~Dead(t))
<1>0. now \in Int /\ Ttl \in Nat /\ issued \in [Source -> Seq(Issue)]
  BY ScanAssumption DEF ScanInv, ScanTypeOK, Time
<1>1. ASSUME LiveAt(t, now) PROVE t \in DOMAIN tokens /\ ~Dead(t)
  <2>1. PICK s \in Source : \E n \in 1..Len(issued[s]) : issued[s][n].token = t /\ now < issued[s][n].at + Ttl
    BY <1>1 DEF LiveAt
  <2>2. PICK n \in 1..Len(issued[s]) : issued[s][n].token = t /\ now < issued[s][n].at + Ttl
    BY <2>1
  <2>3. KnownUntilDead(s, n)
    BY DEF ScanInv, TokenInv
  <2>4. issued[s][n].at \in Int
    BY <1>0, InstantOf
  <2> QED BY <1>0, <2>2, <2>3, <2>4 DEF KnownUntilDead, Dead
<1>2. ASSUME t \in DOMAIN tokens, ~Dead(t) PROVE LiveAt(t, now)
  <2>1. PICK s \in Source : \E n \in 1..Len(issued[s]) : issued[s][n].token = t /\ tokens[t] = issued[s][n].at + Ttl
    BY <1>2 DEF ScanInv, TokenInv, Origin
  <2>2. PICK n \in 1..Len(issued[s]) : issued[s][n].token = t /\ tokens[t] = issued[s][n].at + Ttl
    BY <2>1
  <2>3. issued[s][n].at \in Int
    BY <1>0, InstantOf
  <2>4. now < issued[s][n].at + Ttl
    BY <1>0, <1>2, <2>2, <2>3 DEF Dead
  <2> QED BY <2>2, <2>4 DEF LiveAt
<1> QED BY <1>1, <1>2

LEMMA AdmitExpiredKeepsInv ==
    ASSUME ScanInv, NEW t \in Nat, AdmitExpired(t)
    PROVE  ScanInv'
<1>1. /\ t \in DOMAIN tokens /\ Dead(t) /\ UNCHANGED <<Ttl, now, window, seq, poisoned, issued>>
      /\ tokens' = [u \in DOMAIN tokens \ {t} |-> tokens[u]]
      /\ answer' = [kind |-> "expired", token |-> t, at |-> now]
  BY DEF AdmitExpired, Answer
<1>2. now \in Time /\ now \in Int /\ Ttl \in Nat
  BY ScanAssumption DEF ScanInv, ScanTypeOK, Time
<1>3. ~LiveAt(t, now)
  BY <1>1, LiveIsInMap
<1>4. ScanTypeOK'
  BY <1>1, <1>2 DEF ScanInv, ScanTypeOK, Kind
<1>5. ThrottleInv'
  BY <1>1 DEF ScanInv, ThrottleInv
<1>6. ASSUME NEW s \in Source, NEW n \in 1..Len(issued[s]) PROVE KnownUntilDead(s, n)'
  <2>1. KnownUntilDead(s, n)
    BY DEF ScanInv, TokenInv
  <2>2. issued[s][n].at \in Int
    BY InstantOf DEF ScanInv, ScanTypeOK
  <2>3. CASE issued[s][n].token = t
    BY <1>1, <1>2, <2>1, <2>2, <2>3 DEF KnownUntilDead, Dead
  <2>4. CASE issued[s][n].token # t
    BY <1>1, <2>1, <2>4 DEF KnownUntilDead
  <2> QED BY <2>3, <2>4
<1>7. ASSUME NEW u \in DOMAIN tokens' PROVE Origin(u)'
  <2>1. u \in DOMAIN tokens /\ tokens'[u] = tokens[u]
    BY <1>1
  <2>2. Origin(u)
    BY <2>1 DEF ScanInv, TokenInv
  <2> QED BY <1>1, <2>1, <2>2 DEF Origin
<1>8. TokenInv'
  BY <1>1, <1>6, <1>7 DEF TokenInv
<1>9. AnswersHonest'
  BY <1>1, <1>3 DEF AnswersHonest, LiveAt
<1> QED BY <1>4, <1>5, <1>8, <1>9 DEF ScanInv

LEMMA ScanTickKeepsInv == ASSUME ScanInv, ScanTick PROVE ScanInv'
<1>1. /\ now \in Int /\ now' = now + 1 /\ now' \in Time /\ Ttl \in Nat /\ Minute \in Nat
      /\ UNCHANGED <<Ttl, tokens, window, seq, poisoned, issued, answer>>
      /\ issued \in [Source -> Seq(Issue)] /\ window \in [Source -> Seq(Time)]
  BY ScanAssumption DEF ScanTick, ScanInv, ScanTypeOK, Time
<1>2. ScanTypeOK'
  BY <1>1 DEF ScanInv, ScanTypeOK
<1>3. ASSUME NEW s \in Source, StaleBefore(window[s], issued[s], now)
      PROVE  StaleBefore(window[s], issued[s], now + 1)
  <2> SUFFICES ASSUME NEW n \in 1..(Len(issued[s]) - Len(window[s]))
               PROVE  issued[s][n].at + Minute <= now + 1
    BY DEF StaleBefore
  <2>1. issued[s] \in Seq(Issue) /\ Len(issued[s]) \in Nat /\ Len(window[s]) \in Nat
    BY <1>1, LenProperties
  <2>2. issued[s][n].at \in Int
    BY <2>1, InstantOf
  <2>3. issued[s][n].at + Minute <= now
    BY <1>3 DEF StaleBefore
  <2> QED BY <1>1, <2>2, <2>3
<1>4. ThrottleInv'
  BY <1>1, <1>3 DEF ScanInv, ThrottleInv
<1>5. ASSUME NEW s \in Source, NEW n \in 1..Len(issued[s]) PROVE KnownUntilDead(s, n)'
  <2>1. KnownUntilDead(s, n) /\ issued[s][n].at \in Int
    BY <1>1, InstantOf DEF ScanInv, TokenInv
  <2> QED BY <1>1, <2>1 DEF KnownUntilDead
<1>6. TokenInv'
  BY <1>1, <1>5 DEF ScanInv, TokenInv, Origin
<1>7. AnswersHonest'
  BY <1>1 DEF ScanInv, AnswersHonest, LiveAt, IsOn
<1> QED BY <1>2, <1>4, <1>6, <1>7 DEF ScanInv

(* An empty gate, at the start and after a restart.                        *)
LEMMA EmptyGate ==
    ASSUME Ttl \in Ttls, now \in Time, tokens = <<>>, window = [s \in Source |-> <<>>], seq = 0,
           poisoned = FALSE, issued = [s \in Source |-> <<>>],
           answer.kind = "start", answer \in [kind : Kind, token : Nat, at : Time]
    PROVE  ScanInv
<1>1. DOMAIN tokens = {}
  OBVIOUS
<1>2. ScanTypeOK
  BY <1>1, EmptySeq DEF ScanTypeOK
<1>3. ASSUME NEW s \in Source
      PROVE  /\ TailOf(window[s], issued[s]) /\ StaleBefore(window[s], issued[s], now)
             /\ Spaced(issued[s]) /\ 1..Len(issued[s]) = {}
  <2>1. window[s] = <<>> /\ issued[s] = <<>> /\ Len(issued[s]) = 0
    OBVIOUS
  <2> QED BY <2>1, EmptyDeque
<1>4. ThrottleInv
  BY <1>3 DEF ThrottleInv
<1>5. TokenInv
  BY <1>1, <1>3 DEF TokenInv
<1>6. AnswersHonest
  BY DEF AnswersHonest
<1> QED BY <1>2, <1>4, <1>5, <1>6 DEF ScanInv

LEMMA ScanInvInit == ScanInit => ScanInv
<1> SUFFICES ASSUME ScanInit PROVE ScanInv
  OBVIOUS
<1>1. answer.kind = "start" /\ answer \in [kind : Kind, token : Nat, at : Time] /\ now \in Time
  BY ScanAssumption DEF ScanInit, Kind, NoToken, Time
<1> QED BY <1>1, EmptyGate DEF ScanInit

LEMMA ScanRestartKeepsInv == ASSUME ScanInv, ScanRestart PROVE ScanInv'
<1>1. /\ now' = now /\ now \in Time /\ answer' = [kind |-> "start", token |-> 0, at |-> now]
      /\ Ttl' \in Ttls /\ tokens' = <<>> /\ window' = [s \in Source |-> <<>>] /\ seq' = 0
      /\ poisoned' = FALSE /\ issued' = [s \in Source |-> <<>>]
  BY DEF ScanRestart, ScanInv, ScanTypeOK, Answer, NoToken
<1>2. answer'.kind = "start" /\ answer' \in [kind : Kind, token : Nat, at : Time]
  BY <1>1 DEF Kind
<1>3. DOMAIN tokens' = {}
  BY <1>1
<1>4. ScanTypeOK'
  BY <1>1, <1>2, <1>3, EmptySeq DEF ScanTypeOK
<1>5. ASSUME NEW s \in Source
      PROVE  /\ TailOf(window'[s], issued'[s]) /\ StaleBefore(window'[s], issued'[s], now')
             /\ Spaced(issued'[s]) /\ 1..Len(issued'[s]) = {}
  <2>1. window'[s] = <<>> /\ issued'[s] = <<>> /\ Len(issued'[s]) = 0
    BY <1>1
  <2> QED BY <2>1, EmptyDeque
<1>6. ThrottleInv'
  BY <1>5 DEF ThrottleInv, TailOf, StaleBefore, Spaced
<1>7. TokenInv'
  BY <1>3, <1>5 DEF TokenInv
<1>8. AnswersHonest'
  BY <1>2 DEF AnswersHonest
<1> QED BY <1>4, <1>6, <1>7, <1>8 DEF ScanInv

(* Every step of the specification keeps the invariant.                    *)
LEMMA ScanInvStep == ASSUME ScanInv, [ScanNext]_scanVars PROVE ScanInv'
<1>1. ASSUME NEW s \in Source, IssueOpen(s) PROVE ScanInv'
  BY <1>1, AnswerKeepsInv DEF IssueOpen, Kind, NoToken
<1>2. ASSUME NEW t \in Presented, AdmitOpen(t) PROVE ScanInv'
  <2>1. t \in Nat /\ ~IsOn
    BY <1>2, ScanAssumption DEF AdmitOpen, Presented
  <2> QED BY <1>2, <2>1, AnswerKeepsInv DEF AdmitOpen, Kind
<1>3. CASE AdmitWithout
  BY <1>3, AnswerKeepsInv DEF AdmitWithout, Kind, NoToken
<1>4. ASSUME NEW t \in Presented, AdmitUnknown(t) PROVE ScanInv'
  <2>1. t \in Nat /\ ~LiveAt(t, now)
    BY <1>4, LiveIsInMap, ScanAssumption DEF AdmitUnknown, Presented
  <2> QED BY <1>4, <2>1, AnswerKeepsInv DEF AdmitUnknown, Kind
<1>5. ASSUME NEW t \in Presented, AdmitExpired(t) PROVE ScanInv'
  BY <1>5, AdmitExpiredKeepsInv, ScanAssumption DEF Presented
<1>6. ASSUME NEW t \in Presented, AdmitLive(t) PROVE ScanInv'
  <2>1. t \in Nat /\ LiveAt(t, now)
    BY <1>6, LiveIsInMap, ScanAssumption DEF AdmitLive, Presented
  <2> QED BY <1>6, <2>1, AnswerKeepsInv DEF AdmitLive, Kind
<1>7. CASE RequestPanics
  BY <1>7, AnswerKeepsInv DEF RequestPanics, Kind, NoToken
<1>8. CASE UNCHANGED scanVars
  BY <1>8 DEF scanVars, ScanInv, ScanTypeOK, ThrottleInv, TokenInv, KnownUntilDead, Origin,
              AnswersHonest, LiveAt, IsOn
<1> QED
  BY <1>1, <1>2, <1>3, <1>4, <1>5, <1>6, <1>7, <1>8, IssueTokenKeepsInv, IssuePanicsKeepsInv,
     IssueRefusedKeepsInv, ScanTickKeepsInv, ScanRestartKeepsInv DEF ScanNext

(* The invariant holds in every reachable state.                           *)
THEOREM ScanSafety == ScanSpec => []ScanInv
<1>1. ScanInit => ScanInv
  BY ScanInvInit
<1>2. ScanInv /\ [ScanNext]_scanVars => ScanInv'
  BY ScanInvStep
<1> QED
  BY <1>1, <1>2, PTL DEF ScanSpec

(* ScanGate's variables keep their types (scan.rs:42-48).                  *)
THEOREM ScanTypeCorrect == ScanSpec => []ScanTypeOK
<1>1. ScanInv => ScanTypeOK
  BY DEF ScanInv
<1> QED
  BY <1>1, ScanSafety, PTL

(* scan.rs:66-86: the token IssueLimit places after another of the same    *)
(* source is at least a Minute younger.                                    *)
THEOREM ScanIssuanceSpaced == ScanSpec => []IssuanceSpaced
<1>1. ScanInv => IssuanceSpaced
  BY DEF ScanInv, ThrottleInv, Spaced, IssuanceSpaced
<1> QED
  BY <1>1, ScanSafety, PTL

(* scan.rs:104-136: a token is admitted if and only if it was handed out   *)
(* less than Ttl ago.                                                      *)
THEOREM ScanAnswersHonest == ScanSpec => []AnswersHonest
<1>1. ScanInv => AnswersHonest
  BY DEF ScanInv
<1> QED
  BY <1>1, ScanSafety, PTL

----------------------------------------------------------------------------
(* How many tokens are alive needs the spacing over several Minutes: j     *)
(* limits apart are j Minutes apart.                                       *)
Chained(g) ==
    \A m, n \in 1..Len(g) : \A j \in Nat :
        n >= m + j * IssueLimit => g[n].at >= g[m].at + j * Minute

ChainInv ==
    IssueLimit > 0 =>
        \A s \in Source : Chained(issued[s]) /\ \A n \in 1..Len(issued[s]) : issued[s][n].at <= now

(* Products of the limit and of the Minute.                                *)
LEMMA OneLess ==
    ASSUME NEW a \in Nat, NEW j \in Nat, j > 0
    PROVE  j - 1 \in Nat /\ (j - 1) * a = j * a - a /\ j * a \in Nat
  BY SMT

LEMMA RoundedUp ==
    ASSUME NEW a \in Nat, NEW b \in Nat \ {0}
    PROVE  (a + b - 1) \div b \in Nat /\ ((a + b - 1) \div b) * b >= a
<1> DEFINE c == a + b - 1
           d == c \div b
<1>1. c \in Nat
  OBVIOUS
<1> HIDE DEF c
<1>2. d \in Nat /\ c = b * d + (c % b) /\ c % b \in 0..(b - 1)
  BY <1>1, SMT
<1>3. d * b = b * d
  BY <1>2, SMT
<1> QED BY <1>2, <1>3 DEF c

(* A token joins the chain at its end: it is a Minute younger than the one *)
(* a limit before it, which is in the chain.                               *)
LEMMA ChainGrows ==
    ASSUME IssueLimit > 0, NEW g \in Seq(Issue), NEW x \in Issue,
           Chained(g), Spaced(Append(g, x)), \A n \in 1..Len(g) : g[n].at <= x.at
    PROVE  Chained(Append(g, x))
<1> DEFINE h == Append(g, x)
<1>1. /\ h \in Seq(Issue) /\ Len(g) \in Nat /\ Len(h) = Len(g) + 1
      /\ (\A n \in 1..Len(g) : h[n] = g[n])
      /\ h[Len(g) + 1] = x /\ \A n \in 1..Len(h) : n \in 1..Len(g) \/ n = Len(g) + 1
  BY AppendLast
<1>2. Spaced(h)
  OBVIOUS
<1> HIDE DEF h
<1>3. IssueLimit \in Nat /\ Minute \in Nat
  BY ScanAssumption
<1>4. \A n \in 1..Len(h) : h[n].at \in Int
  BY <1>1, InstantOf
<1> SUFFICES ASSUME NEW m \in 1..Len(h), NEW n \in 1..Len(h), NEW j \in Nat, n >= m + j * IssueLimit
             PROVE  h[n].at >= h[m].at + j * Minute
  BY DEF Chained, h
<1>5. j * IssueLimit \in Nat /\ j * Minute \in Nat /\ m <= n
  <2>1. j * IssueLimit \in Nat /\ j * Minute \in Nat
    BY <1>3, SMT
  <2> QED BY <2>1, <1>1
<1>6. CASE n \in 1..Len(g)
  <2>1. m \in 1..Len(g)
    BY <1>1, <1>5, <1>6
  <2> QED BY <1>1, <1>6, <2>1 DEF Chained
<1>7. CASE n = Len(g) + 1 /\ j = 0
  <2>1. j * Minute = 0
    BY <1>3, <1>7
  <2>2. h[m].at <= h[n].at
    BY <1>1, <1>4, <1>7
  <2> QED BY <1>4, <2>1, <2>2
<1>8. CASE n = Len(g) + 1 /\ j > 0
  <2> DEFINE p == n - IssueLimit
  <2>1. /\ j - 1 \in Nat /\ (j - 1) * IssueLimit = j * IssueLimit - IssueLimit
        /\ (j - 1) * Minute = j * Minute - Minute /\ (j - 1) * IssueLimit \in Nat
    <3>1. j - 1 \in Nat /\ (j - 1) * IssueLimit = j * IssueLimit - IssueLimit
      BY <1>3, <1>8, OneLess
    <3>2. (j - 1) * Minute = j * Minute - Minute
      BY <1>3, <1>8, OneLess
    <3>3. (j - 1) * IssueLimit \in Nat
      BY <1>3, <3>1, SMT
    <3> QED BY <3>1, <3>2, <3>3
  <2>2. p >= m + (j - 1) * IssueLimit /\ p \in 1..Len(g)
    <3>1. p >= m + (j * IssueLimit - IssueLimit)
      BY <1>1, <1>3, <1>5
    <3>2. p >= m + (j - 1) * IssueLimit
      BY <3>1, <2>1
    <3>3. p >= m
      <4> DEFINE X == (j - 1) * IssueLimit
      <4>1. X \in Nat /\ p >= m + X /\ p \in Int /\ m \in Int
        BY <3>2, <2>1, <1>1, <1>3
      <4> HIDE DEF X
      <4> QED BY <4>1
    <3> QED BY <3>2, <3>3, <1>1, <1>3, <1>8
  <2> HIDE DEF p
  <2>3. m \in 1..Len(g)
    <3>1. m + (j - 1) * IssueLimit >= m
      BY <2>1
    <3> QED BY <1>1, <2>1, <2>2, <3>1
  <2>4. h[p].at >= h[m].at + (j - 1) * Minute
    BY <1>1, <2>1, <2>2, <2>3 DEF Chained
  <2>5. h[n].at >= h[p].at + Minute
    <3>1. n >= p + IssueLimit /\ p \in 1..Len(h)
      BY <1>1, <1>3, <2>2 DEF p
    <3> QED BY <1>2, <3>1 DEF Spaced
  <2>6. h[p].at \in Int /\ h[m].at \in Int /\ h[n].at \in Int
    BY <1>1, <1>4, <2>2
  <2> DEFINE X == j * Minute
             Y == (j - 1) * Minute
  <2>7. X \in Int /\ Y = X - Minute /\ h[p].at >= h[m].at + Y
    BY <1>5, <2>1, <2>4
  <2> HIDE DEF X, Y
  <2>8. h[n].at >= h[m].at + X
    <3> DEFINE last == h[n].at
               between == h[p].at
               first == h[m].at
               minute == Minute
    <3>1. /\ last \in Int /\ between \in Int /\ first \in Int /\ minute \in Int
          /\ X \in Int /\ Y = X - minute /\ between >= first + Y /\ last >= between + minute
      BY <1>3, <2>5, <2>6, <2>7
    <3> HIDE DEF last, between, first, minute
    <3>2. last >= first + X
      BY <3>1
    <3> QED BY <3>2 DEF last, first
  <2> QED BY <2>8 DEF X
<1> QED BY <1>1, <1>6, <1>7, <1>8

(* Steps that issue nothing and do not turn back the clock.                *)
LEMMA ClockKeepsChain ==
    ASSUME ScanInv, ChainInv, issued' = issued, now' \in Int, now <= now'
    PROVE  ChainInv'
<1> SUFFICES ASSUME IssueLimit > 0, NEW s \in Source, NEW n \in 1..Len(issued[s])
             PROVE  issued[s][n].at <= now'
  BY DEF ChainInv, Chained
<1>1. issued[s] \in Seq(Issue) /\ now \in Int
  BY DEF ScanInv, ScanTypeOK, Time
<1>2. issued[s][n].at \in Int /\ issued[s][n].at <= now
  BY <1>1, InstantOf DEF ChainInv
<1> QED BY <1>1, <1>2

LEMMA EmptyChain == ASSUME \A s \in Source : issued[s] = <<>> PROVE ChainInv
  BY DEF ChainInv, Chained

LEMMA ChainStep == ASSUME ScanInv, ScanInv', ChainInv, [ScanNext]_scanVars PROVE ChainInv'
<1>1. now \in Int /\ now <= now
  BY DEF ScanInv, ScanTypeOK, Time
<1>2. ASSUME NEW s \in Source, IssueToken(s) PROVE ChainInv'
  <2> DEFINE x == [token |-> seq + 1, at |-> now]
             h == Append(issued[s], x)
  <2>1. now' = now /\ issued' = [issued EXCEPT ![s] = h]
    BY <1>2 DEF IssueToken
  <2>2. issued \in [Source -> Seq(Issue)] /\ issued[s] \in Seq(Issue) /\ x \in Issue /\ x.at = now
    <3>1. seq \in Nat /\ now \in Time /\ issued \in [Source -> Seq(Issue)]
      BY DEF ScanInv, ScanTypeOK
    <3>2. seq + 1 \in Token
      BY <3>1 DEF Token
    <3> QED BY <3>1, <3>2 DEF Issue
  <2>3. issued'[s] = h /\ \A r \in Source \ {s} : issued'[r] = issued[r]
    BY <2>1, <2>2
  <2>4. Spaced(h)
    BY <2>3 DEF ScanInv, ThrottleInv, Spaced
  <2>5. /\ Len(issued[s]) \in Nat /\ (\A n \in 1..Len(issued[s]) : h[n] = issued[s][n])
        /\ h[Len(issued[s]) + 1] = x
        /\ \A n \in 1..Len(h) : n \in 1..Len(issued[s]) \/ n = Len(issued[s]) + 1
    BY <2>2, AppendLast
  <2> HIDE DEF x, h
  <2> SUFFICES ASSUME IssueLimit > 0 PROVE ChainInv'
    BY DEF ChainInv
  <2>6. Chained(h)
    <3>1. Chained(issued[s]) /\ Spaced(Append(issued[s], x)) /\ \A n \in 1..Len(issued[s]) : issued[s][n].at <= x.at
      BY <2>2, <2>4 DEF ChainInv, h
    <3> QED BY <2>2, <3>1, ChainGrows DEF h
  <2>7. \A n \in 1..Len(h) : h[n].at <= now
    BY <1>1, <2>2, <2>5 DEF ChainInv
  <2>8. ASSUME NEW r \in Source
        PROVE  Chained(issued'[r]) /\ \A n \in 1..Len(issued'[r]) : issued'[r][n].at <= now
    <3>1. CASE r = s
      BY <3>1, <2>3, <2>6, <2>7
    <3>2. CASE r # s
      BY <3>2, <2>3 DEF ChainInv
    <3> QED BY <3>1, <3>2
  <2> QED BY <2>1, <2>8 DEF ChainInv, Chained
<1>3. CASE ScanRestart
  <2>1. \A s \in Source : issued'[s] = <<>>
    BY <1>3 DEF ScanRestart
  <2> QED BY <2>1 DEF ChainInv, Chained
<1>4. CASE ScanTick
  BY <1>1, <1>4, ClockKeepsChain DEF ScanTick
<1>5. ASSUME NEW s \in Source, IssuePanics(s) \/ IssueRefused(s) \/ IssueOpen(s) PROVE ChainInv'
  BY <1>1, <1>5, ClockKeepsChain DEF IssuePanics, IssueRefused, IssueOpen
<1>6. ASSUME NEW t \in Presented, AdmitOpen(t) \/ AdmitUnknown(t) \/ AdmitExpired(t) \/ AdmitLive(t)
      PROVE  ChainInv'
  BY <1>1, <1>6, ClockKeepsChain DEF AdmitOpen, AdmitUnknown, AdmitExpired, AdmitLive
<1>7. CASE AdmitWithout \/ RequestPanics \/ UNCHANGED scanVars
  BY <1>1, <1>7, ClockKeepsChain DEF AdmitWithout, RequestPanics, scanVars
<1> QED BY <1>2, <1>3, <1>4, <1>5, <1>6, <1>7 DEF ScanNext

(* The live tokens are among the last IssueLimit * Minutes issued.         *)
LEMMA ChainBounds == ASSUME ScanInv, ChainInv PROVE LiveTokensBounded
<1> SUFFICES ASSUME IssueLimit > 0, NEW s \in Source
             PROVE  Cardinality(LiveTokens(s)) <= IssueLimit * Minutes
  BY DEF LiveTokensBounded
<1> DEFINE g == issued[s]
           K == IssueLimit * Minutes
           top == (Len(g) - K + 1)..Len(g)
<1>1. /\ g \in Seq(Issue) /\ Len(g) \in Nat /\ now \in Int /\ Ttl \in Nat
      /\ IssueLimit \in Nat /\ Minute \in Nat \ {0}
  BY ScanAssumption, LenProperties DEF ScanInv, ScanTypeOK, Time
<1>2. Minutes \in Nat /\ Minutes * Minute >= Ttl
  BY <1>1, RoundedUp DEF Minutes
<1>3. K \in Nat /\ K = Minutes * IssueLimit /\ Minutes * Minute \in Nat
  BY <1>1, <1>2, SMT
<1> HIDE DEF K
<1>4. ASSUME NEW n \in LiveTokens(s) PROVE n \in top
  <2>1. n \in 1..Len(g) /\ now < g[n].at + Ttl
    BY DEF LiveTokens
  <2>2. CASE n <= Len(g) - K
    <3>1. Len(g) \in 1..Len(g) /\ Len(g) >= n + Minutes * IssueLimit
      BY <1>1, <1>3, <2>1, <2>2
    <3>2. g[Len(g)].at >= g[n].at + Minutes * Minute /\ g[Len(g)].at <= now
      BY <1>2, <2>1, <3>1 DEF ChainInv, Chained
    <3>3. g[n].at \in Int /\ g[Len(g)].at \in Int
      BY <1>1, <2>1, <3>1, InstantOf
    <3> DEFINE W == Minutes * Minute
    <3>4. W \in Nat /\ W >= Ttl /\ g[Len(g)].at >= g[n].at + W
      BY <1>2, <1>3, <3>2
    <3> HIDE DEF W
    <3> DEFINE latest == g[Len(g)].at
               earlier == g[n].at
    <3>5. now >= earlier + W /\ now < earlier + Ttl
      <4>1. /\ latest \in Int /\ earlier \in Int /\ W \in Nat /\ now \in Int
            /\ latest >= earlier + W /\ latest <= now
        BY <1>1, <3>2, <3>3, <3>4
      <4> HIDE DEF latest, earlier
      <4>2. now >= earlier + W
        BY <4>1
      <4> QED BY <2>1, <4>2 DEF earlier
    <3> DEFINE at == g[n].at
               ttl == Ttl
    <3>6. /\ at \in Int /\ ttl \in Int /\ W \in Nat /\ now \in Int
          /\ W >= ttl /\ now >= at + W /\ now < at + ttl
      BY <1>1, <3>3, <3>4, <3>5
    <3> HIDE DEF at, ttl
    <3> QED BY <3>6
  <2> QED BY <1>1, <1>3, <2>1, <2>2
<1>5. IsFiniteSet(top) /\ Cardinality(top) <= K
  <2>1. Len(g) - K + 1 \in Int /\ Len(g) \in Int
    BY <1>1, <1>3
  <2>2. IsFiniteSet(top) /\ Cardinality(top) = IF Len(g) - K + 1 > Len(g) THEN 0 ELSE Len(g) - (Len(g) - K + 1) + 1
    BY <2>1, FS_Interval
  <2> QED BY <1>1, <1>3, <2>2
<1> HIDE DEF top
<1>6. IsFiniteSet(LiveTokens(s)) /\ Cardinality(LiveTokens(s)) <= Cardinality(top)
  BY <1>4, <1>5, FS_Subset
<1>7. Cardinality(top) \in Nat /\ Cardinality(LiveTokens(s)) \in Nat
  BY <1>5, <1>6, FS_CardinalityType
<1> QED BY <1>3, <1>5, <1>6, <1>7 DEF K

(* scan.rs:66-86 and :127: a source never holds more live tokens than the  *)
(* limit for every Minute, or part of one, that a token lives.             *)
THEOREM ScanLiveTokensBounded == ScanSpec => []LiveTokensBounded
<1>1. ScanInit => ChainInv
  BY EmptyChain DEF ScanInit
<1>2. ScanInv /\ ScanInv' /\ ChainInv /\ [ScanNext]_scanVars => ChainInv'
  BY ChainStep
<1>3. ScanInv /\ ChainInv => LiveTokensBounded
  BY ChainBounds
<1> QED
  BY <1>1, <1>2, <1>3, ScanSafety, PTL DEF ScanSpec
=============================================================================
