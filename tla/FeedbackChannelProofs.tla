------------------------- MODULE FeedbackChannelProofs -------------------------
(***************************************************************************)
(* The report route runs the window and the journal as they are: each of   *)
(* its behaviours is one of RateWindow and one of FeedbackStore, so that   *)
(* what is proved of the two holds of the route (ChannelRunsWindow,        *)
(* ChannelRunsJournal).  What the route adds, between the two locks, is    *)
(* ClaimsInv: an admission is a claim that one report is filed later, and  *)
(* by every instant the reports filed and the claims still open are no     *)
(* more than the admissions.                                               *)
(***************************************************************************)
EXTENDS FeedbackChannel, FeedbackStoreProofs

(* The window: FloodBound is not inductive, as it speaks of the admissions *)
(* of the past, while the guard of Grant looks at the deque.  WindowInv    *)
(* ties them together: the deque of an identifier is the tail of its       *)
(* admissions, and whatever was dropped from it is a Window old.           *)
TailOf(q, g) ==
    /\ Len(q) <= Len(g)
    /\ \A n \in 1..Len(q) : q[n] = g[(Len(g) - Len(q)) + n].stamp

OldBefore(q, g, now) == \A n \in 1..(Len(g) - Len(q)) : g[n].stamp + Window <= now

Spaced(g) ==
    \A m, n \in 1..Len(g) : n >= m + Limit => g[n].at >= g[m].stamp + Window

StampsPast == \A w \in Worker : call[w] # NoCall => call[w].stamp <= clock

DequeInv ==
    \A i \in Identifier :
        TailOf(seen[i], granted[i]) /\ OldBefore(seen[i], granted[i], clock) /\ Spaced(granted[i])

WindowInv == RateTypeOK /\ StampsPast /\ DequeInv

----------------------------------------------------------------------------
(* Facts about deques alone.                                               *)

(* Recorded instants are numbers.                                          *)
LEMMA InstantOf ==
    /\ \A q \in Seq(Instant) : \A n \in 1..Len(q) : q[n] \in Int
    /\ \A g \in Seq(Admission) : \A n \in 1..Len(g) : g[n].stamp \in Int
<1>1. Instant \subseteq Int
  BY DEF Instant
<1>2. ASSUME NEW q \in Seq(Instant), NEW n \in 1..Len(q) PROVE q[n] \in Int
  BY <1>1, ElementOfSeq
<1>3. ASSUME NEW g \in Seq(Admission), NEW n \in 1..Len(g) PROVE g[n].stamp \in Int
  <2>1. g[n] \in Admission
    BY ElementOfSeq
  <2> QED BY <1>1, <2>1 DEF Admission
<1> QED BY <1>2, <1>3

(* Nothing recorded and nothing admitted.                                  *)
LEMMA EmptyDeque ==
    ASSUME NEW q, NEW g, q = << >>, g = << >>, NEW c
    PROVE  TailOf(q, g) /\ OldBefore(q, g, c) /\ Spaced(g)
<1>1. Len(q) = 0 /\ Len(g) = 0
  OBVIOUS
<1>2. 1..Len(q) = {} /\ 1..Len(g) = {} /\ 1..(Len(g) - Len(q)) = {} /\ Len(q) <= Len(g)
  BY <1>1
<1> QED BY <1>2 DEF TailOf, OldBefore, Spaced

(* Eviction: what the deque keeps is still the tail of the admissions, and *)
(* what it loses is a Window old, even when `now' lags behind the clock.   *)
LEMMA Evict ==
    ASSUME NEW q \in Seq(Instant), NEW g \in Seq(Admission),
           NEW k \in 0..Len(q), NEW now \in Instant, NEW c \in Instant, now <= c,
           NEW r \in Seq(Instant), Len(r) = Len(q) - k,
           \A n \in 1..(Len(q) - k) : r[n] = q[k + n],
           TailOf(q, g), OldBefore(q, g, c), ExpiredPrefix(q, k, now)
    PROVE  TailOf(r, g) /\ OldBefore(r, g, c)
<1>1. /\ Len(q) \in Nat /\ Len(g) \in Nat /\ k \in Nat /\ k <= Len(q) /\ Len(q) <= Len(g)
      /\ Window \in Nat /\ now \in Int /\ c \in Int
  BY LenProperties, RateAssumption DEF TailOf, Instant
<1>2. TailOf(r, g)
  <2>1. ASSUME NEW n \in 1..Len(r)
        PROVE  r[n] = g[(Len(g) - Len(r)) + n].stamp
    <3>1. r[n] = q[k + n] /\ k + n \in 1..Len(q)
      BY <1>1, <2>1
    <3>2. q[k + n] = g[(Len(g) - Len(q)) + (k + n)].stamp
      BY <3>1 DEF TailOf
    <3>3. (Len(g) - Len(r)) + n = (Len(g) - Len(q)) + (k + n)
      BY <1>1
    <3> QED BY <3>1, <3>2, <3>3
  <2> QED BY <1>1, <2>1 DEF TailOf
<1>3. ASSUME NEW n \in 1..(Len(g) - Len(r))
      PROVE  g[n].stamp + Window <= c
  <2>1. CASE n <= Len(g) - Len(q)
    BY <2>1, <1>1 DEF OldBefore
  <2>2. CASE n > Len(g) - Len(q)
    <3> DEFINE p == n - (Len(g) - Len(q))
    <3>1. p \in 1..k /\ p \in 1..Len(q) /\ (Len(g) - Len(q)) + p = n
      BY <2>2, <1>1
    <3>2. q[p] = g[n].stamp
      BY <3>1 DEF TailOf
    <3>3. now - q[p] >= Window
      BY <3>1 DEF ExpiredPrefix, Old
    <3>4. q[p] \in Int
      BY <3>1, InstantOf
    <3> QED BY <1>1, <3>2, <3>3, <3>4
  <2> QED BY <2>1, <2>2, <1>1
<1> QED BY <1>2, <1>3 DEF OldBefore

(* Admission: with fewer than Limit entries left in the deque, every       *)
(* admission Limit places back has been dropped, hence is a Window old.    *)
LEMMA Admit ==
    ASSUME NEW r \in Seq(Instant), NEW g \in Seq(Admission),
           NEW now \in Instant, NEW c \in Instant,
           TailOf(r, g), OldBefore(r, g, c), Spaced(g), HasRoom(Len(r))
    PROVE  LET h == Append(g, [stamp |-> now, at |-> c])
           IN  /\ h \in Seq(Admission)
               /\ TailOf(Append(r, now), h) /\ OldBefore(Append(r, now), h, c) /\ Spaced(h)
<1> DEFINE a == [stamp |-> now, at |-> c]
           h == Append(g, a)
           s == Append(r, now)
<1>1. a \in Admission
  BY DEF Admission
<1>2. h \in Seq(Admission) /\ Len(h) = Len(g) + 1 /\ (\A n \in 1..Len(g) : h[n] = g[n]) /\ h[Len(g) + 1] = a
      /\ \A n \in 1..Len(h) : n \in 1..Len(g) \/ n = Len(g) + 1
  BY <1>1, AppendLast
<1>3. Len(s) = Len(r) + 1 /\ (\A n \in 1..Len(r) : s[n] = r[n]) /\ s[Len(r) + 1] = now
  BY AppendLast
<1>4. a.stamp = now /\ a.at = c
  OBVIOUS
<1> HIDE DEF a, h, s
<1>5. Len(r) \in Nat /\ Len(g) \in Nat /\ Len(r) <= Len(g) /\ Limit \in Nat \ {0} /\ Window \in Nat
      /\ Len(r) < Limit /\ c \in Int
  BY LenProperties, RateAssumption DEF TailOf, HasRoom, Instant
<1>6. TailOf(s, h)
  <2>1. ASSUME NEW n \in 1..Len(r)
        PROVE  s[n] = h[(Len(h) - Len(s)) + n].stamp
    <3>1. (Len(h) - Len(s)) + n = (Len(g) - Len(r)) + n /\ (Len(g) - Len(r)) + n \in 1..Len(g)
      BY <1>2, <1>3, <1>5
    <3> QED BY <3>1, <1>2, <1>3 DEF TailOf
  <2>2. s[Len(r) + 1] = h[(Len(h) - Len(s)) + (Len(r) + 1)].stamp
    <3>1. (Len(h) - Len(s)) + (Len(r) + 1) = Len(g) + 1
      BY <1>2, <1>3, <1>5
    <3> QED BY <3>1, <1>2, <1>3, <1>4
  <2>3. ASSUME NEW n \in 1..Len(s) PROVE n \in 1..Len(r) \/ n = Len(r) + 1
    BY <1>3, <1>5
  <2>4. Len(s) <= Len(h)
    BY <1>2, <1>3, <1>5
  <2> QED BY <2>1, <2>2, <2>3, <2>4 DEF TailOf
<1>7. OldBefore(s, h, c)
  <2> SUFFICES ASSUME NEW n \in 1..(Len(h) - Len(s)) PROVE h[n].stamp + Window <= c
    BY DEF OldBefore
  <2>1. n \in 1..(Len(g) - Len(r)) /\ n \in 1..Len(g)
    BY <1>2, <1>3, <1>5
  <2> QED BY <2>1, <1>2 DEF OldBefore
<1>8. Spaced(h)
  <2> SUFFICES ASSUME NEW m \in 1..Len(h), NEW n \in 1..Len(h), n >= m + Limit
               PROVE  h[n].at >= h[m].stamp + Window
    BY DEF Spaced
  <2>1. m \in 1..Len(g)
    BY <1>2, <1>5
  <2>2. CASE n \in 1..Len(g)
    BY <2>1, <2>2, <1>2 DEF Spaced
  <2>3. CASE n = Len(g) + 1
    <3>1. m \in 1..(Len(g) - Len(r))
      BY <2>3, <1>5
    <3>2. g[m].stamp + Window <= c /\ h[n].at = c /\ h[m] = g[m]
      BY <2>1, <2>3, <3>1, <1>2, <1>4 DEF OldBefore
    <3>3. g[m].stamp \in Int
      BY <2>1, InstantOf
    <3> QED BY <3>2, <3>3, <1>5
  <2>4. n \in 1..Len(g) \/ n = Len(g) + 1
    BY <1>2
  <2> QED BY <2>2, <2>3, <2>4
<1> QED BY <1>2, <1>6, <1>7, <1>8 DEF h, s, a

----------------------------------------------------------------------------
(* A handler in the critical section holds a call with an identifier and   *)
(* an instant.                                                             *)
LEMMA BusyCall ==
    ASSUME RateTypeOK, NEW w \in Worker, call[w].status \in {"waiting", "granted", "refused"}
    PROVE  call[w] \in Call /\ call[w] # NoCall
  BY DEF RateTypeOK, NoCall

(* The step of one handler to another status keeps the calls well formed.  *)
LEMMA StatusStep ==
    ASSUME RateTypeOK, StampsPast, NEW w \in Worker, call[w].status = "waiting",
           NEW st \in {"granted", "refused"},
           call' = [call EXCEPT ![w].status = st], clock' = clock
    PROVE  call' \in [Worker -> Call \cup {NoCall}] /\ StampsPast'
<1>1. call[w] \in Call /\ call[w] # NoCall
  BY BusyCall
<1>2. [call[w] EXCEPT !.status = st] \in Call /\ [call[w] EXCEPT !.status = st].stamp = call[w].stamp
  BY <1>1 DEF Call
<1>3. call' = [call EXCEPT ![w] = [call[w] EXCEPT !.status = st]] /\ call \in [Worker -> Call \cup {NoCall}]
  BY DEF RateTypeOK
<1>4. call'[w] = [call[w] EXCEPT !.status = st] /\ \A v \in Worker \ {w} : call'[v] = call[v]
  BY <1>3
<1>5. call' \in [Worker -> Call \cup {NoCall}]
  BY <1>2, <1>3
<1>6. StampsPast'
  <2> SUFFICES ASSUME NEW v \in Worker, call'[v] # NoCall PROVE call'[v].stamp <= clock
    BY DEF StampsPast
  <2>1. CASE v = w
    BY <2>1, <1>1, <1>2, <1>4 DEF StampsPast
  <2>2. CASE v # w
    BY <2>2, <1>4 DEF StampsPast
  <2> QED BY <2>1, <2>2
<1> QED BY <1>5, <1>6

LEMMA InitWindowInv == RateInit => WindowInv
<1> SUFFICES ASSUME RateInit PROVE WindowInv
  OBVIOUS
<1>1. RateTypeOK
  BY RateAssumption, EmptySeq DEF RateInit, RateTypeOK, Instant, NoCall
<1>3. StampsPast
  BY DEF RateInit, StampsPast
<1>4. DequeInv
  BY EmptyDeque DEF DequeInv, RateInit
<1> QED
  BY <1>1, <1>3, <1>4 DEF WindowInv

(* Both outcomes of the critical section start with the same eviction.     *)
LEMMA EvictionInState ==
    ASSUME WindowInv, NEW w \in Worker, call[w].status = "waiting",
           NEW k \in 0..Len(seen[call[w].id]),
           ExpiredPrefix(seen[call[w].id], k, call[w].stamp)
    PROVE  LET q == seen[call[w].id]
               g == granted[call[w].id]
               r == SubSeq(q, k + 1, Len(q))
           IN  /\ call[w].id \in Identifier /\ call[w].stamp \in Instant /\ clock \in Instant
               /\ g \in Seq(Admission)
               /\ r \in Seq(Instant) /\ Len(r) = Len(q) - k
               /\ TailOf(r, g) /\ OldBefore(r, g, clock) /\ Spaced(g)
<1> DEFINE q == seen[call[w].id]
           g == granted[call[w].id]
           r == SubSeq(q, k + 1, Len(q))
<1>1. /\ call[w].id \in Identifier /\ call[w].stamp \in Instant /\ clock \in Instant
      /\ call[w].stamp <= clock
  BY BusyCall DEF WindowInv, RateTypeOK, StampsPast, Call
<1>2. /\ q \in Seq(Instant) /\ g \in Seq(Admission)
      /\ TailOf(q, g) /\ OldBefore(q, g, clock) /\ Spaced(g)
  BY <1>1 DEF WindowInv, RateTypeOK, DequeInv
<1>3. /\ r \in Seq(Instant) /\ Len(r) = Len(q) - k
      /\ \A n \in 1..(Len(q) - k) : r[n] = q[k + n]
  BY <1>2, DropPrefix
<1>4. k \in 0..Len(q) /\ ExpiredPrefix(q, k, call[w].stamp)
  OBVIOUS
<1> HIDE DEF q, g, r
<1>5. TailOf(r, g) /\ OldBefore(r, g, clock)
  BY <1>1, <1>2, <1>3, <1>4, Evict
<1> QED BY <1>1, <1>2, <1>3, <1>5 DEF q, g, r

LEMMA GrantKeepsInv ==
    ASSUME WindowInv, NEW w \in Worker, Grant(w)
    PROVE  WindowInv'
<1> DEFINE i == call[w].id
           now == call[w].stamp
           q == seen[i]
           g == granted[i]
<1>1. PICK k \in 0..Len(q) :
        /\ ExpiredPrefix(q, k, now)
        /\ HasRoom(Len(q) - k)
        /\ seen' = [seen EXCEPT ![i] = Append(SubSeq(q, k + 1, Len(q)), now)]
        /\ granted' = [granted EXCEPT ![i] = Append(g, [stamp |-> now, at |-> clock])]
  BY DEF Grant
<1> DEFINE r == SubSeq(q, k + 1, Len(q))
           h == Append(g, [stamp |-> now, at |-> clock])
<1>2. call[w].status = "waiting" /\ clock' = clock /\ call' = [call EXCEPT ![w].status = "granted"]
  BY DEF Grant
<1>3. /\ i \in Identifier /\ now \in Instant /\ clock \in Instant /\ g \in Seq(Admission)
      /\ r \in Seq(Instant) /\ Len(r) = Len(q) - k
      /\ TailOf(r, g) /\ OldBefore(r, g, clock) /\ Spaced(g)
  BY <1>1, <1>2, EvictionInState
<1>4. seen \in [Identifier -> Seq(Instant)] /\ granted \in [Identifier -> Seq(Admission)]
  BY DEF WindowInv, RateTypeOK
<1>5. HasRoom(Len(r))
  BY <1>1, <1>3
<1>6. seen' = [seen EXCEPT ![i] = Append(r, now)] /\ granted' = [granted EXCEPT ![i] = h]
  BY <1>1
<1>7. /\ h \in Seq(Admission)
      /\ TailOf(Append(r, now), h) /\ OldBefore(Append(r, now), h, clock) /\ Spaced(h)
  <2> HIDE DEF i, now, q, g, r
  <2> QED BY <1>3, <1>5, Admit
<1>8. Append(r, now) \in Seq(Instant)
  <2> HIDE DEF i, now, q, g, r
  <2> QED BY <1>3, AppendLast
<1> HIDE DEF i, now, q, g, r, h
<1>9. /\ seen'[i] = Append(r, now) /\ granted'[i] = h
      /\ \A j \in Identifier \ {i} : seen'[j] = seen[j] /\ granted'[j] = granted[j]
  BY <1>3, <1>4, <1>6
<1>10. call' \in [Worker -> Call \cup {NoCall}] /\ StampsPast'
  BY <1>2, StatusStep DEF WindowInv
<1>11. seen' \in [Identifier -> Seq(Instant)] /\ granted' \in [Identifier -> Seq(Admission)]
  BY <1>4, <1>6, <1>7, <1>8
<1>12. RateTypeOK'
  BY <1>2, <1>3, <1>10, <1>11 DEF RateTypeOK
<1>13. ASSUME NEW j \in Identifier
       PROVE  TailOf(seen'[j], granted'[j]) /\ OldBefore(seen'[j], granted'[j], clock) /\ Spaced(granted'[j])
  <2>1. CASE j = i
    BY <2>1, <1>7, <1>9
  <2>2. CASE j # i
    BY <2>2, <1>9 DEF WindowInv, DequeInv
  <2> QED BY <2>1, <2>2
<1>14. DequeInv'
  BY <1>2, <1>13 DEF DequeInv, TailOf, OldBefore, Spaced
<1> QED
  BY <1>10, <1>12, <1>14 DEF WindowInv

LEMMA RefuseKeepsInv ==
    ASSUME WindowInv, NEW w \in Worker, Refuse(w)
    PROVE  WindowInv'
<1> DEFINE i == call[w].id
           now == call[w].stamp
           q == seen[i]
           g == granted[i]
<1>1. PICK k \in 0..Len(q) :
        /\ ExpiredPrefix(q, k, now)
        /\ seen' = [seen EXCEPT ![i] = SubSeq(q, k + 1, Len(q))]
  BY DEF Refuse
<1> DEFINE r == SubSeq(q, k + 1, Len(q))
<1>2. /\ call[w].status = "waiting" /\ clock' = clock /\ granted' = granted
      /\ call' = [call EXCEPT ![w].status = "refused"]
  BY DEF Refuse
<1>3. /\ i \in Identifier /\ clock \in Instant
      /\ r \in Seq(Instant)
      /\ TailOf(r, g) /\ OldBefore(r, g, clock) /\ Spaced(g)
  BY <1>1, <1>2, EvictionInState
<1>4. seen \in [Identifier -> Seq(Instant)] /\ granted \in [Identifier -> Seq(Admission)]
  BY DEF WindowInv, RateTypeOK
<1>5. seen' = [seen EXCEPT ![i] = r] /\ granted'[i] = g
  BY <1>1, <1>2
<1> HIDE DEF i, now, q, g, r
<1>6. seen'[i] = r /\ \A j \in Identifier \ {i} : seen'[j] = seen[j]
  BY <1>3, <1>4, <1>5
<1>7. call' \in [Worker -> Call \cup {NoCall}] /\ StampsPast'
  BY <1>2, StatusStep DEF WindowInv
<1>8. RateTypeOK'
  BY <1>2, <1>3, <1>4, <1>5, <1>7 DEF RateTypeOK
<1>9. ASSUME NEW j \in Identifier
      PROVE  TailOf(seen'[j], granted'[j]) /\ OldBefore(seen'[j], granted'[j], clock) /\ Spaced(granted'[j])
  <2>1. CASE j = i
    BY <2>1, <1>3, <1>5, <1>6
  <2>2. CASE j # i
    BY <2>2, <1>2, <1>6 DEF WindowInv, DequeInv
  <2> QED BY <2>1, <2>2
<1>10. DequeInv'
  BY <1>2, <1>9 DEF DequeInv, TailOf, OldBefore, Spaced
<1> QED
  BY <1>7, <1>8, <1>10 DEF WindowInv

(* Time passing only makes the dropped admissions older.                   *)
LEMMA TickKeepsInv == ASSUME WindowInv, Tick PROVE WindowInv'
<1>1. clock \in Int /\ clock' = clock + 1 /\ clock' \in Instant /\ seen' = seen /\ granted' = granted /\ call' = call
  BY RateAssumption DEF Tick, WindowInv, RateTypeOK, Instant
<1>2. RateTypeOK'
  BY <1>1 DEF WindowInv, RateTypeOK
<1>3. StampsPast'
  <2> SUFFICES ASSUME NEW w \in Worker, call[w] # NoCall PROVE call[w].stamp <= clock + 1
    BY <1>1 DEF StampsPast
  <2>1. call[w].stamp \in Int /\ call[w].stamp <= clock
    BY DEF WindowInv, StampsPast, RateTypeOK, Call, Instant
  <2> QED BY <1>1, <2>1
<1>4. ASSUME NEW i \in Identifier PROVE OldBefore(seen[i], granted[i], clock + 1)
  <2>1. granted[i] \in Seq(Admission) /\ seen[i] \in Seq(Instant)
    BY DEF WindowInv, RateTypeOK
  <2>2. Len(granted[i]) \in Nat /\ Len(seen[i]) \in Nat
    BY <2>1, LenProperties
  <2> SUFFICES ASSUME NEW n \in 1..(Len(granted[i]) - Len(seen[i]))
               PROVE  granted[i][n].stamp + Window <= clock + 1
    BY DEF OldBefore
  <2>3. granted[i][n].stamp \in Int
    BY <2>1, <2>2, InstantOf
  <2>4. granted[i][n].stamp + Window <= clock
    BY DEF WindowInv, DequeInv, OldBefore
  <2> QED BY <1>1, <2>3, <2>4, RateAssumption
<1>5. DequeInv'
  BY <1>1, <1>4 DEF WindowInv, DequeInv
<1> QED BY <1>2, <1>3, <1>5 DEF WindowInv

(* Every step of the specification keeps the window invariant.             *)
LEMMA NextKeepsInv == ASSUME WindowInv, [RateNext]_rateVars PROVE WindowInv'
<1>1. ASSUME NEW w \in Worker, NEW i \in Identifier, Begin(w, i) PROVE WindowInv'
  <2>1. RateTypeOK'
    BY <1>1 DEF Begin, WindowInv, RateTypeOK, Call
  <2>2. StampsPast'
    BY <1>1 DEF Begin, WindowInv, RateTypeOK, StampsPast, Instant
  <2>3. DequeInv'
    BY <1>1 DEF Begin, WindowInv, DequeInv
  <2> QED BY <2>1, <2>2, <2>3 DEF WindowInv
<1>2. ASSUME NEW w \in Worker, Leave(w) PROVE WindowInv'
  <2>1. RateTypeOK'
    BY <1>2 DEF Leave, WindowInv, RateTypeOK
  <2>2. StampsPast'
    BY <1>2 DEF Leave, WindowInv, RateTypeOK, StampsPast
  <2>3. DequeInv'
    BY <1>2 DEF Leave, WindowInv, DequeInv
  <2> QED BY <2>1, <2>2, <2>3 DEF WindowInv
<1>3. CASE RateRestart
  <2>1. RateTypeOK'
    BY <1>3, EmptySeq DEF RateRestart, WindowInv, RateTypeOK
  <2>2. StampsPast'
    BY <1>3 DEF RateRestart, StampsPast
  <2>3. ASSUME NEW i \in Identifier
        PROVE  TailOf(seen'[i], granted'[i]) /\ OldBefore(seen'[i], granted'[i], clock') /\ Spaced(granted'[i])
    <3>1. seen'[i] = << >> /\ granted'[i] = << >>
      BY <1>3 DEF RateRestart
    <3> QED BY <3>1, EmptyDeque
  <2>4. DequeInv'
    BY <2>3 DEF DequeInv, TailOf, OldBefore, Spaced
  <2> QED BY <2>1, <2>2, <2>4 DEF WindowInv
<1>4. CASE UNCHANGED rateVars
  BY <1>4 DEF rateVars, WindowInv, RateTypeOK, StampsPast, DequeInv
<1> QED
  BY <1>1, <1>2, <1>3, <1>4, GrantKeepsInv, RefuseKeepsInv, TickKeepsInv DEF RateNext

(* The window invariant holds in every reachable state.                    *)
THEOREM RateSafety == RateSpec => []WindowInv
<1>1. RateInit => WindowInv
  BY InitWindowInv
<1>2. WindowInv /\ [RateNext]_rateVars => WindowInv'
  BY NextKeepsInv
<1> QED
  BY <1>1, <1>2, PTL DEF RateSpec

(* RateLimited's variables keep their types.                               *)
THEOREM RateTypeCorrect == RateSpec => []RateTypeOK
<1>1. WindowInv => RateTypeOK
  BY DEF WindowInv
<1> QED
  BY <1>1, RateSafety, PTL

(* The flood bound of feedback.rs:253-269: whatever the interleaving of    *)
(* handlers, the admission Limit places after another is made at least one *)
(* Window after the instant recorded for the earlier one.                  *)
THEOREM RateFloodBound == RateSpec => []FloodBound
<1>1. WindowInv => FloodBound
  BY DEF WindowInv, DequeInv, Spaced, FloodBound
<1> QED
  BY <1>1, RateSafety, PTL

----------------------------------------------------------------------------
(* A refusal counts entries of the deque, whose instants are in no order;  *)
(* the admissions behind them are in the order of the lock.                *)
InOrder(g, c) ==
    /\ \A n \in 1..Len(g) : g[n].stamp <= g[n].at /\ g[n].at <= c
    /\ \A m, n \in 1..Len(g) : m <= n => g[m].at <= g[n].at

OrderInv == \A i \in Identifier : InOrder(granted[i], clock)

(* An admission joins the others in the order of the lock.                 *)
LEMMA AdmitInOrder ==
    ASSUME NEW g \in Seq(Admission), NEW now \in Instant, NEW c \in Instant, now <= c, InOrder(g, c)
    PROVE  InOrder(Append(g, [stamp |-> now, at |-> c]), c)
<1> DEFINE a == [stamp |-> now, at |-> c]
           h == Append(g, a)
<1>1. a \in Admission /\ a.stamp = now /\ a.at = c
  BY DEF Admission
<1>2. /\ Len(g) \in Nat /\ Len(h) = Len(g) + 1 /\ (\A n \in 1..Len(g) : h[n] = g[n])
      /\ h[Len(g) + 1] = a /\ \A n \in 1..Len(h) : n \in 1..Len(g) \/ n = Len(g) + 1
  BY <1>1, AppendLast
<1> HIDE DEF a, h
<1>3. c \in Int /\ c <= c
  BY DEF Instant
<1>4. ASSUME NEW n \in 1..Len(h) PROVE h[n].stamp <= h[n].at /\ h[n].at <= c
  BY <1>1, <1>2, <1>3 DEF InOrder
<1>5. ASSUME NEW m \in 1..Len(h), NEW n \in 1..Len(h), m <= n PROVE h[m].at <= h[n].at
  <2>1. CASE n \in 1..Len(g)
    <3>1. m \in 1..Len(g)
      BY <2>1, <1>2, <1>5
    <3> QED BY <2>1, <3>1, <1>2, <1>5 DEF InOrder
  <2>2. CASE n = Len(g) + 1
    BY <2>2, <1>1, <1>2, <1>4
  <2> QED BY <2>1, <2>2, <1>2
<1> QED BY <1>4, <1>5 DEF InOrder, h, a

(* Whatever leaves the admissions alone and does not turn back the clock   *)
(* leaves them in order.                                                   *)
LEMMA ClockKeepsOrder ==
    ASSUME WindowInv, OrderInv, granted' = granted, clock' \in Int, clock <= clock'
    PROVE  OrderInv'
<1> SUFFICES ASSUME NEW i \in Identifier, NEW n \in 1..Len(granted[i]) PROVE granted[i][n].at <= clock'
  BY DEF OrderInv, InOrder
<1>1. granted[i] \in Seq(Admission) /\ clock \in Int
  BY DEF WindowInv, RateTypeOK, Instant
<1>2. granted[i][n] \in Admission
  BY <1>1, ElementOfSeq
<1>3. granted[i][n].at \in Int
  BY <1>2 DEF Admission, Instant
<1>4. granted[i][n].at <= clock
  BY DEF OrderInv, InOrder
<1> QED BY <1>1, <1>3, <1>4

LEMMA NextKeepsOrder == ASSUME WindowInv, OrderInv, [RateNext]_rateVars PROVE OrderInv'
<1>1. clock \in Int /\ clock <= clock
  BY DEF WindowInv, RateTypeOK, Instant
<1>2. ASSUME NEW w \in Worker, Grant(w) PROVE OrderInv'
  <2> DEFINE i == call[w].id
             h == Append(granted[i], [stamp |-> call[w].stamp, at |-> clock])
  <2>1. call[w].status = "waiting" /\ clock' = clock /\ granted' = [granted EXCEPT ![i] = h]
    BY <1>2 DEF Grant
  <2>2. /\ i \in Identifier /\ call[w].stamp \in Instant /\ clock \in Instant
        /\ call[w].stamp <= clock /\ granted \in [Identifier -> Seq(Admission)]
    BY <2>1, BusyCall DEF WindowInv, RateTypeOK, StampsPast, Call
  <2>3. InOrder(h, clock)
    BY <2>2, AdmitInOrder DEF OrderInv
  <2> HIDE DEF i, h
  <2>4. granted'[i] = h /\ \A j \in Identifier \ {i} : granted'[j] = granted[j]
    BY <2>1, <2>2
  <2>5. ASSUME NEW j \in Identifier PROVE InOrder(granted'[j], clock)
    <3>1. CASE j = i
      BY <3>1, <2>3, <2>4
    <3>2. CASE j # i
      BY <3>2, <2>4 DEF OrderInv
    <3> QED BY <3>1, <3>2
  <2> QED BY <2>1, <2>5 DEF OrderInv, InOrder
<1>3. CASE Tick
  BY <1>1, <1>3, ClockKeepsOrder DEF Tick
<1>4. CASE RateRestart
  <2>1. ASSUME NEW i \in Identifier PROVE granted'[i] = <<>>
    BY <1>4 DEF RateRestart
  <2>2. \A c : InOrder(<<>>, c)
    BY DEF InOrder
  <2> QED BY <2>1, <2>2 DEF OrderInv, InOrder
<1>5. ASSUME NEW w \in Worker,
             (\E i \in Identifier : Begin(w, i)) \/ Refuse(w) \/ Leave(w) \/ UNCHANGED rateVars
      PROVE  OrderInv'
  <2>1. granted' = granted /\ clock' = clock
    BY <1>5 DEF Begin, Refuse, Leave, rateVars
  <2> QED BY <2>1, <1>1, ClockKeepsOrder
<1>6. CASE UNCHANGED rateVars
  BY <1>1, <1>6, ClockKeepsOrder DEF rateVars
<1> QED BY <1>2, <1>3, <1>4, <1>5, <1>6 DEF RateNext

(* What a full deque shows: as many admissions as it keeps came after the  *)
(* instant of the first it keeps.                                          *)
LEMMA FullDeque ==
    ASSUME NEW q \in Seq(Instant), NEW g \in Seq(Admission), NEW c \in Instant,
           TailOf(q, g), InOrder(g, c), NEW now \in Instant,
           NEW k \in 0..Len(q), ExpiredPrefix(q, k, now), ~HasRoom(Len(q) - k)
    PROVE  Cardinality({n \in 1..Len(g) : g[n].at > now - Window}) >= Limit
<1> DEFINE recent == {n \in 1..Len(g) : g[n].at > now - Window}
           first == (Len(g) - Len(q)) + (k + 1)
<1>1. /\ Len(q) \in Nat /\ Len(g) \in Nat /\ k \in Nat /\ Len(q) <= Len(g)
      /\ Limit \in Nat \ {0} /\ Window \in Nat /\ now \in Int
  BY LenProperties, RateAssumption DEF TailOf, Instant
<1>2. Len(q) - k >= Limit /\ k < Len(q) /\ k + 1 \in 1..Len(q)
  BY <1>1 DEF HasRoom
<1>3. first \in 1..Len(g) /\ q[k + 1] = g[first].stamp
  BY <1>1, <1>2 DEF TailOf
<1>4. ~(now - g[first].stamp >= Window)
  BY <1>2, <1>3 DEF ExpiredPrefix, Old
<1>5. \A n \in 1..Len(g) : g[n].stamp \in Int /\ g[n].at \in Int
  <2> SUFFICES ASSUME NEW n \in 1..Len(g) PROVE g[n].stamp \in Int /\ g[n].at \in Int
    OBVIOUS
  <2>1. g[n] \in Admission
    BY ElementOfSeq
  <2> QED BY <2>1 DEF Admission, Instant
<1>12. Len(g) - first + 1 = Len(q) - k
  BY <1>1
<1> HIDE DEF first
<1>6. ASSUME NEW n \in first..Len(g) PROVE n \in recent
  <2>1. n \in 1..Len(g) /\ first <= n
    BY <1>1, <1>3
  <2>2. g[first].stamp <= g[first].at /\ g[first].at <= g[n].at
    BY <2>1, <1>3 DEF InOrder
  <2>3. g[n].at \in Int /\ g[first].stamp \in Int /\ g[first].at \in Int
    BY <2>1, <1>3, <1>5
  <2>4. now - g[first].stamp < Window
    BY <2>3, <1>1, <1>4
  <2>5. g[n].at > now - Window
    <3>1. g[first].stamp <= g[n].at
      BY <2>2, <2>3
    <3> HIDE DEF recent
    <3> QED BY <3>1, <2>3, <2>4, <1>1, SMTT(30)
  <2> QED BY <2>1, <2>5
<1>7. first \in Int /\ Len(g) \in Int /\ first <= Len(g)
  BY <1>1, <1>3
<1>8. IsFiniteSet(first..Len(g)) /\ Cardinality(first..Len(g)) = Len(g) - first + 1
  BY <1>7, FS_Interval
<1>9. IsFiniteSet(1..Len(g)) /\ recent \subseteq 1..Len(g)
  BY <1>1, FS_Interval
<1>10. IsFiniteSet(recent) /\ Cardinality(recent) \in Nat
  BY <1>9, FS_Subset, FS_CardinalityType
<1>11. Cardinality(first..Len(g)) <= Cardinality(recent)
  BY <1>6, <1>10, FS_Subset
<1> QED BY <1>1, <1>2, <1>8, <1>10, <1>11, <1>12

(* The window invariant and the order of the admissions together.          *)
THEOREM RateOrdered == RateSpec => []OrderInv
<1>1. RateInit => OrderInv
  <2>1. ASSUME RateInit, NEW i \in Identifier PROVE granted[i] = <<>>
    BY <2>1 DEF RateInit
  <2>2. \A c : InOrder(<<>>, c)
    BY DEF InOrder
  <2> QED BY <2>1, <2>2 DEF OrderInv
<1>2. WindowInv /\ OrderInv /\ [RateNext]_rateVars => OrderInv'
  BY NextKeepsOrder
<1> QED BY <1>1, <1>2, RateSafety, PTL DEF RateSpec

(* A step that refuses a handler finds Limit admissions of the last Window *)
(* before the instant that handler read.                                   *)
LEMMA RefusalIsJustified ==
    ASSUME WindowInv, OrderInv, [RateNext]_rateVars, NEW w \in Worker,
           call[w].status = "waiting", call'[w].status = "refused"
    PROVE  Cardinality({n \in 1..Len(granted[call[w].id]) :
                          granted[call[w].id][n].at > call[w].stamp - Window}) >= Limit
<1>1. call \in [Worker -> Call \cup {NoCall}] /\ call[w] \in Call
  BY BusyCall DEF WindowInv, RateTypeOK
<1>2. CASE Refuse(w)
  <2>1. PICK k \in 0..Len(seen[call[w].id]) :
            ExpiredPrefix(seen[call[w].id], k, call[w].stamp) /\ ~HasRoom(Len(seen[call[w].id]) - k)
    BY <1>2 DEF Refuse
  <2>2. call[w].id \in Identifier /\ call[w].stamp \in Instant /\ clock \in Instant
    BY <1>1 DEF Call, WindowInv, RateTypeOK
  <2>3. /\ seen[call[w].id] \in Seq(Instant) /\ granted[call[w].id] \in Seq(Admission)
        /\ TailOf(seen[call[w].id], granted[call[w].id]) /\ InOrder(granted[call[w].id], clock)
    BY <2>2 DEF WindowInv, RateTypeOK, DequeInv, OrderInv
  <2> QED BY <2>1, <2>2, <2>3, FullDeque
<1>3. CASE ~Refuse(w)
  <2>1. ASSUME NEW v \in Worker,
               (\E i \in Identifier : Begin(v, i)) \/ Grant(v) \/ (v # w /\ Refuse(v)) \/ Leave(v)
        PROVE  call'[w].status # "refused"
    <3>1. ASSUME NEW i \in Identifier, Begin(v, i) PROVE call'[w].status # "refused"
      BY <3>1, <1>1 DEF Begin
    <3>2. CASE Grant(v)
      <4>1. call' = [call EXCEPT ![v].status = "granted"]
        BY <3>2 DEF Grant
      <4>2. CASE v = w
        <5>1. call'[w] = [call[w] EXCEPT !.status = "granted"]
          BY <4>1, <4>2, <1>1
        <5> QED BY <5>1, <1>1 DEF Call
      <4>3. CASE v # w
        BY <4>1, <4>3, <1>1
      <4> QED BY <4>2, <4>3
    <3>3. CASE v # w /\ Refuse(v)
      BY <3>3, <1>1 DEF Refuse
    <3>4. CASE Leave(v)
      BY <3>4, <1>1 DEF Leave, NoCall
    <3> QED BY <2>1, <3>1, <3>2, <3>3, <3>4
  <2>2. Tick \/ RateRestart \/ UNCHANGED rateVars => call'[w].status # "refused"
    BY <1>1 DEF Tick, RateRestart, rateVars, NoCall
  <2> QED BY <1>3, <2>1, <2>2 DEF RateNext
<1> QED BY <1>2, <1>3

(* No refusal is gratuitous, whatever the interleaving (feedback.rs:261-   *)
(* 266).                                                                   *)
THEOREM RateRefusalJustified == RateSpec => RefusalJustified
<1>1. WindowInv /\ OrderInv /\ [RateNext]_rateVars =>
        [\A w \in Worker :
            (call[w].status = "waiting" /\ call'[w].status = "refused") =>
                LET h == granted[call[w].id]
                IN Cardinality({n \in 1..Len(h) : h[n].at > call[w].stamp - Window}) >= Limit]_rateVars
  BY RefusalIsJustified
<1> QED BY <1>1, RateSafety, RateOrdered, PTL DEF RateSpec, RefusalJustified

----------------------------------------------------------------------------
(* The route.                                                              *)
JobTypeOK == limiting \in BOOLEAN /\ job \in [Worker -> Job \cup {NoJob}]

(* Window, journal and jobs are well formed.                               *)
FormInv == WindowInv /\ StoreTypeOK /\ JobTypeOK

(* A handler that is being judged is judged for the report it carries; of  *)
(* the others only finitely many are at work, however many there may be.   *)
Claimants == InFlight({"admitted", "stamped"})

JobsInv ==
    /\ IsFiniteSet(Claimants)
    /\ \A w \in Worker : At(w, "admission") => call[w].id = job[w].about

(* The report of a claim is stamped by then, or can be stamped now.        *)
DueAt(w) == IF At(w, "admitted") THEN clock ELSE job[w].at

FiledBy(s, t) ==
    {n \in 1..Len(filed) : filed[n].life = life /\ filed[n].doc.id = s /\ filed[n].doc.at <= t}
ClaimedBy(s, t) == {w \in Claimants : job[w].about = s /\ DueAt(w) <= t}
AdmittedBy(s, t) == {n \in 1..Len(granted[s]) : granted[s][n].at <= t}

ClaimsInv ==
    limiting => \A s \in Subject, t \in Instant :
        Cardinality(FiledBy(s, t)) + Cardinality(ClaimedBy(s, t)) <= Cardinality(AdmittedBy(s, t))

----------------------------------------------------------------------------
(* The route and its two components.                                       *)

LEMMA JobAtWork ==
    ASSUME JobTypeOK, NEW w \in Worker, job[w].stage # "none"
    PROVE  job[w] \in Job
  BY DEF JobTypeOK, NoJob

LEMMA ChannelStepsWindow ==
    ASSUME [ChannelNext]_channelVars
    PROVE  [RateNext]_rateVars
<1>1. ASSUME NEW w \in Worker, NEW s \in Subject, NEW c \in StatedCategory, NEW sound \in BOOLEAN,
             Receive(w, s, c, sound)
      PROVE  [RateNext]_rateVars
  BY <1>1, ChannelAssumption DEF Receive, RateNext
<1>2. ASSUME NEW w \in Worker, HandlerStep(w)
      PROVE  [RateNext]_rateVars
  BY <1>2 DEF HandlerStep, AdmitReport, RefuseReport, AnswerRefused, StampReport, FileReport,
              RejectReport, LeaveWindow, RateNext
<1>3. CASE ChannelCrash
  BY <1>3 DEF ChannelCrash, RateNext
<1>4. CASE Opening \/ ReadReports
  BY <1>4 DEF Opening, ReadReports
<1>5. CASE ChannelTick
  BY <1>5 DEF ChannelTick, RateNext
<1>6. CASE UNCHANGED channelVars
  BY <1>6 DEF channelVars
<1> QED BY <1>1, <1>2, <1>3, <1>4, <1>5, <1>6 DEF ChannelNext

LEMMA ChannelStepsJournal ==
    ASSUME JobTypeOK, [ChannelNext]_channelVars
    PROVE  [StoreNext]_storeVars
<1>1. ASSUME NEW w \in Worker, NEW s \in Subject, NEW c \in StatedCategory, NEW sound \in BOOLEAN,
             Receive(w, s, c, sound)
      PROVE  [StoreNext]_storeVars
  BY <1>1 DEF Receive
<1>2. ASSUME NEW w \in Worker, At(w, "stamped")
      PROVE  job[w].about \in Subject /\ job[w].category \in StatedCategory /\ job[w].at \in ReportInstant
  BY <1>2, JobAtWork DEF At, Job
<1>3. ASSUME NEW w \in Worker, HandlerStep(w)
      PROVE  [StoreNext]_storeVars
  <2>1. ASSUME NEW left \in {"whole"} \cup WriteErrors, FileReport(w, left)
        PROVE  StoreNext
    BY <2>1, <1>2 DEF FileReport, StoreNext
  <2> QED BY <1>3, <2>1 DEF HandlerStep, AdmitReport, RefuseReport, AnswerRefused, StampReport, RejectReport
<1>4. CASE ChannelCrash
  <2>1. ASSUME NEW w \in Worker, NEW left \in {"whole", "nothing"} \cup CrashTears, CrashInFile(w, left)
        PROVE  StoreNext
    BY <2>1, <1>2 DEF CrashInFile, StoreNext
  <2> QED BY <1>4, <2>1 DEF ChannelCrash, StoreNext
<1>5. CASE Opening \/ ReadReports
  BY <1>5 DEF Opening, ReadReports, StoreNext
<1>6. CASE ChannelTick
  BY <1>6 DEF ChannelTick
<1>7. CASE UNCHANGED channelVars
  BY <1>7 DEF channelVars
<1> QED BY <1>1, <1>3, <1>4, <1>5, <1>6, <1>7 DEF ChannelNext

(* What each step does to the jobs: one handler's is replaced, or all go,  *)
(* or none changes.                                                        *)
LEMMA JobMoves ==
    ASSUME RateTypeOK, JobTypeOK, [ChannelNext]_channelVars
    PROVE  \/ \E w \in Worker, j \in Job \cup {NoJob} : job' = [job EXCEPT ![w] = j] /\ limiting' = limiting
           \/ job' = [w \in Worker |-> NoJob] /\ limiting' \in BOOLEAN
           \/ job' = job /\ limiting' = limiting
<1>1. ASSUME NEW w \in Worker, NEW s \in Subject, NEW c \in StatedCategory, NEW sound \in BOOLEAN,
             Receive(w, s, c, sound)
      PROVE  \E j \in Job : job' = [job EXCEPT ![w] = j] /\ limiting' = limiting
  <2> DEFINE j == [stage |-> IF limiting THEN "admission" ELSE "admitted",
                   about |-> s, category |-> c, sound |-> sound, at |-> clock]
  <2>1. j \in Job
    BY ChannelAssumption DEF RateTypeOK, Job
  <2> QED BY <2>1, <1>1 DEF Receive
<1>2. ASSUME NEW w \in Worker, job[w] \in Job, NEW st \in {"admitted", "refused", "stamped"}
      PROVE  [job[w] EXCEPT !.stage = st] \in Job
  BY <1>2 DEF Job
<1>3. ASSUME NEW w \in Worker, AdmitReport(w) \/ RefuseReport(w)
      PROVE  \E j \in Job : job' = [job EXCEPT ![w] = j] /\ limiting' = limiting
  <2>1. job[w] \in Job
    BY <1>3, JobAtWork DEF AdmitReport, RefuseReport, At
  <2> QED BY <1>2, <1>3, <2>1 DEF AdmitReport, RefuseReport, JobTypeOK
<1>4. ASSUME NEW w \in Worker, StampReport(w)
      PROVE  \E j \in Job : job' = [job EXCEPT ![w] = j] /\ limiting' = limiting
  <2>1. job[w] \in Job
    BY <1>4, JobAtWork DEF StampReport, At
  <2> DEFINE j == [[job[w] EXCEPT !.stage = "stamped"] EXCEPT !.at = clock]
  <2>2. j \in Job
    BY <2>1, ChannelAssumption DEF Job, RateTypeOK
  <2>3. job' = [job EXCEPT ![w] = j]
    BY <1>4 DEF StampReport, JobTypeOK
  <2> QED BY <2>2, <2>3, <1>4 DEF StampReport
<1>5. ASSUME NEW w \in Worker, HandlerStep(w)
      PROVE  \E j \in Job \cup {NoJob} : job' = [job EXCEPT ![w] = j] /\ limiting' = limiting
  BY <1>3, <1>4, <1>5 DEF HandlerStep, AnswerRefused, FileReport, RejectReport
<1>6. CASE ChannelCrash
  BY <1>6 DEF ChannelCrash
<1>7. CASE Opening \/ ReadReports \/ ChannelTick \/ UNCHANGED channelVars
  BY <1>7 DEF Opening, ReadReports, ChannelTick, channelVars
<1> QED BY <1>1, <1>5, <1>6, <1>7 DEF ChannelNext

LEMMA FormStep == ASSUME FormInv, [ChannelNext]_channelVars PROVE FormInv'
<1>1. WindowInv'
  BY ChannelStepsWindow, NextKeepsInv DEF FormInv
<1>2. StoreTypeOK'
  BY ChannelStepsJournal, TypeStep DEF FormInv
<1>3. JobTypeOK'
  BY JobMoves DEF FormInv, WindowInv, JobTypeOK
<1> QED BY <1>1, <1>2, <1>3 DEF FormInv

LEMMA FormInit == ASSUME ChannelInit PROVE FormInv
  BY InitWindowInv, TypeInit DEF ChannelInit, FormInv, JobTypeOK

(* api.rs:254-302: the window, the journal and the handlers keep the form   *)
(* the further proofs rest on.                                             *)
THEOREM ChannelFormed == ChannelSpec => []FormInv
  BY FormInit, FormStep, PTL DEF ChannelSpec

(* The state of the report route keeps its type (api.rs:254-302).          *)
THEOREM ChannelTypeCorrect == ChannelSpec => []ChannelTypeOK
<1>1. FormInv => ChannelTypeOK
  BY DEF FormInv, WindowInv, JobTypeOK, ChannelTypeOK
<1> QED BY <1>1, ChannelFormed, PTL

(* api.rs:282: the route uses the window as RateWindow has it, restarts    *)
(* included.                                                               *)
THEOREM ChannelRunsWindow == ChannelSpec => RateSpec
<1>1. ChannelInit => RateInit
  BY DEF ChannelInit
<1>2. [ChannelNext]_channelVars => [RateNext]_rateVars
  BY ChannelStepsWindow
<1> QED BY <1>1, <1>2, PTL DEF ChannelSpec, RateSpec

(* api.rs:290-301: the route uses the journal as FeedbackStore has it,     *)
(* with every crash in the middle of a write.                              *)
THEOREM ChannelRunsJournal == ChannelSpec => StoreSpec
<1>1. ChannelInit => StoreInit
  BY DEF ChannelInit
<1>2. FormInv /\ [ChannelNext]_channelVars => [StoreNext]_storeVars
  BY ChannelStepsJournal DEF FormInv
<1> QED BY <1>1, <1>2, ChannelFormed, PTL DEF ChannelSpec, StoreSpec

(* The guarantees of the parts are guarantees of the route: the flood      *)
(* bound, and that no refusal is gratuitous (feedback.rs:234-266).         *)
THEOREM ChannelKeepsWindow == ChannelSpec => []FloodBound /\ RefusalJustified
  BY ChannelRunsWindow, RateFloodBound, RateRefusalJustified, PTL

(* The journal keeps on the route what it promises by itself: receipts are *)
(* cited, replay is sound, a process that has the file has lost nothing    *)
(* that complete writes put there, and damage is bounded, opens that fail  *)
(* and processes without a file included (feedback.rs:131-198,             *)
(* api.rs:181-185).                                                        *)
THEOREM ChannelKeepsJournal ==
    ChannelSpec => /\ []FreshReceiptsCited /\ []ReplayNeverInvents
                   /\ []DurableWithoutFaults /\ []DamageBounded
  BY ChannelRunsJournal, ReceiptsCited, ReplaySound, StoreDurable, DamageContained, PTL

----------------------------------------------------------------------------
(* The claims.                                                             *)

LEMMA WorkerFrame ==
    ASSUME JobTypeOK, NEW w \in Worker, NEW j, job' = [job EXCEPT ![w] = j]
    PROVE  job'[w] = j /\ \A v \in Worker \ {w} : job'[v] = job[v]
  BY DEF JobTypeOK

(* One handler more, or one less.                                          *)
LEMMA ClaimantsStep ==
    ASSUME RateTypeOK, JobTypeOK, IsFiniteSet(Claimants), [ChannelNext]_channelVars
    PROVE  IsFiniteSet(Claimants')
<1>1. ASSUME NEW w \in Worker, NEW j \in Job \cup {NoJob}, job' = [job EXCEPT ![w] = j]
      PROVE  IsFiniteSet(Claimants')
  <2>1. Claimants' \subseteq Claimants \cup {w}
    BY <1>1, WorkerFrame DEF Claimants, InFlight
  <2>2. IsFiniteSet(Claimants \cup {w})
    BY FS_AddElement
  <2> QED BY <2>1, <2>2, FS_Subset
<1>2. CASE job' = [w \in Worker |-> NoJob]
  <2>1. Claimants' = {}
    BY <1>2 DEF Claimants, InFlight, NoJob
  <2> QED BY <2>1, FS_EmptySet
<1>3. CASE job' = job
  <2>1. Claimants' = Claimants
    BY <1>3 DEF Claimants, InFlight
  <2> QED BY <2>1
<1> QED BY <1>1, <1>2, <1>3, JobMoves

LEMMA JobsStep ==
    ASSUME RateTypeOK, JobTypeOK, JobsInv, [ChannelNext]_channelVars
    PROVE  JobsInv'
<1>1. IsFiniteSet(Claimants')
  BY ClaimantsStep DEF JobsInv
<1> SUFFICES ASSUME NEW v \in Worker, job'[v].stage = "admission"
             PROVE  call'[v].id = job'[v].about
  BY <1>1 DEF JobsInv, At
<1>2. call \in [Worker -> Call \cup {NoCall}]
  BY DEF RateTypeOK
<1>3. job[v].stage = "admission" => call[v].id = job[v].about
  BY DEF JobsInv, At
<1>4. ASSUME NEW w \in Worker, NEW s \in Subject, NEW c \in StatedCategory, NEW sound \in BOOLEAN,
             Receive(w, s, c, sound)
      PROVE  call'[v].id = job'[v].about
  <2> DEFINE j == [stage |-> IF limiting THEN "admission" ELSE "admitted",
                   about |-> s, category |-> c, sound |-> sound, at |-> clock]
  <2>1. job' = [job EXCEPT ![w] = j] /\ (limiting => Begin(w, s)) /\ (~limiting => call' = call)
    BY <1>4 DEF Receive, rateVars
  <2>0. j.about = s /\ (j.stage = "admission" => limiting)
    OBVIOUS
  <2> HIDE DEF j
  <2>2. job'[w] = j /\ \A u \in Worker \ {w} : job'[u] = job[u]
    BY <2>1, WorkerFrame
  <2>3. CASE v = w
    <3>1. limiting /\ job'[v].about = s
      BY <2>0, <2>2, <2>3
    <3>2. call' = [call EXCEPT ![w] = [status |-> "waiting", id |-> s, stamp |-> clock]]
      BY <2>1, <3>1 DEF Begin
    <3> QED BY <1>2, <2>3, <3>1, <3>2
  <2>4. CASE v # w
    <3>1. call'[v] = call[v]
      BY <1>2, <2>1, <2>4 DEF Begin
    <3> QED BY <1>3, <2>2, <2>4, <3>1
  <2> QED BY <2>3, <2>4
<1>5. ASSUME NEW w \in Worker, HandlerStep(w)
      PROVE  call'[v].id = job'[v].about
  <2>1. v # w
    <3>1. job'[w].stage # "admission"
      <4>1. CASE AdmitReport(w) \/ RefuseReport(w)
        <5>1. job[w] \in Job
          BY <4>1, JobAtWork DEF AdmitReport, RefuseReport, At
        <5> QED BY <4>1, <5>1 DEF AdmitReport, RefuseReport, JobTypeOK, Job
      <4>2. CASE StampReport(w)
        <5>1. job[w] \in Job
          BY <4>2, JobAtWork DEF StampReport, At
        <5> QED BY <4>2, <5>1 DEF StampReport, JobTypeOK, Job
      <4>3. CASE job' = [job EXCEPT ![w] = NoJob]
        <5>1. job'[w] = NoJob
          BY <4>3, WorkerFrame
        <5> QED BY <5>1 DEF NoJob
      <4> QED BY <1>5, <4>1, <4>2, <4>3 DEF HandlerStep, AnswerRefused, FileReport, RejectReport
    <3> QED BY <3>1
  <2>2. job'[v] = job[v]
    BY <1>5, <2>1 DEF HandlerStep, AdmitReport, RefuseReport, AnswerRefused, StampReport, FileReport,
                      RejectReport, JobTypeOK
  <2>3. call'[v] = call[v]
    BY <1>2, <1>5, <2>1 DEF HandlerStep, AdmitReport, RefuseReport, AnswerRefused, StampReport, FileReport,
                            RejectReport, LeaveWindow, Grant, Refuse, Leave, rateVars
  <2> QED BY <1>3, <2>2, <2>3
<1>6. CASE ChannelCrash
  BY <1>6 DEF ChannelCrash, NoJob
<1>7. CASE Opening \/ ReadReports \/ ChannelTick \/ UNCHANGED channelVars
  BY <1>3, <1>7 DEF Opening, ReadReports, ChannelTick, Tick, channelVars, rateVars
<1> QED BY <1>4, <1>5, <1>6, <1>7 DEF ChannelNext

(* All three sets are finite.                                              *)
LEMMA CountsFinite ==
    ASSUME RateTypeOK, StoreTypeOK, IsFiniteSet(Claimants), NEW s \in Subject, NEW t
    PROVE  /\ IsFiniteSet(FiledBy(s, t)) /\ IsFiniteSet(ClaimedBy(s, t)) /\ IsFiniteSet(AdmittedBy(s, t))
           /\ Cardinality(FiledBy(s, t)) \in Nat
           /\ Cardinality(ClaimedBy(s, t)) \in Nat
           /\ Cardinality(AdmittedBy(s, t)) \in Nat
<1>1. Len(filed) \in Nat /\ Len(granted[s]) \in Nat
  BY ChannelAssumption, LenProperties DEF StoreTypeOK, RateTypeOK
<1>2. IsFiniteSet(1..Len(filed)) /\ IsFiniteSet(1..Len(granted[s]))
  BY <1>1, FS_Interval
<1>3. /\ FiledBy(s, t) \subseteq 1..Len(filed)
      /\ ClaimedBy(s, t) \subseteq Claimants
      /\ AdmittedBy(s, t) \subseteq 1..Len(granted[s])
  BY DEF FiledBy, ClaimedBy, AdmittedBy
<1>4. IsFiniteSet(FiledBy(s, t)) /\ IsFiniteSet(ClaimedBy(s, t)) /\ IsFiniteSet(AdmittedBy(s, t))
  BY <1>2, <1>3, FS_Subset
<1> QED BY <1>4, FS_CardinalityType

(* Steps that file nothing and admit nothing may only give up claims.      *)
LEMMA NothingMore ==
    ASSUME FormInv, FormInv', JobsInv, JobsInv', NEW s \in Subject, NEW t \in Instant,
           Cardinality(FiledBy(s, t)) + Cardinality(ClaimedBy(s, t)) <= Cardinality(AdmittedBy(s, t)),
           filed' = filed, life' = life, granted' = granted,
           ClaimedBy(s, t)' \subseteq ClaimedBy(s, t)
    PROVE  Cardinality(FiledBy(s, t)') + Cardinality(ClaimedBy(s, t)') <= Cardinality(AdmittedBy(s, t)')
<1>1. FiledBy(s, t)' = FiledBy(s, t) /\ AdmittedBy(s, t)' = AdmittedBy(s, t)
  BY DEF FiledBy, AdmittedBy
<1>2. /\ IsFiniteSet(ClaimedBy(s, t)) /\ Cardinality(ClaimedBy(s, t)) \in Nat
      /\ Cardinality(FiledBy(s, t)) \in Nat /\ Cardinality(AdmittedBy(s, t)) \in Nat
  BY CountsFinite DEF FormInv, WindowInv, JobsInv
<1>3. Cardinality(ClaimedBy(s, t)') <= Cardinality(ClaimedBy(s, t)) /\ Cardinality(ClaimedBy(s, t)') \in Nat
  BY <1>2, FS_Subset, FS_CardinalityType
<1> QED BY <1>1, <1>2, <1>3

(* The handler that gives up its claim leaves the others as they are.      *)
LEMMA OtherClaims ==
    ASSUME JobTypeOK, NEW w \in Worker, NEW j, job' = [job EXCEPT ![w] = j], clock' = clock,
           NEW s \in Subject, NEW t
    PROVE  /\ \A v \in Worker \ {w} : v \in ClaimedBy(s, t)' <=> v \in ClaimedBy(s, t)
           /\ j.stage \notin {"admitted", "stamped"} => ClaimedBy(s, t)' = ClaimedBy(s, t) \ {w}
<1>1. job'[w] = j /\ \A v \in Worker \ {w} : job'[v] = job[v]
  BY WorkerFrame
<1> QED BY <1>1 DEF ClaimedBy, Claimants, InFlight, DueAt, At

(* An admission is a new claim, due at once.                               *)
LEMMA AdmissionClaims ==
    ASSUME FormInv, FormInv', JobsInv, JobsInv', NEW s \in Subject, NEW t \in Instant,
           Cardinality(FiledBy(s, t)) + Cardinality(ClaimedBy(s, t)) <= Cardinality(AdmittedBy(s, t)),
           NEW w \in Worker, AdmitReport(w)
    PROVE  Cardinality(FiledBy(s, t)') + Cardinality(ClaimedBy(s, t)') <= Cardinality(AdmittedBy(s, t)')
<1> DEFINE i == job[w].about
           x == [stamp |-> call[w].stamp, at |-> clock]
           j == [job[w] EXCEPT !.stage = "admitted"]
           l == Len(granted[s])
<1>1. job[w] \in Job /\ job[w].stage = "admission" /\ call[w].id = i /\ i \in Subject
  BY JobAtWork DEF AdmitReport, At, FormInv, JobsInv, Job
<1>2. j.stage = "admitted" /\ j.about = i
  BY <1>1 DEF Job
<1>3. call[w] \in Call /\ x \in Admission
  BY BusyCall DEF AdmitReport, Grant, FormInv, WindowInv, RateTypeOK, Call, Admission
<1>4. /\ granted \in [Subject -> Seq(Admission)]
      /\ granted' = [granted EXCEPT ![i] = Append(granted[i], x)]
      /\ clock' = clock /\ filed' = filed /\ life' = life
      /\ job' = [job EXCEPT ![w] = j]
  BY <1>1, ChannelAssumption DEF AdmitReport, Grant, FormInv, WindowInv, RateTypeOK, JobTypeOK, storeVars
<1>5. FiledBy(s, t)' = FiledBy(s, t)
  BY <1>4 DEF FiledBy
<1>6. /\ IsFiniteSet(ClaimedBy(s, t)) /\ IsFiniteSet(AdmittedBy(s, t))
      /\ Cardinality(ClaimedBy(s, t)) \in Nat
      /\ Cardinality(FiledBy(s, t)) \in Nat /\ Cardinality(AdmittedBy(s, t)) \in Nat
  BY CountsFinite DEF FormInv, WindowInv, JobsInv
<1>7. w \notin ClaimedBy(s, t)
  BY <1>1 DEF ClaimedBy, Claimants, InFlight
<1>8. \A v \in Worker \ {w} : v \in ClaimedBy(s, t)' <=> v \in ClaimedBy(s, t)
  BY <1>4, OtherClaims DEF FormInv
<1>9. w \in ClaimedBy(s, t)' <=> (i = s /\ clock <= t)
  <2>1. job'[w] = j
    BY <1>4 DEF FormInv, JobTypeOK
  <2> HIDE DEF j, i
  <2> QED BY <1>2, <1>4, <2>1 DEF ClaimedBy, Claimants, InFlight, DueAt, At
<1>10. ClaimedBy(s, t) \subseteq Worker /\ ClaimedBy(s, t)' \subseteq Worker
  BY DEF ClaimedBy, Claimants, InFlight
<1>11. CASE i = s /\ clock <= t
  <2>1. ClaimedBy(s, t)' = ClaimedBy(s, t) \cup {w}
    BY <1>8, <1>9, <1>10, <1>11
  <2>2. granted'[s] = Append(granted[s], x) /\ x.at = clock
    BY <1>1, <1>4, <1>11
  <2>3. /\ l \in Nat /\ Len(granted'[s]) = l + 1
        /\ \A n \in 1..l : granted'[s][n] = granted[s][n]
        /\ granted'[s][l + 1] = x
    <3>1. granted[s] \in Seq(Admission)
      BY <1>4
    <3> HIDE DEF x
    <3> QED BY <1>3, <2>2, <3>1, AppendLast
  <2>4. AdmittedBy(s, t)' = AdmittedBy(s, t) \cup {l + 1} /\ l + 1 \notin AdmittedBy(s, t)
    <3> HIDE DEF x, l
    <3>1. 1..(l + 1) = 1..l \cup {l + 1} /\ l + 1 \notin 1..l
      BY <2>3
    <3> QED BY <1>11, <2>2, <2>3, <3>1 DEF AdmittedBy, l
  <2>5. Cardinality(ClaimedBy(s, t)') = Cardinality(ClaimedBy(s, t)) + 1
    BY <1>6, <1>7, <2>1, FS_AddElement
  <2>6. Cardinality(AdmittedBy(s, t)') = Cardinality(AdmittedBy(s, t)) + 1
    BY <1>6, <2>4, FS_AddElement
  <2> QED BY <1>5, <1>6, <2>5, <2>6
<1>12. CASE ~(i = s /\ clock <= t)
  <2>1. ClaimedBy(s, t)' = ClaimedBy(s, t)
    BY <1>7, <1>8, <1>9, <1>10, <1>12
  <2>2. AdmittedBy(s, t)' = AdmittedBy(s, t)
    <3>1. CASE i # s
      BY <1>1, <1>4, <3>1 DEF AdmittedBy
    <3>2. CASE i = s /\ ~(clock <= t)
      <4>1. granted'[s] = Append(granted[s], x) /\ x.at = clock
        BY <1>1, <1>4, <3>2
      <4>2. /\ l \in Nat /\ Len(granted'[s]) = l + 1
            /\ \A n \in 1..l : granted'[s][n] = granted[s][n]
            /\ granted'[s][l + 1] = x
        <5>1. granted[s] \in Seq(Admission)
          BY <1>4
        <5> HIDE DEF x
        <5> QED BY <1>3, <4>1, <5>1, AppendLast
      <4> HIDE DEF x, l
      <4>3. 1..(l + 1) = 1..l \cup {l + 1} /\ l + 1 \notin 1..l
        BY <4>2
      <4> QED BY <3>2, <4>1, <4>2, <4>3 DEF AdmittedBy, l
    <3> QED BY <1>12, <3>1, <3>2
  <2> QED BY <1>5, <2>1, <2>2
<1> QED BY <1>11, <1>12

(* A report that is filed uses up the claim of its handler.                *)
LEMMA FilingUsesClaim ==
    ASSUME FormInv, FormInv', JobsInv, JobsInv', NEW s \in Subject, NEW t \in Instant,
           Cardinality(FiledBy(s, t)) + Cardinality(ClaimedBy(s, t)) <= Cardinality(AdmittedBy(s, t)),
           NEW w \in Worker, NEW left \in {"whole"} \cup WriteErrors, FileReport(w, left)
    PROVE  Cardinality(FiledBy(s, t)') + Cardinality(ClaimedBy(s, t)') <= Cardinality(AdmittedBy(s, t)')
<1> DEFINE i == job[w].about
           at == job[w].at
           r == NewRecord(i, job[w].category, at)
           l == Len(filed)
<1>1. /\ job[w].stage = "stamped"
      /\ i \in Subject /\ job[w].category \in StatedCategory /\ at \in ReportInstant
  BY JobAtWork DEF FileReport, At, FormInv, Job
<1>2. Submit(i, job[w].category, at, left)
  BY DEF FileReport
<1>3. /\ r \in Record /\ l \in Nat /\ Len(filed') = l + 1
      /\ \A n \in 1..l : filed'[n] = filed[n]
      /\ filed'[l + 1].doc = Wire(r) /\ filed'[l + 1].life = life
  BY <1>1, <1>2, SubmissionFacts DEF FormInv
<1>4. Wire(r).id = i /\ Wire(r).at = at
  <2>1. r.id = i /\ r.at = at
    BY DEF NewRecord
  <2> HIDE DEF r
  <2> QED BY <1>3, <2>1 DEF Wire, Record
<1>5. life' = life
  BY <1>2 DEF Submit
<1>6. /\ granted' = granted /\ clock' = clock /\ job' = [job EXCEPT ![w] = NoJob]
  BY DEF FileReport, LeaveWindow, Leave, rateVars
<1>7. AdmittedBy(s, t)' = AdmittedBy(s, t)
  BY <1>6 DEF AdmittedBy
<1>8. ClaimedBy(s, t)' = ClaimedBy(s, t) \ {w}
  <2>1. NoJob.stage \notin {"admitted", "stamped"}
    BY DEF NoJob
  <2> QED BY <1>6, <2>1, OtherClaims DEF FormInv
<1>9. w \in ClaimedBy(s, t) <=> (i = s /\ at <= t)
  BY <1>1 DEF ClaimedBy, Claimants, InFlight, DueAt, At
<1>10. /\ IsFiniteSet(ClaimedBy(s, t)) /\ IsFiniteSet(FiledBy(s, t))
       /\ Cardinality(ClaimedBy(s, t)) \in Nat
       /\ Cardinality(FiledBy(s, t)) \in Nat /\ Cardinality(AdmittedBy(s, t)) \in Nat
  BY CountsFinite DEF FormInv, WindowInv, JobsInv
<1>11. 1..(l + 1) = 1..l \cup {l + 1} /\ l + 1 \notin 1..l
  BY <1>3
<1> HIDE DEF r, l
<1>12. CASE i = s /\ at <= t
  <2>1. FiledBy(s, t)' = FiledBy(s, t) \cup {l + 1} /\ l + 1 \notin FiledBy(s, t)
    BY <1>3, <1>4, <1>5, <1>11, <1>12 DEF FiledBy, l
  <2>2. Cardinality(FiledBy(s, t)') = Cardinality(FiledBy(s, t)) + 1
    BY <1>10, <2>1, FS_AddElement
  <2>3. Cardinality(ClaimedBy(s, t)') = Cardinality(ClaimedBy(s, t)) - 1
    <3>1. w \in ClaimedBy(s, t)
      BY <1>9, <1>12
    <3> QED BY <1>8, <1>10, <3>1, FS_RemoveElement
  <2> QED BY <1>7, <1>10, <2>2, <2>3
<1>13. CASE ~(i = s /\ at <= t)
  <2>1. FiledBy(s, t)' = FiledBy(s, t)
    BY <1>3, <1>4, <1>5, <1>11, <1>13 DEF FiledBy, l
  <2>2. ClaimedBy(s, t)' = ClaimedBy(s, t)
    BY <1>8, <1>9, <1>13
  <2> QED BY <1>7, <2>1, <2>2
<1> QED BY <1>12, <1>13

(* The next process starts without reports of its own and without claims.  *)
LEMMA CrashEndsClaims ==
    ASSUME FormInv, FreshInv, ChannelCrash, NEW s \in Subject, NEW t \in Instant
    PROVE  FiledBy(s, t)' = {} /\ ClaimedBy(s, t)' = {}
<1>1. ClaimedBy(s, t)' = {}
  BY DEF ChannelCrash, ClaimedBy, Claimants, InFlight, NoJob
<1>2. life \in Nat /\ Len(filed) \in Nat /\ \A n \in 1..Len(filed) : filed[n].life \in Nat /\ filed[n].life <= life
  BY LenProperties, FilingFacts DEF FormInv, FreshInv, StoreTypeOK
<1>3. ASSUME NEW n \in 1..Len(filed'), life' = life + 1,
             n \in 1..Len(filed) => filed'[n] = filed[n],
             n \in 1..Len(filed) \/ filed'[n].life = life
      PROVE  n \notin FiledBy(s, t)'
  BY <1>2, <1>3 DEF FiledBy
<1>4. CASE Crash
  BY <1>3, <1>1, <1>4 DEF Crash, Down, FiledBy
<1>5. ASSUME NEW w \in Worker, NEW left \in {"whole", "nothing"} \cup CrashTears, CrashInFile(w, left)
      PROVE  FiledBy(s, t)' = {}
  <2> DEFINE i == job[w].about
             c == job[w].category
             at == job[w].at
  <2>1. i \in Subject /\ c \in StatedCategory /\ at \in ReportInstant
    BY <1>5, JobAtWork DEF CrashInFile, At, FormInv, Job
  <2>2. CrashInSubmit(i, c, at, left)
    BY <1>5 DEF CrashInFile
  <2>3. /\ \A n \in 1..Len(filed) : filed'[n] = filed[n]
        /\ filed'[Len(filed) + 1].life = life
        /\ \A n \in 1..Len(filed') : n \in 1..Len(filed) \/ n = Len(filed) + 1
    BY <2>1, <2>2, SubmissionFacts DEF FormInv
  <2>4. life' = life + 1
    BY <2>2 DEF CrashInSubmit, Down
  <2>5. \A n \in 1..Len(filed') : n \notin FiledBy(s, t)'
    BY <1>3, <2>3, <2>4
  <2> QED BY <2>5 DEF FiledBy
<1> QED BY <1>1, <1>4, <1>5 DEF ChannelCrash

LEMMA ClaimsStep ==
    ASSUME FormInv, FormInv', JobsInv, JobsInv', FreshInv, ClaimsInv, [ChannelNext]_channelVars
    PROVE  ClaimsInv'
<1> SUFFICES ASSUME limiting', NEW s \in Subject, NEW t \in Instant
             PROVE  Cardinality(FiledBy(s, t)') + Cardinality(ClaimedBy(s, t)') <= Cardinality(AdmittedBy(s, t)')
  BY DEF ClaimsInv
<1> DEFINE Bound == Cardinality(FiledBy(s, t)) + Cardinality(ClaimedBy(s, t)) <= Cardinality(AdmittedBy(s, t))
<1>1. limiting => Bound
  BY DEF ClaimsInv
<1>2. JobTypeOK /\ clock \in Int /\ t \in Int
  BY DEF FormInv, WindowInv, RateTypeOK, Instant
<1>3. ASSUME NEW w \in Worker, NEW c \in StatedCategory, NEW i \in Subject, NEW sound \in BOOLEAN,
             Receive(w, i, c, sound)
      PROVE  Bound'
  <2>1. limiting /\ filed' = filed /\ life' = life /\ clock' = clock /\ granted' = granted
    BY <1>3 DEF Receive, Begin, storeVars
  <2> DEFINE j == [stage |-> "admission", about |-> i, category |-> c, sound |-> sound, at |-> clock]
  <2>2. job' = [job EXCEPT ![w] = j] /\ j.stage = "admission"
    BY <1>3, <2>1 DEF Receive
  <2> HIDE DEF j
  <2>3. ClaimedBy(s, t)' = ClaimedBy(s, t) \ {w}
    BY <1>2, <2>1, <2>2, OtherClaims
  <2> QED BY <1>1, <2>1, <2>3, NothingMore
<1>4. ASSUME NEW w \in Worker, HandlerStep(w)
      PROVE  Bound'
  <2>1. limiting
    BY <1>4 DEF HandlerStep, AdmitReport, RefuseReport, AnswerRefused, StampReport, FileReport, RejectReport
  <2>2. CASE AdmitReport(w)
    BY <1>1, <2>1, <2>2, AdmissionClaims
  <2>3. CASE RefuseReport(w)
    <3> DEFINE j == [job[w] EXCEPT !.stage = "refused"]
    <3>1. job[w] \in Job
      BY <1>2, <2>3, JobAtWork DEF RefuseReport, At
    <3>2. job' = [job EXCEPT ![w] = j] /\ j.stage = "refused"
      BY <2>3, <3>1 DEF RefuseReport, JobTypeOK, Job
    <3>3. filed' = filed /\ life' = life /\ clock' = clock /\ granted' = granted
      BY <2>3 DEF RefuseReport, Refuse, storeVars
    <3> HIDE DEF j
    <3>4. ClaimedBy(s, t)' = ClaimedBy(s, t) \ {w}
      BY <1>2, <3>2, <3>3, OtherClaims
    <3> QED BY <1>1, <2>1, <3>3, <3>4, NothingMore
  <2>4. CASE AnswerRefused(w) \/ RejectReport(w)
    <3>1. /\ filed' = filed /\ life' = life /\ clock' = clock /\ granted' = granted
          /\ job' = [job EXCEPT ![w] = NoJob]
      BY <2>4 DEF AnswerRefused, RejectReport, LeaveWindow, Leave, storeVars, rateVars
    <3>2. NoJob.stage \notin {"admitted", "stamped"}
      BY DEF NoJob
    <3>3. ClaimedBy(s, t)' = ClaimedBy(s, t) \ {w}
      BY <1>2, <3>1, <3>2, OtherClaims
    <3> QED BY <1>1, <2>1, <3>1, <3>3, NothingMore
  <2>5. CASE StampReport(w)
    <3> DEFINE j == [[job[w] EXCEPT !.stage = "stamped"] EXCEPT !.at = clock]
    <3>1. job[w] \in Job /\ job[w].stage = "admitted"
      BY <1>2, <2>5, JobAtWork DEF StampReport, At
    <3>2. job' = [job EXCEPT ![w] = j]
      BY <1>2, <2>5 DEF StampReport, JobTypeOK
    <3>3. j.stage = "stamped" /\ j.about = job[w].about /\ j.at = clock
      BY <3>1 DEF Job
    <3>4. filed' = filed /\ life' = life /\ clock' = clock /\ granted' = granted
      BY <2>5 DEF StampReport, storeVars, rateVars
    <3> HIDE DEF j
    <3>5. \A v \in Worker \ {w} : v \in ClaimedBy(s, t)' <=> v \in ClaimedBy(s, t)
      BY <1>2, <3>2, <3>4, OtherClaims
    <3>6. job'[w] = j
      BY <1>2, <3>2, WorkerFrame
    <3>7. w \in ClaimedBy(s, t)' => w \in ClaimedBy(s, t)
      BY <3>1, <3>3, <3>6 DEF ClaimedBy, Claimants, InFlight, DueAt, At
    <3>8. ClaimedBy(s, t)' \subseteq Worker
      BY DEF ClaimedBy, Claimants, InFlight
    <3>9. ClaimedBy(s, t)' \subseteq ClaimedBy(s, t)
      BY <3>5, <3>7, <3>8
    <3> QED BY <1>1, <2>1, <3>4, <3>9, NothingMore
  <2>6. ASSUME NEW left \in {"whole"} \cup WriteErrors, FileReport(w, left)
        PROVE  Bound'
    BY <1>1, <2>1, <2>6, FilingUsesClaim
  <2> QED BY <1>4, <2>2, <2>3, <2>4, <2>5, <2>6 DEF HandlerStep
<1>5. CASE ChannelCrash
  <2>1. FiledBy(s, t)' = {} /\ ClaimedBy(s, t)' = {}
    BY <1>5, CrashEndsClaims
  <2>2. Cardinality(AdmittedBy(s, t)') \in Nat
    <3>1. Len(granted'[s]) \in Nat
      BY ChannelAssumption, LenProperties DEF FormInv, WindowInv, RateTypeOK
    <3>2. IsFiniteSet(1..Len(granted'[s]))
      BY <3>1, FS_Interval
    <3>3. AdmittedBy(s, t)' \subseteq 1..Len(granted'[s])
      BY DEF AdmittedBy
    <3> QED BY <3>2, <3>3, FS_Subset, FS_CardinalityType
  <2> QED BY <2>1, <2>2, FS_EmptySet
<1>6. CASE ChannelTick
  <2>1. /\ limiting /\ filed' = filed /\ life' = life /\ granted' = granted /\ job' = job /\ clock' = clock + 1
    BY <1>6 DEF ChannelTick, Tick, storeVars
  <2>2. ClaimedBy(s, t)' \subseteq ClaimedBy(s, t)
    BY <1>2, <2>1 DEF ClaimedBy, Claimants, InFlight, DueAt, At
  <2> QED BY <1>1, <2>1, <2>2, NothingMore
<1>7. CASE Opening \/ ReadReports \/ UNCHANGED channelVars
  <2>1. /\ limiting /\ filed' = filed /\ life' = life /\ granted' = granted /\ job' = job /\ clock' = clock
    BY <1>7, InMemoryFacts, UnseenFacts
       DEF Opening, ReadReports, Open, ReplayLine, OpenDone, Read, channelVars, storeVars, rateVars
  <2>2. ClaimedBy(s, t)' = ClaimedBy(s, t)
    BY <2>1 DEF ClaimedBy, Claimants, InFlight, DueAt, At
  <2> QED BY <1>1, <2>1, <2>2, NothingMore
<1> QED BY <1>3, <1>4, <1>5, <1>6, <1>7 DEF ChannelNext

(* The invariant of the route.                                             *)
ChannelInv == FormInv /\ JobsInv /\ ClaimsInv

LEMMA ChannelInvInit == ASSUME ChannelInit PROVE JobsInv /\ ClaimsInv
<1>1. FormInv /\ job = [w \in Worker |-> NoJob] /\ filed = <<>>
  BY FormInit DEF ChannelInit, StoreInit
<1>2. Claimants = {} /\ \A w \in Worker : ~At(w, "admission")
  BY <1>1 DEF Claimants, InFlight, NoJob, At
<1>3. JobsInv
  BY <1>2, FS_EmptySet DEF JobsInv
<1>4. ASSUME NEW s \in Subject, NEW t \in Instant
      PROVE  Cardinality(FiledBy(s, t)) + Cardinality(ClaimedBy(s, t)) <= Cardinality(AdmittedBy(s, t))
  <2>1. FiledBy(s, t) = {} /\ ClaimedBy(s, t) = {}
    BY <1>1, <1>2 DEF FiledBy, ClaimedBy
  <2>2. Cardinality(AdmittedBy(s, t)) \in Nat
    BY <1>1, <1>3, CountsFinite DEF FormInv, WindowInv, JobsInv
  <2> QED BY <2>1, <2>2, FS_EmptySet
<1> QED BY <1>3, <1>4 DEF ClaimsInv

(* api.rs:282-296: the inductive invariant of the report route: filed and   *)
(* claimed reports against the admissions, by every instant.               *)
THEOREM ChannelSafety == ChannelSpec => []ChannelInv
<1>1. ChannelInit => JobsInv /\ ClaimsInv
  BY ChannelInvInit
<1>2. FormInv /\ JobsInv /\ [ChannelNext]_channelVars => JobsInv'
  BY JobsStep DEF FormInv, WindowInv
<1>3. FormInv /\ FormInv' /\ JobsInv /\ JobsInv' /\ FreshInv /\ ClaimsInv /\ [ChannelNext]_channelVars => ClaimsInv'
  BY ClaimsStep
<1>4. StoreInv => FreshInv
  BY DEF StoreInv
<1>5. FormInv /\ JobsInv /\ ClaimsInv => ChannelInv
  BY DEF ChannelInv
<1> QED
  BY <1>1, <1>2, <1>3, <1>4, <1>5, ChannelFormed, ChannelRunsJournal, StoreSafety, PTL DEF ChannelSpec

(* api.rs:282-291: no report is filed before its admission, by any instant *)
(* and for any number of handlers.                                         *)
THEOREM ReportsStampedAfterAdmission == ChannelSpec => []StampedAfterAdmission
<1>1. ChannelInv => StampedAfterAdmission
  <2> SUFFICES ASSUME ChannelInv, limiting, NEW s \in Subject, NEW t \in Instant
               PROVE  Cardinality(FiledBy(s, t)) <= Cardinality(AdmittedBy(s, t))
    BY DEF StampedAfterAdmission, FiledBy, AdmittedBy
  <2>1. Cardinality(FiledBy(s, t)) + Cardinality(ClaimedBy(s, t)) <= Cardinality(AdmittedBy(s, t))
    BY DEF ChannelInv, ClaimsInv
  <2>2. /\ Cardinality(FiledBy(s, t)) \in Nat /\ Cardinality(ClaimedBy(s, t)) \in Nat
        /\ Cardinality(AdmittedBy(s, t)) \in Nat
    BY CountsFinite DEF ChannelInv, FormInv, WindowInv, JobsInv
  <2> QED BY <2>1, <2>2
<1> QED BY <1>1, ChannelSafety, PTL

(* api.rs:282-296: an admission files one report at most.                  *)
THEOREM EveryReportAdmitted == ChannelSpec => []FiledWasAdmitted
<1>1. ChannelInv => FiledWasAdmitted
  <2> SUFFICES ASSUME ChannelInv, limiting, NEW s \in Subject
               PROVE  Cardinality({n \in 1..Len(filed) : filed[n].life = life /\ filed[n].doc.id = s})
                        + Cardinality({w \in Claimants : job[w].about = s}) <= Len(granted[s])
    BY DEF FiledWasAdmitted, Claimants
  <2> DEFINE t == MaxClock
             F == {n \in 1..Len(filed) : filed[n].life = life /\ filed[n].doc.id = s}
             C == {w \in Claimants : job[w].about = s}
  <2>1. t \in Instant /\ \A u \in Instant : u <= t
    BY RateAssumption DEF Instant
  <2>2. \A n \in 1..Len(filed) : filed[n].doc.at <= t
    BY <2>1, FilingFacts, ChannelAssumption DEF ChannelInv, FormInv, Record
  <2>3. \A w \in Claimants : DueAt(w) <= t
    <3> SUFFICES ASSUME NEW w \in Claimants PROVE DueAt(w) <= t
      OBVIOUS
    <3>1. w \in Worker /\ job[w] \in Job
      BY JobAtWork DEF Claimants, InFlight, ChannelInv, FormInv
    <3>2. job[w].at \in Instant /\ clock \in Instant
      BY <3>1, ChannelAssumption DEF Job, ChannelInv, FormInv, WindowInv, RateTypeOK
    <3> QED BY <2>1, <3>2 DEF DueAt
  <2>4. F = FiledBy(s, t) /\ C = ClaimedBy(s, t)
    BY <2>2, <2>3 DEF FiledBy, ClaimedBy
  <2>5. Len(granted[s]) \in Nat
    BY ChannelAssumption, LenProperties DEF ChannelInv, FormInv, WindowInv, RateTypeOK
  <2>6. Cardinality(AdmittedBy(s, t)) <= Len(granted[s])
    <3>1. IsFiniteSet(1..Len(granted[s])) /\ Cardinality(1..Len(granted[s])) = Len(granted[s])
      BY <2>5, FS_Interval
    <3>2. AdmittedBy(s, t) \subseteq 1..Len(granted[s])
      BY DEF AdmittedBy
    <3> QED BY <3>1, <3>2, FS_Subset
  <2>7. Cardinality(FiledBy(s, t)) + Cardinality(ClaimedBy(s, t)) <= Cardinality(AdmittedBy(s, t))
    BY <2>1 DEF ChannelInv, ClaimsInv
  <2>8. /\ Cardinality(FiledBy(s, t)) \in Nat /\ Cardinality(ClaimedBy(s, t)) \in Nat
        /\ Cardinality(AdmittedBy(s, t)) \in Nat
    BY CountsFinite DEF ChannelInv, FormInv, WindowInv, JobsInv
  <2> HIDE DEF t, F, C
  <2>9. Cardinality(F) + Cardinality(C) <= Len(granted[s])
    BY <2>4, <2>5, <2>6, <2>7, <2>8
  <2> QED BY <2>9 DEF F, C
<1> QED BY <1>1, ChannelSafety, PTL
=============================================================================
