------------------------------ MODULE RateWindow ------------------------------
(***************************************************************************)
(* The admission window in front of the consumer report channel            *)
(* (feedback.rs, RateLimited): at most Limit reports per identifier per    *)
(* Window.  Handlers run concurrently.  `admit' reads the clock BEFORE it  *)
(* takes the mutex, so the instant a handler carries into the critical     *)
(* section may be older than one another handler has already recorded:     *)
(* Begin is the read of the clock, Grant and Refuse are the critical       *)
(* section.                                                                *)
(***************************************************************************)
EXTENDS Integers, Sequences, FiniteSets

CONSTANTS
    Worker,      \* handlers that may be inside `admit' at the same time
    Identifier,  \* what reports are about
    Limit,       \* RateLimited.limit
    Window,      \* RateLimited.window, in clock units
    MaxClock     \* bound: the clock stops here

ASSUME RateAssumption ==
    /\ Limit \in Nat \ {0}
    /\ Window \in Nat \ {0}
    /\ MaxClock \in Nat

VARIABLES
    clock,    \* Instant::now()
    seen,     \* RateLimited.seen: identifier -> deque of recorded instants
    call,     \* what each handler holds while it is in `admit'
    granted   \* history: the admissions of this process, in lock order

rateVars == <<clock, seen, call, granted>>

Instant == 0..MaxClock
NoCall == [status |-> "idle"]
Call == [status : {"waiting", "granted", "refused"}, id : Identifier, stamp : Instant]
Admission == [stamp : Instant, at : Instant]

RateTypeOK ==
    /\ clock \in Instant
    /\ seen \in [Identifier -> Seq(Instant)]
    /\ call \in [Worker -> Call \cup {NoCall}]
    /\ granted \in [Identifier -> Seq(Admission)]

RateInit ==
    /\ clock = 0
    /\ seen = [i \in Identifier |-> <<>>]
    /\ call = [w \in Worker |-> NoCall]
    /\ granted = [i \in Identifier |-> <<>>]

----------------------------------------------------------------------------
(* The front of the deque is dropped while it is a whole Window old:       *)
(* k entries go exactly when the first k are old and the next is not.      *)

Old(t, now) == now - t >= Window

ExpiredPrefixLate(q, k, now) ==
    /\ \A i \in 1..k : now - q[i] > Window
    /\ k < Len(q) => ~(now - q[k + 1] > Window)

ExpiredPrefix(q, k, now) ==
    /\ \A i \in 1..k : Old(q[i], now)
    /\ k < Len(q) => ~Old(q[k + 1], now)

Begin(w, i) ==
    /\ call[w] = NoCall
    /\ call' = [call EXCEPT ![w] = [status |-> "waiting", id |-> i, stamp |-> clock]]
    /\ UNCHANGED <<clock, seen, granted>>

HasRoomOffByOne(n) == n <= Limit
HasRoom(n) == n < Limit

Grant(w) ==
    /\ call[w].status = "waiting"
    /\ LET i == call[w].id
           now == call[w].stamp
           q == seen[i]
       IN \E k \in 0..Len(q) :
            /\ ExpiredPrefix(q, k, now)
            /\ HasRoom(Len(q) - k)
            /\ seen' = [seen EXCEPT ![i] = Append(SubSeq(q, k + 1, Len(q)), now)]
            /\ granted' = [granted EXCEPT ![i] = Append(@, [stamp |-> now, at |-> clock])]
    /\ call' = [call EXCEPT ![w].status = "granted"]
    /\ UNCHANGED clock

Refuse(w) ==
    /\ call[w].status = "waiting"
    /\ LET i == call[w].id
           now == call[w].stamp
           q == seen[i]
       IN \E k \in 0..Len(q) :
            /\ ExpiredPrefix(q, k, now)
            /\ ~HasRoom(Len(q) - k)
            /\ seen' = [seen EXCEPT ![i] = SubSeq(q, k + 1, Len(q))]
    /\ call' = [call EXCEPT ![w].status = "refused"]
    /\ UNCHANGED <<clock, granted>>

(* The handler goes on with the answer and leaves `admit'.                 *)
Leave(w) ==
    /\ call[w].status \in {"granted", "refused"}
    /\ call' = [call EXCEPT ![w] = NoCall]
    /\ UNCHANGED <<clock, seen, granted>>

Tick ==
    /\ clock < MaxClock
    /\ clock' = clock + 1
    /\ UNCHANGED <<seen, call, granted>>

(* The window lives in the process: a restart forgets it.                  *)
RateRestart ==
    /\ seen' = [i \in Identifier |-> <<>>]
    /\ call' = [w \in Worker |-> NoCall]
    /\ granted' = [i \in Identifier |-> <<>>]
    /\ UNCHANGED clock

RateNext ==
    \/ \E w \in Worker : \/ \E i \in Identifier : Begin(w, i)
                         \/ Grant(w)
                         \/ Refuse(w)
                         \/ Leave(w)
    \/ Tick
    \/ RateRestart

RateSpec == RateInit /\ [][RateNext]_rateVars

----------------------------------------------------------------------------
(* How far apart admissions are, whatever the interleaving: the admission  *)
(* that comes Limit places after another enters the critical section at    *)
(* least one Window after the instant recorded for the earlier one.        *)
(* (feedback.rs:234-235, the flood bound, as far as the code keeps it.)    *)
FloodBound ==
    \A i \in Identifier : \A m, n \in 1..Len(granted[i]) :
        n >= m + Limit => granted[i][n].at >= granted[i][m].stamp + Window

(* A refusal is never gratuitous: when a handler is refused, Limit reports *)
(* about its identifier were admitted, each less than one Window before    *)
(* the instant the refused handler read.  (feedback.rs:262-264, "retry     *)
(* after the window".)                                                     *)
RefusalJustified ==
    [][\A w \in Worker :
         (call[w].status = "waiting" /\ call'[w].status = "refused") =>
             LET h == granted[call[w].id]
             IN Cardinality({n \in 1..Len(h) : h[n].at > call[w].stamp - Window}) >= Limit
      ]_rateVars

(* The bound as the documentation states it, over the instants the window  *)
(* itself recorded: no interval of one Window holds more than Limit        *)
(* admissions about one identifier.  (feedback.rs:234-235.)                *)
AtMostLimitPerWindow ==
    \A i \in Identifier : \A from \in Instant :
        Cardinality({n \in 1..Len(granted[i]) :
                       granted[i][n].stamp \in from..(from + Window - 1)}) <= Limit
=============================================================================
