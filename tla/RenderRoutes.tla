------------------------------ MODULE RenderRoutes ------------------------------
(***************************************************************************)
(* The render routes as a whole (api.rs, untp_product and en18222_dpps):   *)
(* a request is admitted by the scan gate (ScanGate), its parameters are   *)
(* checked, and only then its passport is looked for (Gateway), which may  *)
(* take two calls of the issuer.  Nothing looks at the token again.  The   *)
(* gate, the ingest store and the handlers share one clock and one process *)
(* lifetime.                                                               *)
(***************************************************************************)
EXTENDS Gateway

CONSTANTS
    Source, Ttls, IssueLimit, Minute, LastInstant, MaxClock, MaxTokens     \* of ScanGate

(* ScanAssumption, of the constants the gate is used with.                 *)
ASSUME RoutesAssumption ==
    /\ Ttls \subseteq Nat
    /\ IssueLimit \in Nat
    /\ Minute \in Nat \ {0}
    /\ LastInstant \in Nat
    /\ MaxClock \in Nat
    /\ MaxTokens \in Nat

VARIABLES
    Ttl, now, tokens, window, seq, poisoned, issued, answer,    \* of ScanGate
    visit       \* history: by handler, the token's end, when the request came and when it was answered

Gate == INSTANCE ScanGate

gateVars == <<Ttl, now, tokens, window, seq, poisoned, issued, answer>>
routesVars == <<gatewayVars, gateVars, visit>>

(* No token is asked for.                                                  *)
Open == -1
NoVisit == [expires |-> Open, at |-> 0, done |-> 0]

RoutesTypeOK ==
    /\ GatewayTypeOK
    /\ Gate!ScanTypeOK
    /\ \A h \in Handler : visit[h].expires \in Nat \cup {Open} /\ visit[h].at \in Nat /\ visit[h].done \in Nat

RoutesInit == GatewayInit /\ Gate!ScanInit /\ visit = [h \in Handler |-> NoVisit]

(* The answer of a request is given now, if this step gives it.            *)
Note(h, v) == visit' = [visit EXCEPT ![h] = IF req'[h].step = "done" THEN [v EXCEPT !.done = now] ELSE v]

Visit(t) == [expires |-> IF Gate!IsOn THEN tokens[t] ELSE Open, at |-> now, done |-> now]

----------------------------------------------------------------------------
Admitted(t) == Gate!AdmitOpen(t) \/ Gate!AdmitLive(t)
NotAdmitted(t) ==
    \/ t = Gate!NoToken /\ Gate!AdmitWithout
    \/ t # Gate!NoToken /\ (Gate!AdmitUnknown(t) \/ Gate!AdmitExpired(t))

(* Bound: a request comes only while there is clock left for its calls.    *)
ClockLeft == now + 2 * UpstreamTimeout <= MaxClock

RequestAdmitted(h, t) ==
    /\ ClockLeft
    /\ Admitted(t)
    /\ \/ \E key \in UntpKey : Ask(h, "untp", key)
       \/ \E key \in EnKey : Ask(h, "en18222", key)
       \/ TurnAway(h)
    /\ Note(h, Visit(t))

RequestRefused(h, t) == NotAdmitted(t) /\ TurnAway(h) /\ Note(h, NoVisit)

(* A poisoned gate panics in the handler: the connection is dropped.       *)
RequestDropped(h) == Gate!RequestPanics /\ TurnAway(h) /\ Note(h, NoVisit)

IssueRoute ==
    /\ \/ \E s \in Source : Gate!IssueToken(s) \/ Gate!IssuePanics(s) \/ Gate!IssueRefused(s) \/ Gate!IssueOpen(s)
       \/ Gate!RequestPanics
    /\ UNCHANGED <<gatewayVars, visit>>

Resume(h) ==
    /\ HandlerStep(h)
    /\ Note(h, visit[h])
    /\ UNCHANGED gateVars

RoutesTick == Gate!ScanTick /\ Waits /\ UNCHANGED visit

(* Imports and the issuer's own life.                                      *)
Elsewhere ==
    /\ \/ \E body \in Posted : PostBody(body)
       \/ \E key \in IssuerKey : IssuerMints(key) \/ IssuerAppends(key)
       \/ IssuerRotates
    /\ UNCHANGED <<gateVars, visit>>

RoutesRestart == GatewayRestart /\ Gate!ScanRestart /\ visit' = [h \in Handler |-> NoVisit]

RoutesNext ==
    \/ \E h \in Handler :
         \/ \E t \in Gate!Presented : RequestAdmitted(h, t) \/ RequestRefused(h, t)
         \/ RequestDropped(h)
         \/ Resume(h)
    \/ IssueRoute
    \/ RoutesTick
    \/ Elsewhere
    \/ RoutesRestart

RoutesSpec == RoutesInit /\ [][RoutesNext]_routesVars

(* The clock runs, the timer of a call fires and the store's lock is free  *)
(* again: no call of the issuer is ever obliged to answer.                 *)
FairRoutesSpec ==
    /\ RoutesSpec
    /\ WF_routesVars(RoutesTick)
    /\ \A h \in Handler : WF_routesVars(Resume(h) /\ (TimesOut(h) \/ LookUpIngested(h)))

----------------------------------------------------------------------------
(* Whoever is told about a passport, its absence included, came with a     *)
(* token that was alive then, and hears of it before the token is dead for *)
(* the time of two calls: the gate is asked once, before the issuer is.    *)
(* (api.rs:515-530, :540-554; scan.rs:102-135.)                            *)
TokenOutlivedBriefly ==
    \A h \in Handler :
        (req[h].answer.status \in {"200", "404"} /\ visit[h].expires # Open) =>
            /\ visit[h].at < visit[h].expires
            /\ visit[h].done < visit[h].expires + 2 * UpstreamTimeout

=============================================================================
