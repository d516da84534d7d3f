------------------------------- MODULE ScanGate -------------------------------
(***************************************************************************)
(* The scan-token gate (scan.rs, ScanGate; api.rs, issue_scan_token): when *)
(* a policy is configured, tokens that live Ttl are issued, at most        *)
(* IssueLimit per source per Minute, and a render route admits a request   *)
(* only with a live one.  Issuance and admission each hold one mutex from  *)
(* the read of the clock to the last write, so each is one step.  A panic  *)
(* while it is held poisons it: every later lock() panics, and the request *)
(* ends without an answer.                                                 *)
(***************************************************************************)
EXTENDS Integers, Sequences, FiniteSets

CONSTANTS
    Source,       \* requesters, as the fronting proxy names them
    Ttls,         \* what ScanPolicy.token_ttl_secs may be configured to, 0 for no policy
    IssueLimit,   \* ScanPolicy.issue_limit_per_minute, 0 for none
    Minute,       \* the 60 seconds of the throttle, in clock units
    LastInstant,  \* the largest Instant the platform can represent
    MaxClock,     \* bound: the clock stops here
    MaxTokens     \* bound: tokens issued

ASSUME ScanAssumption ==
    /\ Ttls \subseteq Nat
    /\ IssueLimit \in Nat
    /\ Minute \in Nat \ {0}
    /\ LastInstant \in Nat
    /\ MaxClock \in Nat
    /\ MaxTokens \in Nat

VARIABLES
    Ttl,       \* ScanPolicy.token_ttl_secs, read when the process starts
    now,       \* Instant::now()
    tokens,    \* ScanGate.tokens: token -> expires_at
    window,    \* ScanGate.issued_per_source: source -> deque of instants
    seq,       \* ScanGate.seq
    poisoned,  \* the mutex
    issued,    \* history: the tokens handed out to each source, in order
    answer     \* history: what the last request was answered, and when

scanVars == <<Ttl, now, tokens, window, seq, poisoned, issued, answer>>

Time == 0..MaxClock

(* A token is "scan-" and the sequence number: the number stands for it.   *)
Token == Nat \ {0}

(* A request presents no token, or one that was or was not handed out.     *)
NoToken == 0
Presented == 0..(MaxTokens + 1)

IsOn == Ttl > 0

Issue == [token : Token, at : Time]

(* The answers: created (201), issuance limit (429), gate open (409),      *)
(* admitted, and the three refusals (401); silence if the handler panics.  *)
Kind == {"start", "created", "limit", "open", "admitted", "required", "unknown", "expired", "silence"}

ScanTypeOK ==
    /\ Ttl \in Ttls
    /\ now \in Time
    /\ DOMAIN tokens \subseteq Token
    /\ \A t \in DOMAIN tokens : tokens[t] \in Nat
    /\ window \in [Source -> Seq(Time)]
    /\ seq \in Nat
    /\ poisoned \in BOOLEAN
    /\ issued \in [Source -> Seq(Issue)]
    /\ answer \in [kind : Kind, token : Nat, at : Time]

ScanInit ==
    /\ Ttl \in Ttls
    /\ now = 0
    /\ tokens = <<>>
    /\ window = [s \in Source |-> <<>>]
    /\ seq = 0
    /\ poisoned = FALSE
    /\ issued = [s \in Source |-> <<>>]
    /\ answer = [kind |-> "start", token |-> NoToken, at |-> 0]

Answer(kind, token) == answer' = [kind |-> kind, token |-> token, at |-> now]

----------------------------------------------------------------------------
(* The instants at the front of the deque go while they are a Minute old.  *)
StalePrefixEarly(q, k) ==
    /\ \A i \in 1..k : now - q[i] >= Minute - 1
    /\ k < Len(q) => ~(now - q[k + 1] >= Minute - 1)

StalePrefix(q, k) ==
    /\ \A i \in 1..k : now - q[i] >= Minute
    /\ k < Len(q) => ~(now - q[k + 1] >= Minute)

WithinLimitUpTo(n) == IssueLimit = 0 \/ n <= IssueLimit
WithinLimit(n) == IssueLimit = 0 \/ n < IssueLimit

IssueTokenWindowOfExpiries(s) ==
    /\ ~poisoned /\ IsOn
    /\ seq < MaxTokens
    /\ now + Ttl <= LastInstant
    /\ \E k \in 0..Len(window[s]) :
         /\ StalePrefix(window[s], k)
         /\ WithinLimit(Len(window[s]) - k)
         /\ window' = [window EXCEPT ![s] = Append(SubSeq(@, k + 1, Len(@)), now + Ttl)]
    /\ seq' = seq + 1
    /\ tokens' = [t \in DOMAIN tokens \cup {seq'} |-> IF t = seq' THEN now + Ttl ELSE tokens[t]]
    /\ issued' = [issued EXCEPT ![s] = Append(@, [token |-> seq', at |-> now])]
    /\ Answer("created", seq')
    /\ UNCHANGED <<Ttl, now, poisoned>>

IssueToken(s) ==
    /\ ~poisoned /\ IsOn
    /\ seq < MaxTokens
    /\ now + Ttl <= LastInstant
    /\ \E k \in 0..Len(window[s]) :
         /\ StalePrefix(window[s], k)
         /\ WithinLimit(Len(window[s]) - k)
         /\ window' = [window EXCEPT ![s] = Append(SubSeq(@, k + 1, Len(@)), now)]
    /\ seq' = seq + 1
    /\ tokens' = [t \in DOMAIN tokens \cup {seq'} |-> IF t = seq' THEN now + Ttl ELSE tokens[t]]
    /\ issued' = [issued EXCEPT ![s] = Append(@, [token |-> seq', at |-> now])]
    /\ Answer("created", seq')
    /\ UNCHANGED <<Ttl, now, poisoned>>

(* now + Duration overflows: the handler panics in the middle.             *)
IssuePanics(s) ==
    /\ ~poisoned /\ IsOn
    /\ seq < MaxTokens
    /\ now + Ttl > LastInstant
    /\ \E k \in 0..Len(window[s]) :
         /\ StalePrefix(window[s], k)
         /\ WithinLimit(Len(window[s]) - k)
         /\ window' = [window EXCEPT ![s] = Append(SubSeq(@, k + 1, Len(@)), now)]
    /\ seq' = seq + 1
    /\ poisoned' = TRUE
    /\ Answer("silence", NoToken)
    /\ UNCHANGED <<Ttl, now, tokens, issued>>

IssueRefused(s) ==
    /\ ~poisoned /\ IsOn
    /\ \E k \in 0..Len(window[s]) :
         /\ StalePrefix(window[s], k)
         /\ ~WithinLimit(Len(window[s]) - k)
         /\ window' = [window EXCEPT ![s] = SubSeq(@, k + 1, Len(@))]
    /\ Answer("limit", NoToken)
    /\ UNCHANGED <<Ttl, now, tokens, seq, poisoned, issued>>

IssueOpen(s) ==
    /\ ~poisoned /\ ~IsOn
    /\ Answer("open", NoToken)
    /\ UNCHANGED <<Ttl, now, tokens, window, seq, poisoned, issued>>

----------------------------------------------------------------------------
DiesAfter(t) == now > tokens[t]
Dead(t) == now >= tokens[t]

(* admit, on the render routes                                             *)
AdmitOpen(t) ==
    /\ ~poisoned /\ ~IsOn
    /\ Answer("admitted", t)
    /\ UNCHANGED <<Ttl, now, tokens, window, seq, poisoned, issued>>

AdmitWithout ==
    /\ ~poisoned /\ IsOn
    /\ Answer("required", NoToken)
    /\ UNCHANGED <<Ttl, now, tokens, window, seq, poisoned, issued>>

AdmitUnknown(t) ==
    /\ ~poisoned /\ IsOn
    /\ t \notin DOMAIN tokens
    /\ Answer("unknown", t)
    /\ UNCHANGED <<Ttl, now, tokens, window, seq, poisoned, issued>>

AdmitExpired(t) ==
    /\ ~poisoned /\ IsOn
    /\ t \in DOMAIN tokens /\ Dead(t)
    /\ tokens' = [u \in DOMAIN tokens \ {t} |-> tokens[u]]
    /\ Answer("expired", t)
    /\ UNCHANGED <<Ttl, now, window, seq, poisoned, issued>>

AdmitLive(t) ==
    /\ ~poisoned /\ IsOn
    /\ t \in DOMAIN tokens /\ ~Dead(t)
    /\ Answer("admitted", t)
    /\ UNCHANGED <<Ttl, now, tokens, window, seq, poisoned, issued>>

(* lock().expect(..): any request to a poisoned gate.                      *)
RequestPanics ==
    /\ poisoned
    /\ Answer("silence", NoToken)
    /\ UNCHANGED <<Ttl, now, tokens, window, seq, poisoned, issued>>

ScanTick ==
    /\ now < MaxClock
    /\ now' = now + 1
    /\ UNCHANGED <<Ttl, tokens, window, seq, poisoned, issued, answer>>

(* The gate is in memory only, and the policy may have changed.  A token   *)
(* handed out before the restart may be presented after it; the history    *)
(* starts again with the gate.                                             *)
ScanRestart ==
    /\ Ttl' \in Ttls
    /\ tokens' = <<>>
    /\ window' = [s \in Source |-> <<>>]
    /\ seq' = 0
    /\ poisoned' = FALSE
    /\ issued' = [s \in Source |-> <<>>]
    /\ Answer("start", NoToken)
    /\ UNCHANGED now

ScanNext ==
    \/ \E s \in Source : IssueToken(s) \/ IssuePanics(s) \/ IssueRefused(s) \/ IssueOpen(s)
    \/ \E t \in Presented : AdmitOpen(t)
    \/ AdmitWithout
    \/ \E t \in Presented \ {NoToken} : AdmitUnknown(t) \/ AdmitExpired(t) \/ AdmitLive(t)
    \/ RequestPanics
    \/ ScanTick
    \/ ScanRestart

ScanSpec == ScanInit /\ [][ScanNext]_scanVars

----------------------------------------------------------------------------
(* The throttle is exact: the token that comes IssueLimit places after     *)
(* another of the same source is at least a Minute younger.                *)
(* (scan.rs:64-65; the clock is read under the lock, see RateWindow for    *)
(* the admission window where it is not.)                                  *)
IssuanceSpaced ==
    IssueLimit > 0 =>
        \A s \in Source : \A m, n \in 1..Len(issued[s]) :
            n >= m + IssueLimit => issued[s][n].at >= issued[s][m].at + Minute

(* What the throttle is for: a source never holds more live tokens than    *)
(* IssueLimit for each Minute, or part of one, a token lives.              *)
(* (scan.rs:5-9.)                                                          *)
Minutes == (Ttl + Minute - 1) \div Minute
LiveTokens(s) == {n \in 1..Len(issued[s]) : now < issued[s][n].at + Ttl}
LiveTokensBounded ==
    IssueLimit > 0 => \A s \in Source : Cardinality(LiveTokens(s)) <= IssueLimit * Minutes

(* The answers are honest: a token is admitted if and only if it was       *)
(* handed out by this gate and is not yet Ttl old, whatever was presented, *)
(* refused or removed before.  (scan.rs:102-135.)                          *)
LiveAt(t, instant) ==
    \E s \in Source : \E n \in 1..Len(issued[s]) :
        issued[s][n].token = t /\ instant < issued[s][n].at + Ttl

AnswersHonest ==
    /\ (answer.kind = "admitted" /\ IsOn) => LiveAt(answer.token, answer.at)
    /\ answer.kind \in {"unknown", "expired"} => ~LiveAt(answer.token, answer.at)
=============================================================================
