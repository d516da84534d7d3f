------------------------------ MODULE UpstreamCall ------------------------------
(***************************************************************************)
(* What a caller of the issuer may count on (source.rs, issuer_lookup and  *)
(* fetch_anchors): within Patience ticks the call has found the document   *)
(* the issuer keeps, whole, or it is a miss.  Only an issuer that answers  *)
(* with a document worth having can make it a find.  No bytes, no pieces.  *)
(***************************************************************************)
EXTENDS Integers

CONSTANT Patience   \* the timeout of a call, in ticks

VARIABLES
    outcome,    \* of the call
    age,        \* ticks since the call began
    worth       \* the issuer's answer is a document

callVars == <<outcome, age, worth>>

CallInit == outcome = "pending" /\ age = 0 /\ worth \in BOOLEAN

Grow == outcome = "pending" /\ age < Patience /\ age' = age + 1 /\ UNCHANGED <<outcome, worth>>

Find == outcome = "pending" /\ worth /\ outcome' = "found" /\ UNCHANGED <<age, worth>>

Miss == outcome = "pending" /\ outcome' = "missed" /\ UNCHANGED <<age, worth>>

CallNext == Grow \/ Find \/ Miss

(* A call ends: it cannot grow for ever.                                   *)
CallSpec == CallInit /\ [][CallNext]_callVars /\ WF_callVars(CallNext)
=============================================================================
