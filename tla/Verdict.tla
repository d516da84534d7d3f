-------------------------------- MODULE Verdict --------------------------------
(***************************************************************************)
(* The verdict a UNTP render ships (verdict.rs, verify_passport): one pass *)
(* over a document's evidence that collects findings and outcomes side by  *)
(* side, keeps half a dozen counters, and combines the outcomes at the     *)
(* end.  Each check and each signature is one step; what the verdict means *)
(* is stated apart, over the evidence alone.                               *)
(***************************************************************************)
EXTENDS Integers, Sequences, FiniteSets

CONSTANTS
    Document,       \* the documents that may be verified, see DocumentAssumption
    Options,        \* the options they may be verified under
    Suite,          \* signature suites
    Supported,      \* suites whose slot verifies; the others have none, or EcdsaNoneSlot
    SelfDeclaring,  \* suites whose name contains "testmac"
    Key             \* key ids

(* No validTo, no freshness requirement, a requirement that does not parse.*)
NoEnd == -1
NoRequirement == -1
Malformed == -2

(* MARKER_ORDER, by position.                                              *)
Unsigned == 0
SelfDeclared == 1
ThirdParty == 2
Marker == 0..4

(* A framing names an event and a key and carries a signature: hex tells   *)
(* whether that decodes, genuine whether it verifies under the anchor of   *)
(* its key over the event it names.                                        *)
Framing == [seq : Nat, hex : BOOLEAN, suite : Suite, key : Key, genuine : BOOLEAN]

DocumentType ==
    [from : Nat, to : Nat \cup {NoEnd}, recall : BOOLEAN,
     events : Seq([seq : Nat, at : Nat]), signatures : Seq(Framing)]

OptionsType ==
    [tainted : BOOLEAN, anchors : SUBSET Key, minimum : Marker, now : Nat,
     required : Nat \cup {NoRequirement, Malformed}]

ASSUME VerdictAssumption ==
    /\ Document \subseteq DocumentType
    /\ Options \subseteq OptionsType
    /\ Supported \subseteq Suite /\ SelfDeclaring \subseteq Suite

VARIABLES
    doc, opts,    \* the arguments
    pc,           \* the check that comes next
    k,            \* the framing that comes next
    findings,     \* severity and code of each finding
    outcomes,     \* what the checks have contributed
    tally,        \* the counters
    strongest,    \* the strongest marker earned so far
    outcome       \* of the verdict, once concluded

verdictVars == <<doc, opts, pc, k, findings, outcomes, tally, strongest, outcome>>

Severity == {"warning", "error"}
Code == {"tainted", "validity-window", "recall-stale", "signature-invalid", "suite-unsupported",
         "key-unanchored", "below-minimum-marker"}
Outcome == {"pass", "degraded", "fail"}
Counter == {"checks", "passed", "verified", "failed", "unsupported", "anchored"}

VerdictTypeOK ==
    /\ doc \in DocumentType /\ opts \in OptionsType
    /\ pc \in {"taint", "validity", "freshness", "signatures", "done"}
    /\ k \in 1..(Len(doc.signatures) + 1)
    /\ findings \in Seq([severity : Severity, code : Code])
    /\ outcomes \subseteq Outcome
    /\ tally \in [Counter -> Nat]
    /\ strongest \in Marker
    /\ outcome \in Outcome \cup {"none"}

VerdictInit ==
    /\ doc \in Document /\ opts \in Options
    /\ pc = "taint"
    /\ k = 1
    /\ findings = <<>>
    /\ outcomes = {}
    /\ tally = [c \in Counter |-> IF c \in {"checks", "passed"} THEN 1 ELSE 0]
    /\ strongest = Unsigned
    /\ outcome = "none"

----------------------------------------------------------------------------
(* Freshness of the last event, and what it contributes.                   *)
Freshness(d, o) ==
    IF o.required \in {NoRequirement, Malformed} \/ d.events = <<>> THEN "unknown"
    ELSE IF o.now - d.events[Len(d.events)].at <= o.required THEN "fresh" ELSE "stale"

OutcomeForFreshnessLenient(f) == "pass"
OutcomeForFreshness(f) == IF f = "stale" THEN "degraded" ELSE "pass"

(* fail > degraded > pass                                                  *)
CombineOutcome(os) ==
    IF "fail" \in os THEN "fail" ELSE IF "degraded" \in os THEN "degraded" ELSE "pass"

AtLeast(marker, minimum) == marker >= minimum

StrongerLastWins(marker, best) == marker
StrongerAccumulates(marker, best) == marker + best
Stronger(marker, best) == IF best = Unsigned \/ AtLeast(marker, best) THEN marker ELSE best

Tainted(o) == o.tainted
OutsideWindow(d, o) == o.now < d.from \/ (d.to # NoEnd /\ o.now > d.to)
RecallStale(d, o) == d.recall /\ Freshness(d, o) = "stale"

Report(severity, code, contribution) ==
    /\ findings' = Append(findings, [severity |-> severity, code |-> code])
    /\ outcomes' = outcomes \cup {contribution}

Bump(counters) == tally' = [c \in Counter |-> IF c \in counters THEN tally[c] + 1 ELSE tally[c]]

CheckTaint ==
    /\ pc = "taint"
    /\ IF Tainted(opts) THEN Report("error", "tainted", "fail") ELSE UNCHANGED <<findings, outcomes>>
    /\ pc' = "validity"
    /\ UNCHANGED <<doc, opts, k, tally, strongest, outcome>>

CheckValidity ==
    /\ pc = "validity"
    /\ IF OutsideWindow(doc, opts)
       THEN Report("error", "validity-window", "fail") /\ Bump({"checks"})
       ELSE UNCHANGED <<findings, outcomes>> /\ Bump({"checks", "passed"})
    /\ pc' = "freshness"
    /\ UNCHANGED <<doc, opts, k, strongest, outcome>>

CheckFreshness ==
    /\ pc = "freshness"
    /\ LET f == Freshness(doc, opts)
       IN /\ findings' = IF RecallStale(doc, opts)
                         THEN Append(findings, [severity |-> "error", code |-> "recall-stale"])
                         ELSE findings
          /\ outcomes' = outcomes \cup {OutcomeForFreshness(f)}
                           \cup (IF RecallStale(doc, opts) THEN {"fail"} ELSE {})
          /\ Bump({"checks"} \cup (IF f = "fresh" THEN {"passed"} ELSE {}))
    /\ pc' = "signatures"
    /\ UNCHANGED <<doc, opts, k, strongest, outcome>>

----------------------------------------------------------------------------
(* The signature loop, one framing per step.                               *)
Sealed(d, seq) == seq + 1 <= Len(d.events) /\ d.events[seq + 1].seq = seq

Readable(d, f) == Sealed(d, f.seq) /\ f.hex

AtFraming ==
    /\ pc = "signatures"
    /\ k <= Len(doc.signatures)
    /\ k' = k + 1
    /\ UNCHANGED <<doc, opts, pc, outcome>>

(* No such event, or not hex.                                              *)
Unreadable ==
    /\ AtFraming
    /\ ~Readable(doc, doc.signatures[k])
    /\ Report("error", "signature-invalid", "fail")
    /\ Bump({"failed"})
    /\ UNCHANGED strongest

(* No slot, or a slot that only stands for its suite.                      *)
Unsupported ==
    /\ AtFraming
    /\ Readable(doc, doc.signatures[k])
    /\ doc.signatures[k].suite \notin Supported
    /\ Report("warning", "suite-unsupported", "degraded")
    /\ Bump({"unsupported"})
    /\ UNCHANGED strongest

UnanchoredUncounted ==
    /\ AtFraming
    /\ Readable(doc, doc.signatures[k])
    /\ doc.signatures[k].suite \in Supported
    /\ doc.signatures[k].key \notin opts.anchors
    /\ Report("error", "key-unanchored", "fail")
    /\ UNCHANGED <<tally, strongest>>

UnanchoredWarns ==
    /\ AtFraming
    /\ Readable(doc, doc.signatures[k])
    /\ doc.signatures[k].suite \in Supported
    /\ doc.signatures[k].key \notin opts.anchors
    /\ Report("warning", "key-unanchored", "fail")
    /\ Bump({"failed"})
    /\ UNCHANGED strongest

Unanchored ==
    /\ AtFraming
    /\ Readable(doc, doc.signatures[k])
    /\ doc.signatures[k].suite \in Supported
    /\ doc.signatures[k].key \notin opts.anchors
    /\ Report("error", "key-unanchored", "fail")
    /\ Bump({"failed"})
    /\ UNCHANGED strongest

Forged ==
    /\ AtFraming
    /\ Readable(doc, doc.signatures[k])
    /\ doc.signatures[k].suite \in Supported
    /\ doc.signatures[k].key \in opts.anchors
    /\ ~doc.signatures[k].genuine
    /\ Report("error", "signature-invalid", "fail")
    /\ Bump({"anchored", "checks", "failed"})
    /\ UNCHANGED strongest

MarkerOf(f) == IF f.suite \in SelfDeclaring THEN SelfDeclared ELSE ThirdParty

Verified ==
    /\ AtFraming
    /\ Readable(doc, doc.signatures[k])
    /\ doc.signatures[k].suite \in Supported
    /\ doc.signatures[k].key \in opts.anchors
    /\ doc.signatures[k].genuine
    /\ Bump({"anchored", "checks", "verified", "passed"})
    /\ strongest' = Stronger(MarkerOf(doc.signatures[k]), strongest)
    /\ UNCHANGED <<findings, outcomes>>

(* The minimum marker costs a warning, never the outcome.                  *)
TrustCovered == opts.minimum = Unsigned \/ AtLeast(strongest, opts.minimum)

Conclude ==
    /\ pc = "signatures"
    /\ k > Len(doc.signatures)
    /\ findings' = IF TrustCovered THEN findings
                   ELSE Append(findings, [severity |-> "warning", code |-> "below-minimum-marker"])
    /\ outcome' = CombineOutcome(outcomes)
    /\ pc' = "done"
    /\ UNCHANGED <<doc, opts, k, outcomes, tally, strongest>>

VerdictNext ==
    \/ CheckTaint \/ CheckValidity \/ CheckFreshness
    \/ Unreadable \/ Unsupported \/ Unanchored \/ Forged \/ Verified
    \/ Conclude

VerdictSpec == VerdictInit /\ [][VerdictNext]_verdictVars

----------------------------------------------------------------------------
(* What a framing is, whatever the order of the tests in the loop.         *)
IsVerified(d, o, f) == Readable(d, f) /\ f.suite \in Supported /\ f.key \in o.anchors /\ f.genuine
IsUnsupported(d, f) == Readable(d, f) /\ f.suite \notin Supported
IsFailed(d, o, f) == ~IsVerified(d, o, f) /\ ~IsUnsupported(d, f)

AnyVerified == \E n \in 1..Len(doc.signatures) : IsVerified(doc, opts, doc.signatures[n])
AnyUnsupported == \E n \in 1..Len(doc.signatures) : IsUnsupported(doc, doc.signatures[n])
AnyFailed == \E n \in 1..Len(doc.signatures) : IsFailed(doc, opts, doc.signatures[n])

(* Every framing counts exactly once, at any point of the loop: verified,  *)
(* failed and unsupported add up to the framings seen, only framings with  *)
(* an anchor are checked, and no more checks pass than are made.           *)
(* (verdict.rs:519-662, the coverage report.)                              *)
CountersAddUp ==
    /\ tally["verified"] + tally["failed"] + tally["unsupported"] = k - 1
    /\ tally["verified"] <= tally["anchored"]
    /\ tally["anchored"] <= tally["verified"] + tally["failed"]
    /\ tally["passed"] <= tally["checks"]

(* The outcome says what the evidence is, in whatever order it is listed:  *)
(* fail for taint, a missed window, a stale recall or one failed framing;  *)
(* degraded for staleness or one unsupported suite; pass when there is     *)
(* none of these.  (verdict.rs:451-631.)                                   *)
FailingEvidence ==
    Tainted(opts) \/ OutsideWindow(doc, opts) \/ RecallStale(doc, opts) \/ AnyFailed

DegradingEvidence == Freshness(doc, opts) = "stale" \/ AnyUnsupported

VerdictMeaning ==
    pc = "done" =>
        outcome = IF FailingEvidence THEN "fail"
                  ELSE IF DegradingEvidence THEN "degraded" ELSE "pass"

(* Outcomes and findings are kept apart but never contradict each other: a *)
(* verdict fails if and only if it reports an error, and a verdict that    *)
(* passes reports nothing but the minimum marker.  (verdict.rs:442-671.)   *)
Found(severity, code) ==
    \E n \in 1..Len(findings) : findings[n] = [severity |-> severity, code |-> code]

FindingsExplainOutcome ==
    pc = "done" =>
        /\ outcome = "fail" <=> \E c \in Code : Found("error", c)
        /\ outcome = "pass" => \A c \in Code : Found("warning", c) => c = "below-minimum-marker"

(* A marker is earned: it is the strongest one among the framings that     *)
(* verify, and unsigned if none does.  (verdict.rs:606-618.)               *)
MarkerEarned ==
    pc = "done" =>
        strongest = IF \E n \in 1..Len(doc.signatures) :
                         /\ IsVerified(doc, opts, doc.signatures[n])
                         /\ doc.signatures[n].suite \notin SelfDeclaring
                    THEN ThirdParty
                    ELSE IF AnyVerified THEN SelfDeclared ELSE Unsigned
=============================================================================
