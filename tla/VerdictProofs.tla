----------------------------- MODULE VerdictProofs -----------------------------
(***************************************************************************)
(* The verdict pass means what it should for every document, every option  *)
(* and every registry of suites.  The meaning is stated over the whole     *)
(* list of framings, the loop knows only those it has seen: EvidenceInv    *)
(* says, for every point of the pass, which evidence has been weighed, and *)
(* ties the outcomes, the findings and the marker to exactly that.         *)
(***************************************************************************)
EXTENDS Verdict, SequenceFacts

Past(check) ==
    CASE check = "taint" -> pc # "taint"
      [] check = "validity" -> pc \notin {"taint", "validity"}
      [] check = "freshness" -> pc \in {"signatures", "done"}

FailedSeen == \E n \in 1..(k - 1) : IsFailed(doc, opts, doc.signatures[n])
UnsupportedSeen == \E n \in 1..(k - 1) : IsUnsupported(doc, doc.signatures[n])
VerifiedSeen == \E n \in 1..(k - 1) : IsVerified(doc, opts, doc.signatures[n])
AttestedSeen ==
    \E n \in 1..(k - 1) : /\ IsVerified(doc, opts, doc.signatures[n])
                          /\ doc.signatures[n].suite \notin SelfDeclaring

FailWeighed ==
    \/ Past("taint") /\ Tainted(opts)
    \/ Past("validity") /\ OutsideWindow(doc, opts)
    \/ Past("freshness") /\ RecallStale(doc, opts)
    \/ FailedSeen

DegradeWeighed == (Past("freshness") /\ Freshness(doc, opts) = "stale") \/ UnsupportedSeen

ErrorFound == \E c \in Code : Found("error", c)

EvidenceInv ==
    /\ ~Past("freshness") => k = 1
    /\ "fail" \in outcomes <=> FailWeighed
    /\ "degraded" \in outcomes <=> DegradeWeighed
    /\ ErrorFound <=> "fail" \in outcomes
    /\ \A c \in Code : Found("warning", c) =>
           (c = "suite-unsupported" /\ "degraded" \in outcomes) \/ c = "below-minimum-marker"
    /\ strongest = IF AttestedSeen THEN ThirdParty ELSE IF VerifiedSeen THEN SelfDeclared ELSE Unsigned
    /\ pc = "done" => k = Len(doc.signatures) + 1 /\ outcome = CombineOutcome(outcomes)

VerdictInv == VerdictTypeOK /\ CountersAddUp /\ EvidenceInv

----------------------------------------------------------------------------
(* Framings of a document are framings, and counters are counted.          *)
LEMMA FramingType ==
    ASSUME VerdictTypeOK
    PROVE  /\ doc.signatures \in Seq(Framing) /\ Len(doc.signatures) \in Nat /\ k \in Nat \ {0}
           /\ k <= Len(doc.signatures) + 1
           /\ \A n \in 1..Len(doc.signatures) : doc.signatures[n] \in Framing
<1>1. doc.signatures \in Seq(Framing)
  BY DEF VerdictTypeOK, DocumentType
<1>2. Len(doc.signatures) \in Nat
  BY <1>1, LenProperties
<1> QED BY <1>1, <1>2, ElementOfSeq DEF VerdictTypeOK

(* What one more finding changes.                                          *)
LEMMA FoundAfter ==
    ASSUME VerdictTypeOK, NEW s \in Severity, NEW c \in Code,
           findings' = Append(findings, [severity |-> s, code |-> c])
    PROVE  /\ findings' \in Seq([severity : Severity, code : Code])
           /\ \A t \in Severity : \A d \in Code :
                Found(t, d)' <=> (Found(t, d) \/ (t = s /\ d = c))
<1> DEFINE x == [severity |-> s, code |-> c]
<1>1. findings \in Seq([severity : Severity, code : Code]) /\ x \in [severity : Severity, code : Code]
  BY DEF VerdictTypeOK
<1>2. /\ findings' \in Seq([severity : Severity, code : Code])
      /\ Len(findings) \in Nat /\ Len(findings') = Len(findings) + 1
      /\ \A n \in 1..Len(findings) : findings'[n] = findings[n]
      /\ findings'[Len(findings) + 1] = x
  <2> HIDE DEF x
  <2>1. findings' = Append(findings, x)
    BY DEF x
  <2> QED BY <1>1, <2>1, AppendLast
<1>3. ASSUME NEW t \in Severity, NEW d \in Code, Found(t, d)'
      PROVE  Found(t, d) \/ (t = s /\ d = c)
  <2>1. PICK n \in 1..Len(findings') : findings'[n] = [severity |-> t, code |-> d]
    BY <1>3 DEF Found
  <2>2. CASE n \in 1..Len(findings)
    BY <2>1, <2>2, <1>2 DEF Found
  <2>3. CASE n = Len(findings) + 1
    BY <2>1, <2>3, <1>2
  <2> QED BY <2>2, <2>3, <1>2
<1>4. ASSUME NEW t \in Severity, NEW d \in Code, Found(t, d)
      PROVE  Found(t, d)'
  <2>1. PICK n \in 1..Len(findings) : findings[n] = [severity |-> t, code |-> d]
    BY <1>4 DEF Found
  <2>2. n \in 1..Len(findings') /\ findings'[n] = [severity |-> t, code |-> d]
    BY <1>2, <2>1
  <2> QED BY <2>2 DEF Found
<1>5. Found(s, c)'
  <2>1. Len(findings) + 1 \in 1..Len(findings')
    BY <1>2
  <2> QED BY <1>2, <2>1 DEF Found
<1> QED BY <1>2, <1>3, <1>4, <1>5

(* A finding less or more says nothing when findings do not change.        *)
LEMMA FoundSame ==
    ASSUME findings' = findings
    PROVE  \A t \in Severity : \A d \in Code : Found(t, d)' <=> Found(t, d)
  BY DEF Found

(* Counting keeps the counters natural numbers.                            *)
LEMMA BumpFacts ==
    ASSUME VerdictTypeOK, NEW cs \in SUBSET Counter, Bump(cs)
    PROVE  /\ tally' \in [Counter -> Nat]
           /\ \A c \in Counter : tally[c] \in Nat /\ tally'[c] = IF c \in cs THEN tally[c] + 1 ELSE tally[c]
  BY DEF VerdictTypeOK, Bump

(* The framing the loop is at becomes one of the seen.                     *)
LEMMA SeenAfter ==
    ASSUME VerdictTypeOK, AtFraming
    PROVE  /\ k \in 1..Len(doc.signatures) /\ k' \in 1..(Len(doc.signatures) + 1)
           /\ doc.signatures[k] \in Framing
           /\ FailedSeen' <=> (FailedSeen \/ IsFailed(doc, opts, doc.signatures[k]))
           /\ UnsupportedSeen' <=> (UnsupportedSeen \/ IsUnsupported(doc, doc.signatures[k]))
           /\ VerifiedSeen' <=> (VerifiedSeen \/ IsVerified(doc, opts, doc.signatures[k]))
           /\ AttestedSeen' <=> (AttestedSeen \/ (/\ IsVerified(doc, opts, doc.signatures[k])
                                                  /\ doc.signatures[k].suite \notin SelfDeclaring))
<1>1. /\ k \in 1..Len(doc.signatures) /\ k' = k + 1 /\ doc' = doc /\ opts' = opts
      /\ doc.signatures[k] \in Framing /\ k \in Nat /\ Len(doc.signatures) \in Nat
  BY FramingType DEF AtFraming
<1>2. \A n : n \in 1..(k' - 1) <=> (n \in 1..(k - 1) \/ n = k)
  BY <1>1
<1>3. FailedSeen' <=> \E n \in 1..(k' - 1) : IsFailed(doc, opts, doc.signatures[n])
  BY <1>1 DEF FailedSeen, IsFailed, IsVerified, IsUnsupported, Readable, Sealed
<1>4. UnsupportedSeen' <=> \E n \in 1..(k' - 1) : IsUnsupported(doc, doc.signatures[n])
  BY <1>1 DEF UnsupportedSeen, IsUnsupported, Readable, Sealed
<1>5. VerifiedSeen' <=> \E n \in 1..(k' - 1) : IsVerified(doc, opts, doc.signatures[n])
  BY <1>1 DEF VerifiedSeen, IsVerified, Readable, Sealed
<1>6. AttestedSeen' <=> \E n \in 1..(k' - 1) : /\ IsVerified(doc, opts, doc.signatures[n])
                                               /\ doc.signatures[n].suite \notin SelfDeclaring
  BY <1>1 DEF AttestedSeen, IsVerified, Readable, Sealed
<1>7. k' \in 1..(Len(doc.signatures) + 1)
  BY <1>1
<1> QED BY <1>1, <1>2, <1>3, <1>4, <1>5, <1>6, <1>7 DEF FailedSeen, UnsupportedSeen, VerifiedSeen, AttestedSeen

(* What stays the same while the loop runs.                                *)
LEMMA LoopFrame ==
    ASSUME VerdictTypeOK, AtFraming
    PROVE  /\ pc = "signatures" /\ pc' = "signatures" /\ doc' = doc /\ opts' = opts /\ outcome' = outcome
           /\ k' = k + 1 /\ k \in Nat
           /\ Past("taint") /\ Past("validity") /\ Past("freshness")
           /\ Past("taint")' /\ Past("validity")' /\ Past("freshness")'
           /\ Tainted(opts)' <=> Tainted(opts)
           /\ OutsideWindow(doc, opts)' <=> OutsideWindow(doc, opts)
           /\ RecallStale(doc, opts)' <=> RecallStale(doc, opts)
           /\ Freshness(doc, opts)' = Freshness(doc, opts)
<1>1. /\ pc = "signatures" /\ pc' = "signatures" /\ doc' = doc /\ opts' = opts /\ outcome' = outcome
      /\ k' = k + 1 /\ k \in Nat
  BY FramingType DEF AtFraming
<1>2. /\ Past("taint") /\ Past("validity") /\ Past("freshness")
      /\ Past("taint")' /\ Past("validity")' /\ Past("freshness")'
  BY <1>1 DEF Past
<1>3. /\ Tainted(opts)' <=> Tainted(opts)
      /\ OutsideWindow(doc, opts)' <=> OutsideWindow(doc, opts)
      /\ RecallStale(doc, opts)' <=> RecallStale(doc, opts)
      /\ Freshness(doc, opts)' = Freshness(doc, opts)
  BY <1>1 DEF Tainted, OutsideWindow, RecallStale, Freshness
<1> QED BY <1>1, <1>2, <1>3

----------------------------------------------------------------------------
(* A framing that fails, for whichever of the three reasons.               *)
LEMMA FailedFraming ==
    ASSUME VerdictInv, AtFraming, IsFailed(doc, opts, doc.signatures[k]),
           NEW c \in Code, Report("error", c, "fail"), strongest' = strongest,
           NEW cs \in {{"failed"}, {"anchored", "checks", "failed"}}, Bump(cs)
    PROVE  VerdictInv'
<1>0. VerdictTypeOK
  BY DEF VerdictInv
<1>1. ~IsVerified(doc, opts, doc.signatures[k]) /\ ~IsUnsupported(doc, doc.signatures[k])
  BY DEF IsFailed
<1>2. /\ k' \in 1..(Len(doc.signatures) + 1) /\ FailedSeen'
      /\ UnsupportedSeen' <=> UnsupportedSeen
      /\ VerifiedSeen' <=> VerifiedSeen
      /\ AttestedSeen' <=> AttestedSeen
  BY <1>0, <1>1, SeenAfter
<1>3. /\ findings' = Append(findings, [severity |-> "error", code |-> c])
      /\ outcomes' = outcomes \cup {"fail"}
  BY DEF Report
<1>4. /\ findings' \in Seq([severity : Severity, code : Code])
      /\ \A t \in Severity : \A d \in Code : Found(t, d)' <=> (Found(t, d) \/ (t = "error" /\ d = c))
  BY <1>0, <1>3, FoundAfter DEF Severity
<1>5. cs \in SUBSET Counter /\ "failed" \in cs /\ "verified" \notin cs /\ "unsupported" \notin cs
      /\ "passed" \notin cs
  BY DEF Counter
<1>6. /\ tally' \in [Counter -> Nat]
      /\ \A x \in Counter : tally[x] \in Nat /\ tally'[x] = IF x \in cs THEN tally[x] + 1 ELSE tally[x]
  BY <1>0, <1>5, BumpFacts
<1>7. VerdictTypeOK'
  BY <1>0, <1>2, <1>3, <1>4, <1>6, LoopFrame DEF VerdictTypeOK, Outcome
<1>8. CountersAddUp'
  BY <1>0, <1>5, <1>6, LoopFrame DEF VerdictInv, CountersAddUp, Counter
<1>9. FailWeighed' /\ "fail" \in outcomes' /\ ErrorFound'
  BY <1>2, <1>3, <1>4 DEF FailWeighed, ErrorFound, Severity
<1>10. /\ "degraded" \in outcomes' <=> "degraded" \in outcomes
       /\ DegradeWeighed' <=> DegradeWeighed
  BY <1>0, <1>2, <1>3, LoopFrame DEF DegradeWeighed
<1>11. \A d \in Code : Found("warning", d)' <=> Found("warning", d)
  BY <1>4 DEF Severity
<1>12. EvidenceInv'
  BY <1>0, <1>2, <1>9, <1>10, <1>11, LoopFrame DEF VerdictInv, EvidenceInv
<1> QED BY <1>7, <1>8, <1>12 DEF VerdictInv

(* A framing whose suite has no verifier.                                  *)
LEMMA UnsupportedFraming == ASSUME VerdictInv, Unsupported PROVE VerdictInv'
<1>0. VerdictTypeOK /\ AtFraming
  BY DEF VerdictInv, Unsupported
<1>1. /\ IsUnsupported(doc, doc.signatures[k])
      /\ ~IsVerified(doc, opts, doc.signatures[k]) /\ ~IsFailed(doc, opts, doc.signatures[k])
  BY DEF IsFailed, IsUnsupported, IsVerified, Unsupported
<1>2. /\ k' \in 1..(Len(doc.signatures) + 1) /\ UnsupportedSeen'
      /\ FailedSeen' <=> FailedSeen
      /\ VerifiedSeen' <=> VerifiedSeen
      /\ AttestedSeen' <=> AttestedSeen
  BY <1>0, <1>1, SeenAfter
<1>3. /\ findings' = Append(findings, [severity |-> "warning", code |-> "suite-unsupported"])
      /\ outcomes' = outcomes \cup {"degraded"} /\ Bump({"unsupported"}) /\ strongest' = strongest
  BY DEF Unsupported, Report
<1>4. /\ findings' \in Seq([severity : Severity, code : Code])
      /\ \A t \in Severity : \A d \in Code :
           Found(t, d)' <=> (Found(t, d) \/ (t = "warning" /\ d = "suite-unsupported"))
  BY <1>0, <1>3, FoundAfter DEF Severity, Code
<1>5. {"unsupported"} \in SUBSET Counter
  BY DEF Counter
<1>6. /\ tally' \in [Counter -> Nat]
      /\ \A x \in Counter : tally[x] \in Nat /\ tally'[x] = IF x \in {"unsupported"} THEN tally[x] + 1 ELSE tally[x]
  BY <1>0, <1>3, <1>5, BumpFacts
<1>7. VerdictTypeOK'
  BY <1>0, <1>2, <1>3, <1>4, <1>6, LoopFrame DEF VerdictTypeOK, Outcome
<1>8. CountersAddUp'
  BY <1>0, <1>6, LoopFrame DEF VerdictInv, CountersAddUp, Counter
<1>9. DegradeWeighed' /\ "degraded" \in outcomes'
  BY <1>2, <1>3 DEF DegradeWeighed
<1>10. /\ "fail" \in outcomes' <=> "fail" \in outcomes
       /\ FailWeighed' <=> FailWeighed
  BY <1>0, <1>2, <1>3, LoopFrame DEF FailWeighed
<1>11. ErrorFound' <=> ErrorFound
  BY <1>4 DEF ErrorFound, Severity
<1>12. \A d \in Code : Found("warning", d)' <=> (Found("warning", d) \/ d = "suite-unsupported")
  BY <1>4 DEF Severity
<1>13. EvidenceInv'
  BY <1>0, <1>2, <1>3, <1>9, <1>10, <1>11, <1>12, LoopFrame DEF VerdictInv, EvidenceInv
<1> QED BY <1>7, <1>8, <1>13 DEF VerdictInv

(* A framing that verifies.                                                *)
LEMMA VerifiedFraming == ASSUME VerdictInv, Verified PROVE VerdictInv'
<1>0. VerdictTypeOK /\ AtFraming
  BY DEF VerdictInv, Verified
<1> DEFINE f == doc.signatures[k]
<1>1. IsVerified(doc, opts, f) /\ ~IsUnsupported(doc, f) /\ ~IsFailed(doc, opts, f)
  BY DEF IsFailed, IsUnsupported, IsVerified, Verified
<1>2. /\ k' \in 1..(Len(doc.signatures) + 1) /\ VerifiedSeen'
      /\ FailedSeen' <=> FailedSeen
      /\ UnsupportedSeen' <=> UnsupportedSeen
      /\ AttestedSeen' <=> (AttestedSeen \/ f.suite \notin SelfDeclaring)
  BY <1>0, <1>1, SeenAfter
<1>3. /\ findings' = findings /\ outcomes' = outcomes
      /\ Bump({"anchored", "checks", "verified", "passed"})
      /\ strongest' = Stronger(MarkerOf(f), strongest)
  BY DEF Verified
<1> HIDE DEF f
<1>4. \A t \in Severity : \A d \in Code : Found(t, d)' <=> Found(t, d)
  BY <1>3, FoundSame
<1>5. {"anchored", "checks", "verified", "passed"} \in SUBSET Counter
  BY DEF Counter
<1>6. /\ tally' \in [Counter -> Nat]
      /\ \A x \in Counter : /\ tally[x] \in Nat
                            /\ tally'[x] = IF x \in {"anchored", "checks", "verified", "passed"}
                                           THEN tally[x] + 1 ELSE tally[x]
  BY <1>0, <1>3, <1>5, BumpFacts
<1>7. strongest' \in Marker
  BY <1>0, <1>3 DEF VerdictTypeOK, Stronger, MarkerOf, Marker, SelfDeclared, ThirdParty
<1>8. VerdictTypeOK'
  BY <1>0, <1>2, <1>3, <1>6, <1>7, LoopFrame DEF VerdictTypeOK
<1>9. CountersAddUp'
  BY <1>0, <1>6, LoopFrame DEF VerdictInv, CountersAddUp, Counter
<1>10. strongest' = IF AttestedSeen' THEN ThirdParty ELSE IF VerifiedSeen' THEN SelfDeclared ELSE Unsigned
  <2>1. strongest = IF AttestedSeen THEN ThirdParty ELSE IF VerifiedSeen THEN SelfDeclared ELSE Unsigned
    BY DEF VerdictInv, EvidenceInv
  <2>2. CASE f.suite \in SelfDeclaring
    BY <1>2, <1>3, <2>1, <2>2 DEF Stronger, AtLeast, MarkerOf, Unsigned, SelfDeclared, ThirdParty
  <2>3. CASE f.suite \notin SelfDeclaring
    BY <1>2, <1>3, <2>1, <2>3 DEF Stronger, AtLeast, MarkerOf, Unsigned, SelfDeclared, ThirdParty
  <2> QED BY <2>2, <2>3
<1>11. (FailWeighed' <=> FailWeighed) /\ (DegradeWeighed' <=> DegradeWeighed)
  BY <1>0, <1>2, LoopFrame DEF FailWeighed, DegradeWeighed
<1>12. (ErrorFound' <=> ErrorFound) /\ \A d \in Code : Found("warning", d)' <=> Found("warning", d)
  BY <1>4 DEF ErrorFound, Severity
<1>13. EvidenceInv'
  BY <1>0, <1>3, <1>10, <1>11, <1>12, LoopFrame DEF VerdictInv, EvidenceInv
<1> QED BY <1>8, <1>9, <1>13 DEF VerdictInv

----------------------------------------------------------------------------
(* Before the loop no framing is seen.                                     *)
LEMMA NothingSeen ==
    ASSUME k = 1
    PROVE  ~FailedSeen /\ ~UnsupportedSeen /\ ~VerifiedSeen /\ ~AttestedSeen
<1>1. 1..(k - 1) = {}
  OBVIOUS
<1> QED BY <1>1 DEF FailedSeen, UnsupportedSeen, VerifiedSeen, AttestedSeen

LEMMA VerdictInvInit == VerdictInit => VerdictInv
<1> SUFFICES ASSUME VerdictInit PROVE VerdictInv
  OBVIOUS
<1>1. doc \in DocumentType /\ opts \in OptionsType
  BY VerdictAssumption DEF VerdictInit
<1>2. Len(doc.signatures) \in Nat
  BY <1>1, LenProperties DEF DocumentType
<1>3. VerdictTypeOK
  BY <1>1, <1>2, EmptySeq DEF VerdictInit, VerdictTypeOK, Counter, Marker, Unsigned
<1>4. CountersAddUp
  BY DEF VerdictInit, CountersAddUp, Counter
<1>5. \A t \in Severity : \A c \in Code : ~Found(t, c)
  <2>1. findings = <<>> /\ Len(findings) = 0
    BY DEF VerdictInit
  <2> QED BY <2>1 DEF Found
<1>6. pc = "taint" /\ k = 1 /\ outcomes = {} /\ strongest = Unsigned
  BY DEF VerdictInit
<1>7. ~Past("taint") /\ ~Past("validity") /\ ~Past("freshness")
  BY <1>6 DEF Past
<1>8. EvidenceInv
  BY <1>5, <1>6, <1>7, NothingSeen DEF EvidenceInv, FailWeighed, DegradeWeighed, ErrorFound, Severity
<1> QED BY <1>3, <1>4, <1>8 DEF VerdictInv

(* The three checks ahead of the loop leave k, the arguments and the       *)
(* marker alone.                                                           *)
LEMMA CheckFrame ==
    ASSUME VerdictInv, k = 1, UNCHANGED <<doc, opts, k, strongest, outcome>>
    PROVE  /\ ~FailedSeen' /\ ~UnsupportedSeen' /\ ~VerifiedSeen' /\ ~AttestedSeen'
           /\ ~FailedSeen /\ ~UnsupportedSeen /\ ~VerifiedSeen /\ ~AttestedSeen
           /\ Tainted(opts)' <=> Tainted(opts)
           /\ OutsideWindow(doc, opts)' <=> OutsideWindow(doc, opts)
           /\ RecallStale(doc, opts)' <=> RecallStale(doc, opts)
           /\ Freshness(doc, opts)' = Freshness(doc, opts)
           /\ strongest = Unsigned
<1>1. ~FailedSeen /\ ~UnsupportedSeen /\ ~VerifiedSeen /\ ~AttestedSeen
  BY NothingSeen
<1>2. 1..(k' - 1) = {}
  OBVIOUS
<1>3. ~FailedSeen' /\ ~UnsupportedSeen' /\ ~VerifiedSeen' /\ ~AttestedSeen'
  BY <1>2 DEF FailedSeen, UnsupportedSeen, VerifiedSeen, AttestedSeen
<1>4. /\ Tainted(opts)' <=> Tainted(opts)
      /\ OutsideWindow(doc, opts)' <=> OutsideWindow(doc, opts)
      /\ RecallStale(doc, opts)' <=> RecallStale(doc, opts)
      /\ Freshness(doc, opts)' = Freshness(doc, opts)
  BY DEF Tainted, OutsideWindow, RecallStale, Freshness
<1>5. strongest = Unsigned
  BY <1>1 DEF VerdictInv, EvidenceInv
<1> QED BY <1>1, <1>3, <1>4, <1>5

LEMMA CheckTaintKeepsInv == ASSUME VerdictInv, CheckTaint PROVE VerdictInv'
<1>1. /\ pc = "taint" /\ pc' = "validity" /\ UNCHANGED <<doc, opts, k, tally, strongest, outcome>>
  BY DEF CheckTaint
<1>2. ~Past("taint") /\ ~Past("validity") /\ ~Past("freshness")
      /\ Past("taint")' /\ ~Past("validity")' /\ ~Past("freshness")'
  BY <1>1 DEF Past
<1>3. k = 1 /\ VerdictTypeOK
  BY <1>2 DEF VerdictInv, EvidenceInv
<1>4. "fail" \notin outcomes /\ "degraded" \notin outcomes /\ ~ErrorFound
  BY <1>1, <1>2, <1>3, CheckFrame DEF VerdictInv, EvidenceInv, FailWeighed, DegradeWeighed
<1>5. CountersAddUp'
  BY <1>1 DEF VerdictInv, CountersAddUp
<1>6. CASE Tainted(opts)
  <2>1. /\ findings' = Append(findings, [severity |-> "error", code |-> "tainted"])
        /\ outcomes' = outcomes \cup {"fail"}
    BY <1>6 DEF CheckTaint, Report
  <2>2. /\ findings' \in Seq([severity : Severity, code : Code])
        /\ \A t \in Severity : \A d \in Code : Found(t, d)' <=> (Found(t, d) \/ (t = "error" /\ d = "tainted"))
    BY <1>3, <2>1, FoundAfter DEF Severity, Code
  <2>3. VerdictTypeOK'
    BY <1>1, <1>3, <2>1, <2>2 DEF VerdictTypeOK, Outcome
  <2>4. ErrorFound' /\ \A d \in Code : Found("warning", d)' <=> Found("warning", d)
    BY <2>2 DEF ErrorFound, Severity, Code
  <2>5. "fail" \in outcomes' /\ "degraded" \notin outcomes' /\ FailWeighed' /\ ~DegradeWeighed'
    BY <1>1, <1>2, <1>3, <1>4, <1>6, <2>1, CheckFrame DEF FailWeighed, DegradeWeighed
  <2>6. EvidenceInv'
    BY <1>1, <1>2, <1>3, <1>4, <2>4, <2>5, CheckFrame DEF VerdictInv, EvidenceInv
  <2> QED BY <1>5, <2>3, <2>6 DEF VerdictInv
<1>7. CASE ~Tainted(opts)
  <2>1. findings' = findings /\ outcomes' = outcomes
    BY <1>7 DEF CheckTaint
  <2>2. VerdictTypeOK'
    BY <1>1, <1>3, <2>1 DEF VerdictTypeOK
  <2>3. (ErrorFound' <=> ErrorFound) /\ \A d \in Code : Found("warning", d)' <=> Found("warning", d)
    BY <2>1, FoundSame DEF ErrorFound, Severity
  <2>4. ~FailWeighed' /\ ~DegradeWeighed'
    BY <1>1, <1>2, <1>3, <1>7, CheckFrame DEF FailWeighed, DegradeWeighed
  <2>5. EvidenceInv'
    BY <1>1, <1>2, <1>3, <1>4, <2>1, <2>3, <2>4, CheckFrame DEF VerdictInv, EvidenceInv
  <2> QED BY <1>5, <2>2, <2>5 DEF VerdictInv
<1> QED BY <1>6, <1>7

LEMMA CheckValidityKeepsInv == ASSUME VerdictInv, CheckValidity PROVE VerdictInv'
<1>1. /\ pc = "validity" /\ pc' = "freshness" /\ UNCHANGED <<doc, opts, k, strongest, outcome>>
  BY DEF CheckValidity
<1>2. Past("taint") /\ ~Past("validity") /\ ~Past("freshness")
      /\ Past("taint")' /\ Past("validity")' /\ ~Past("freshness")'
  BY <1>1 DEF Past
<1>3. k = 1 /\ VerdictTypeOK
  BY <1>2 DEF VerdictInv, EvidenceInv
<1>4. /\ "fail" \in outcomes <=> Tainted(opts)
      /\ "degraded" \notin outcomes /\ (ErrorFound <=> "fail" \in outcomes)
  BY <1>1, <1>2, <1>3, CheckFrame DEF VerdictInv, EvidenceInv, FailWeighed, DegradeWeighed
<1>5. PICK cs \in {{"checks"}, {"checks", "passed"}} : Bump(cs)
  BY DEF CheckValidity
<1>6. /\ tally' \in [Counter -> Nat]
      /\ \A x \in Counter : tally[x] \in Nat /\ tally'[x] = IF x \in cs THEN tally[x] + 1 ELSE tally[x]
  BY <1>3, <1>5, BumpFacts DEF Counter
<1>7. CountersAddUp'
  BY <1>1, <1>5, <1>6 DEF VerdictInv, CountersAddUp, Counter
<1>8. ~DegradeWeighed' /\ (FailWeighed' <=> (Tainted(opts) \/ OutsideWindow(doc, opts)))
  BY <1>1, <1>2, <1>3, CheckFrame DEF FailWeighed, DegradeWeighed
<1>9. CASE OutsideWindow(doc, opts)
  <2>1. /\ findings' = Append(findings, [severity |-> "error", code |-> "validity-window"])
        /\ outcomes' = outcomes \cup {"fail"}
    BY <1>9 DEF CheckValidity, Report
  <2>2. /\ findings' \in Seq([severity : Severity, code : Code])
        /\ \A t \in Severity : \A d \in Code :
             Found(t, d)' <=> (Found(t, d) \/ (t = "error" /\ d = "validity-window"))
    BY <1>3, <2>1, FoundAfter DEF Severity, Code
  <2>3. VerdictTypeOK'
    BY <1>1, <1>3, <1>6, <2>1, <2>2 DEF VerdictTypeOK, Outcome
  <2>4. ErrorFound' /\ \A d \in Code : Found("warning", d)' <=> Found("warning", d)
    BY <2>2 DEF ErrorFound, Severity, Code
  <2>5. EvidenceInv'
    BY <1>1, <1>2, <1>3, <1>4, <1>8, <1>9, <2>1, <2>4, CheckFrame DEF VerdictInv, EvidenceInv
  <2> QED BY <1>7, <2>3, <2>5 DEF VerdictInv
<1>10. CASE ~OutsideWindow(doc, opts)
  <2>1. findings' = findings /\ outcomes' = outcomes
    BY <1>10 DEF CheckValidity
  <2>2. VerdictTypeOK'
    BY <1>1, <1>3, <1>6, <2>1 DEF VerdictTypeOK
  <2>3. (ErrorFound' <=> ErrorFound) /\ \A d \in Code : Found("warning", d)' <=> Found("warning", d)
    BY <2>1, FoundSame DEF ErrorFound, Severity
  <2>4. EvidenceInv'
    BY <1>1, <1>2, <1>3, <1>4, <1>8, <1>10, <2>1, <2>3, CheckFrame DEF VerdictInv, EvidenceInv
  <2> QED BY <1>7, <2>2, <2>4 DEF VerdictInv
<1> QED BY <1>9, <1>10

LEMMA CheckFreshnessKeepsInv == ASSUME VerdictInv, CheckFreshness PROVE VerdictInv'
<1>1. /\ pc = "freshness" /\ pc' = "signatures" /\ UNCHANGED <<doc, opts, k, strongest, outcome>>
  BY DEF CheckFreshness
<1>2. Past("taint") /\ Past("validity") /\ ~Past("freshness")
      /\ Past("taint")' /\ Past("validity")' /\ Past("freshness")'
  BY <1>1 DEF Past
<1>3. k = 1 /\ VerdictTypeOK
  BY <1>2 DEF VerdictInv, EvidenceInv
<1>4. /\ "fail" \in outcomes <=> (Tainted(opts) \/ OutsideWindow(doc, opts))
      /\ "degraded" \notin outcomes /\ (ErrorFound <=> "fail" \in outcomes)
  BY <1>1, <1>2, <1>3, CheckFrame DEF VerdictInv, EvidenceInv, FailWeighed, DegradeWeighed
<1> DEFINE f == Freshness(doc, opts)
<1>5. PICK cs \in {{"checks"}, {"checks", "passed"}} : Bump(cs)
  <2>1. Bump({"checks"} \cup (IF f = "fresh" THEN {"passed"} ELSE {}))
    BY DEF CheckFreshness
  <2>2. {"checks"} \cup (IF f = "fresh" THEN {"passed"} ELSE {}) \in {{"checks"}, {"checks", "passed"}}
    <3> HIDE DEF f
    <3> QED OBVIOUS
  <2> QED BY <2>1, <2>2
<1>6. /\ tally' \in [Counter -> Nat]
      /\ \A x \in Counter : tally[x] \in Nat /\ tally'[x] = IF x \in cs THEN tally[x] + 1 ELSE tally[x]
  BY <1>3, <1>5, BumpFacts DEF Counter
<1>7. CountersAddUp'
  BY <1>1, <1>5, <1>6 DEF VerdictInv, CountersAddUp, Counter
<1>8. /\ DegradeWeighed' <=> f = "stale"
      /\ FailWeighed' <=> (Tainted(opts) \/ OutsideWindow(doc, opts) \/ RecallStale(doc, opts))
  BY <1>1, <1>2, <1>3, CheckFrame DEF FailWeighed, DegradeWeighed
<1>9. outcomes' = outcomes \cup {OutcomeForFreshness(f)} \cup (IF RecallStale(doc, opts) THEN {"fail"} ELSE {})
  BY DEF CheckFreshness
<1>10. OutcomeForFreshness(f) = IF f = "stale" THEN "degraded" ELSE "pass"
  BY DEF OutcomeForFreshness
<1>11. /\ outcomes' \subseteq Outcome
       /\ "degraded" \in outcomes' <=> f = "stale"
       /\ "fail" \in outcomes' <=> ("fail" \in outcomes \/ RecallStale(doc, opts))
  <2> HIDE DEF f
  <2>1. outcomes \subseteq Outcome
    BY <1>3 DEF VerdictTypeOK
  <2>2. CASE RecallStale(doc, opts)
    BY <1>4, <1>9, <1>10, <2>1, <2>2 DEF Outcome
  <2>3. CASE ~RecallStale(doc, opts)
    BY <1>4, <1>9, <1>10, <2>1, <2>3 DEF Outcome
  <2> QED BY <2>2, <2>3
<1>12. CASE RecallStale(doc, opts)
  <2>1. findings' = Append(findings, [severity |-> "error", code |-> "recall-stale"])
    BY <1>12 DEF CheckFreshness
  <2>2. /\ findings' \in Seq([severity : Severity, code : Code])
        /\ \A t \in Severity : \A d \in Code :
             Found(t, d)' <=> (Found(t, d) \/ (t = "error" /\ d = "recall-stale"))
    BY <1>3, <2>1, FoundAfter DEF Severity, Code
  <2>3. VerdictTypeOK'
    BY <1>1, <1>3, <1>6, <1>11, <2>2 DEF VerdictTypeOK
  <2>4. ErrorFound' /\ \A d \in Code : Found("warning", d)' <=> Found("warning", d)
    BY <2>2 DEF ErrorFound, Severity, Code
  <2>5. \A d \in Code : Found("warning", d) => d = "below-minimum-marker"
    BY <1>4 DEF VerdictInv, EvidenceInv
  <2>6. EvidenceInv'
    BY <1>1, <1>2, <1>3, <1>4, <1>8, <1>11, <1>12, <2>4, <2>5, CheckFrame DEF EvidenceInv
  <2> QED BY <1>7, <2>3, <2>6 DEF VerdictInv
<1>13. CASE ~RecallStale(doc, opts)
  <2>1. findings' = findings
    BY <1>13 DEF CheckFreshness
  <2>2. VerdictTypeOK'
    BY <1>1, <1>3, <1>6, <1>11, <2>1 DEF VerdictTypeOK
  <2>3. (ErrorFound' <=> ErrorFound) /\ \A d \in Code : Found("warning", d)' <=> Found("warning", d)
    BY <2>1, FoundSame DEF ErrorFound, Severity
  <2>4. \A d \in Code : Found("warning", d) => d = "below-minimum-marker"
    BY <1>4 DEF VerdictInv, EvidenceInv
  <2>5. EvidenceInv'
    BY <1>1, <1>2, <1>3, <1>4, <1>8, <1>11, <1>13, <2>3, <2>4, CheckFrame DEF EvidenceInv
  <2> QED BY <1>7, <2>2, <2>5 DEF VerdictInv
<1> QED BY <1>12, <1>13

LEMMA ConcludeKeepsInv == ASSUME VerdictInv, Conclude PROVE VerdictInv'
<1>1. /\ pc = "signatures" /\ pc' = "done" /\ k > Len(doc.signatures)
      /\ UNCHANGED <<doc, opts, k, outcomes, tally, strongest>> /\ outcome' = CombineOutcome(outcomes)
  BY DEF Conclude
<1>2. VerdictTypeOK /\ k = Len(doc.signatures) + 1
  BY <1>1, FramingType DEF VerdictInv
<1>3. /\ Past("taint") /\ Past("validity") /\ Past("freshness")
      /\ Past("taint")' /\ Past("validity")' /\ Past("freshness")'
  BY <1>1 DEF Past
<1>4. /\ findings' \in Seq([severity : Severity, code : Code])
      /\ \A d \in Code : Found("error", d)' <=> Found("error", d)
      /\ \A d \in Code : Found("warning", d)' => (Found("warning", d) \/ d = "below-minimum-marker")
  <2>1. CASE TrustCovered
    <3>1. findings' = findings
      BY <2>1 DEF Conclude
    <3> QED BY <1>2, <3>1, FoundSame DEF VerdictTypeOK, Severity
  <2>2. CASE ~TrustCovered
    <3>1. findings' = Append(findings, [severity |-> "warning", code |-> "below-minimum-marker"])
      BY <2>2 DEF Conclude
    <3>2. /\ findings' \in Seq([severity : Severity, code : Code])
          /\ \A t \in Severity : \A d \in Code :
               Found(t, d)' <=> (Found(t, d) \/ (t = "warning" /\ d = "below-minimum-marker"))
      BY <1>2, <3>1, FoundAfter DEF Severity, Code
    <3> QED BY <3>2 DEF Severity
  <2> QED BY <2>1, <2>2
<1>5. outcome' \in Outcome
  BY <1>1 DEF CombineOutcome, Outcome
<1>6. VerdictTypeOK'
  BY <1>1, <1>2, <1>4, <1>5 DEF VerdictTypeOK
<1>7. CountersAddUp'
  BY <1>1 DEF VerdictInv, CountersAddUp
<1>8. /\ FailedSeen' <=> FailedSeen
      /\ UnsupportedSeen' <=> UnsupportedSeen
      /\ VerifiedSeen' <=> VerifiedSeen
      /\ AttestedSeen' <=> AttestedSeen
  BY <1>1 DEF FailedSeen, UnsupportedSeen, VerifiedSeen, AttestedSeen, IsFailed, IsUnsupported, IsVerified,
              Readable, Sealed
<1>9. /\ Tainted(opts)' <=> Tainted(opts)
      /\ OutsideWindow(doc, opts)' <=> OutsideWindow(doc, opts)
      /\ RecallStale(doc, opts)' <=> RecallStale(doc, opts)
      /\ Freshness(doc, opts)' = Freshness(doc, opts)
  BY <1>1 DEF Tainted, OutsideWindow, RecallStale, Freshness
<1>10. (FailWeighed' <=> FailWeighed) /\ (DegradeWeighed' <=> DegradeWeighed) /\ (ErrorFound' <=> ErrorFound)
  BY <1>3, <1>4, <1>8, <1>9 DEF FailWeighed, DegradeWeighed, ErrorFound
<1>11. EvidenceInv'
  BY <1>1, <1>2, <1>3, <1>4, <1>8, <1>10 DEF VerdictInv, EvidenceInv
<1> QED BY <1>6, <1>7, <1>11 DEF VerdictInv

(* Every step of the pass keeps the invariant.                             *)
LEMMA VerdictInvStep == ASSUME VerdictInv, [VerdictNext]_verdictVars PROVE VerdictInv'
<1>1. CASE Unreadable
  <2>1. IsFailed(doc, opts, doc.signatures[k]) /\ "signature-invalid" \in Code
    BY <1>1 DEF Unreadable, IsFailed, IsVerified, IsUnsupported, Code
  <2> QED BY <1>1, <2>1, FailedFraming DEF Unreadable
<1>2. CASE Unanchored
  <2>1. IsFailed(doc, opts, doc.signatures[k]) /\ "key-unanchored" \in Code
    BY <1>2 DEF Unanchored, IsFailed, IsVerified, IsUnsupported, Code
  <2> QED BY <1>2, <2>1, FailedFraming DEF Unanchored
<1>3. CASE Forged
  <2>1. IsFailed(doc, opts, doc.signatures[k]) /\ "signature-invalid" \in Code
    BY <1>3 DEF Forged, IsFailed, IsVerified, IsUnsupported, Code
  <2> QED BY <1>3, <2>1, FailedFraming DEF Forged
<1>4. CASE UNCHANGED verdictVars
  <2>1. VerdictTypeOK' /\ CountersAddUp'
    BY <1>4 DEF verdictVars, VerdictInv, VerdictTypeOK, CountersAddUp
  <2>2. EvidenceInv'
    <3>1. /\ FailedSeen' <=> FailedSeen
          /\ UnsupportedSeen' <=> UnsupportedSeen
          /\ VerifiedSeen' <=> VerifiedSeen
          /\ AttestedSeen' <=> AttestedSeen
      BY <1>4 DEF verdictVars, FailedSeen, UnsupportedSeen, VerifiedSeen, AttestedSeen, IsFailed, IsUnsupported,
                  IsVerified, Readable, Sealed
    <3>2. (FailWeighed' <=> FailWeighed) /\ (DegradeWeighed' <=> DegradeWeighed) /\ (ErrorFound' <=> ErrorFound)
      BY <1>4, <3>1 DEF verdictVars, FailWeighed, DegradeWeighed, ErrorFound, Found, Past, Tainted,
                        OutsideWindow, RecallStale, Freshness
    <3> QED BY <1>4, <3>1, <3>2 DEF verdictVars, VerdictInv, EvidenceInv, Found, Past
  <2> QED BY <2>1, <2>2 DEF VerdictInv
<1> QED
  BY <1>1, <1>2, <1>3, <1>4, UnsupportedFraming, VerifiedFraming, CheckTaintKeepsInv, CheckValidityKeepsInv,
     CheckFreshnessKeepsInv, ConcludeKeepsInv DEF VerdictNext

(* The invariant holds at every point of every pass.                       *)
THEOREM VerdictSafety == VerdictSpec => []VerdictInv
<1>1. VerdictInit => VerdictInv
  BY VerdictInvInit
<1>2. VerdictInv /\ [VerdictNext]_verdictVars => VerdictInv'
  BY VerdictInvStep
<1> QED
  BY <1>1, <1>2, PTL DEF VerdictSpec

(* The pass keeps its counters, findings and markers in their types.       *)
THEOREM VerdictTypeCorrect == VerdictSpec => []VerdictTypeOK
<1>1. VerdictInv => VerdictTypeOK
  BY DEF VerdictInv
<1> QED
  BY <1>1, VerdictSafety, PTL

(* verdict.rs:519-662: every framing counts exactly once.                  *)
THEOREM VerdictCounts == VerdictSpec => []CountersAddUp
<1>1. VerdictInv => CountersAddUp
  BY DEF VerdictInv
<1> QED
  BY <1>1, VerdictSafety, PTL

(* At the end everything has been seen.                                    *)
LEMMA AllSeen ==
    ASSUME VerdictInv, pc = "done"
    PROVE  /\ FailedSeen <=> AnyFailed
           /\ UnsupportedSeen <=> AnyUnsupported
           /\ VerifiedSeen <=> AnyVerified
           /\ AttestedSeen <=> \E n \in 1..Len(doc.signatures) :
                                   /\ IsVerified(doc, opts, doc.signatures[n])
                                   /\ doc.signatures[n].suite \notin SelfDeclaring
           /\ Past("taint") /\ Past("validity") /\ Past("freshness")
<1>1. 1..(k - 1) = 1..Len(doc.signatures)
  BY FramingType DEF VerdictInv, EvidenceInv
<1> QED BY <1>1 DEF FailedSeen, UnsupportedSeen, VerifiedSeen, AttestedSeen, AnyFailed, AnyUnsupported,
                    AnyVerified, Past

(* verdict.rs:451-631: the outcome is the meaning of the evidence, for     *)
(* every document and every list of framings in whatever order.            *)
THEOREM VerdictMeans == VerdictSpec => []VerdictMeaning
<1>1. ASSUME VerdictInv, pc = "done"
      PROVE  outcome = IF FailingEvidence THEN "fail" ELSE IF DegradingEvidence THEN "degraded" ELSE "pass"
  <2>1. /\ "fail" \in outcomes <=> FailingEvidence
        /\ "degraded" \in outcomes <=> DegradingEvidence
    BY <1>1, AllSeen DEF VerdictInv, EvidenceInv, FailWeighed, DegradeWeighed, FailingEvidence, DegradingEvidence
  <2> QED BY <1>1, <2>1 DEF VerdictInv, EvidenceInv, CombineOutcome
<1>2. VerdictInv => VerdictMeaning
  BY <1>1 DEF VerdictMeaning
<1> QED
  BY <1>2, VerdictSafety, PTL

(* verdict.rs:442-671: a verdict fails if and only if it reports an error, *)
(* and passes without any warning but the minimum marker.                  *)
THEOREM FindingsExplain == VerdictSpec => []FindingsExplainOutcome
<1>1. ASSUME VerdictInv, pc = "done"
      PROVE  /\ outcome = "fail" <=> ErrorFound
             /\ outcome = "pass" => \A c \in Code : Found("warning", c) => c = "below-minimum-marker"
  BY <1>1 DEF VerdictInv, EvidenceInv, CombineOutcome
<1>2. VerdictInv => FindingsExplainOutcome
  BY <1>1 DEF FindingsExplainOutcome, ErrorFound
<1> QED
  BY <1>2, VerdictSafety, PTL

(* verdict.rs:606-618: the marker is the strongest one that was earned.    *)
THEOREM MarkersAreEarned == VerdictSpec => []MarkerEarned
<1>1. VerdictInv => MarkerEarned
  BY AllSeen DEF VerdictInv, EvidenceInv, MarkerEarned
<1> QED
  BY <1>1, VerdictSafety, PTL
=============================================================================
