--------------------------------- MODULE Gateway ---------------------------------
(***************************************************************************)
(* Requests resolving passports while imports arrive and the issuer lives  *)
(* its own life (api.rs, source.rs over ingest.rs).  A passport comes from *)
(* the fixtures, or else from the issuer, in two calls that may each fail  *)
(* or take too long, or else from the ingested store.  The verdict of a    *)
(* render is reduced to what differs between the sources: a document       *)
(* passes if every one of its signers is among the anchors (VerdictMeaning *)
(* of Verdict, for a document that is otherwise in order).                 *)
(***************************************************************************)
EXTENDS IngestStore

CONSTANTS
    Handler,            \* requests in flight
    Fixture,            \* the fixture passports
    IssuerKey,          \* what the issuer knows its passports by
    UntpKey, EnKey,     \* keys asked for on the two routes
    UpstreamTimeout,    \* PassportSource.timeout, in ticks
    MaxRing             \* bound on key rotations

ASSUME GatewayAssumption ==
    /\ Fixture \subseteq Passport
    /\ UpstreamTimeout \in Nat /\ MaxRing \in Nat \ {0}

(* The issuer's keys, in the order of their use.                           *)
FirstKey == 1
NotMinted == {0}

VARIABLES
    issuer,     \* UNIDPP_ISSUER_URL is set; the issuer's current key; who signed each passport
    req         \* by handler, the request and what it has gathered

gatewayVars == <<entries, receipts, reply, minted, issuer, req>>

NoAnswer == [status |-> "none", source |-> "none", outcome |-> "none"]

(* since, owed and lost only record what the properties speak of: the      *)
(* issuer's key when the request came, whether the store had an answer to  *)
(* it then, and whether the keyring never came.                            *)
Idle ==
    [step |-> "idle", route |-> "none", key |-> <<"none">>, signers |-> {}, waited |-> 0,
     since |-> FirstKey, owed |-> FALSE, lost |-> FALSE, answer |-> NoAnswer]

GatewayTypeOK ==
    /\ IngestTypeOK
    /\ issuer.set \in BOOLEAN /\ issuer.ring \in FirstKey..MaxRing
    /\ \A key \in IssuerKey :
           issuer.known[key] = NotMinted \/ issuer.known[key] \in SUBSET (FirstKey..issuer.ring)
    /\ \A h \in Handler :
           /\ req[h].step \in {"idle", "passport", "keyring", "ingested", "done"}
           /\ req[h].step \in {"passport", "keyring"} => issuer.set /\ req[h].waited <= UpstreamTimeout
           /\ req[h].signers \subseteq FirstKey..issuer.ring
           /\ req[h].step = "done" <=> req[h].answer.status # "none"
           /\ req[h].answer.outcome # "none" =>
                  req[h].route = "untp" /\ req[h].answer.status = "200"

GatewayInit ==
    /\ IngestInit
    /\ issuer \in [set : BOOLEAN, ring : {FirstKey}, known : [IssuerKey -> {NotMinted}]]
    /\ req = [h \in Handler |-> Idle]

----------------------------------------------------------------------------
(* The EN route knows a fixture by its GTIN only; the UNTP route by that   *)
(* and by the keys of an import.                                           *)
GtinKey(p) == IF p.product.kind = "gs1" THEN {<<"gtin", p.product.key>>} ELSE {}

FixtureKeys(route, p) == GtinKey(p) \cup (IF route = "untp" THEN IngestedKeys(p) ELSE {})

FixtureMatch(route, key) == \E p \in Fixture : key \in FixtureKeys(route, p)

Become(h, r) ==
    /\ req' = [req EXCEPT ![h] = r]
    /\ UNCHANGED <<entries, receipts, reply, minted, issuer>>

AnsweredAlike(r, status, source, outcome) ==
    [r EXCEPT !.step = "done", !.answer = [status |-> status, source |-> source, outcome |-> outcome]]

Answered(r, status, source, outcome) ==
    [r EXCEPT !.step = "done",
              !.answer = [status |-> status, source |-> source,
                          outcome |-> IF r.route = "untp" /\ status = "200" THEN outcome ELSE "none"]]

(* A miss of the fixtures and the issuer: the EN route ends here.          *)
MissedGivesUp(r) == Answered(r, "404", "none", "none")

Missed(r) ==
    IF r.route = "untp" THEN [r EXCEPT !.step = "ingested"] ELSE Answered(r, "404", "none", "none")

Outcome(signers, anchors) == IF signers \subseteq anchors THEN "pass" ELSE "fail"

Asked(route, key) ==
    [Idle EXCEPT !.route = route, !.key = key, !.since = issuer.ring, !.owed = Resolved(key) # {}]

(* Not admitted by the scan gate, or with parameters that do not parse:    *)
(* whatever was asked for.                                                 *)
TurnAway(h) ==
    /\ req[h].step \in {"idle", "done"}
    /\ Become(h, Answered(Idle, "refused", "none", "none"))

AskIssuerFirst(h, route, key) ==
    /\ req[h].step \in {"idle", "done"}
    /\ LET r == Asked(route, key)
       IN Become(h, IF issuer.set THEN [r EXCEPT !.step = "passport"]
                    ELSE IF FixtureMatch(route, key) THEN Answered(r, "200", "fixture", "pass")
                    ELSE Missed(r))

Ask(h, route, key) ==
    /\ req[h].step \in {"idle", "done"}
    /\ LET r == Asked(route, key)
       IN Become(h, IF FixtureMatch(route, key) THEN Answered(r, "200", "fixture", "pass")
                    ELSE IF issuer.set THEN [r EXCEPT !.step = "passport"]
                    ELSE Missed(r))

(* GET /passports/{id}: the document as it is now, or a miss.              *)
PassportArrives(h) ==
    /\ req[h].step = "passport"
    /\ LET r == req[h]
           found == r.key \in IssuerKey /\ issuer.known[r.key] # NotMinted
       IN Become(h, IF found THEN [r EXCEPT !.step = "keyring", !.waited = 0, !.signers = issuer.known[r.key]]
                    ELSE Missed(r))

(* GET /keyring: the current key.  Without it there is no anchor.          *)
FetchedAnchorsCached(h) == {FirstKey}
FetchedAnchorsEarly(h) == {req[h].since}
FetchedAnchors(h) == {issuer.ring}

KeyringArrives(h) ==
    /\ req[h].step = "keyring"
    /\ Become(h, Answered(req[h], "200", "issuer", Outcome(req[h].signers, FetchedAnchors(h))))

(* A call fails: refused, cut off, not 200, not what it should be.         *)
CallFailedRetries(h) ==
    Become(h, IF req[h].step = "passport" THEN [req[h] EXCEPT !.waited = 0]
              ELSE Answered([req[h] EXCEPT !.lost = TRUE], "200", "issuer", Outcome(req[h].signers, {})))

CallFailed(h) ==
    Become(h, IF req[h].step = "passport" THEN Missed(req[h])
              ELSE Answered([req[h] EXCEPT !.lost = TRUE], "200", "issuer", Outcome(req[h].signers, {})))

CallFails(h) == req[h].step \in {"passport", "keyring"} /\ CallFailed(h)

(* Time passes for every call at once, and for none beyond its timeout:    *)
(* timers fire, and the other steps are taken, without delay.              *)
Waiting(h) == req[h].step \in {"passport", "keyring"}

Waits ==
    /\ \A h \in Handler : Waiting(h) => req[h].waited < UpstreamTimeout
    /\ \A h \in Handler : req[h].step # "ingested"
    /\ req' = [h \in Handler |-> IF Waiting(h) THEN [req[h] EXCEPT !.waited = @ + 1] ELSE req[h]]
    /\ UNCHANGED <<entries, receipts, reply, minted, issuer>>

TimesOutNever(h) == FALSE /\ UNCHANGED gatewayVars

TimesOut(h) ==
    /\ req[h].step \in {"passport", "keyring"}
    /\ req[h].waited = UpstreamTimeout
    /\ CallFailed(h)

(* The third source, under its lock.                                       *)
LookUpIngested(h) ==
    /\ req[h].step = "ingested"
    /\ Become(h, IF Resolved(req[h].key) # {} THEN Answered(req[h], "200", "ingested", "pass")
                 ELSE Answered(req[h], "404", "none", "none"))

----------------------------------------------------------------------------
(* POST /untp/ingest runs under the lock of the store, in one step.        *)
PostBody(body) == Ingest(body) /\ UNCHANGED <<issuer, req>>

(* The issuer: mints, appends events signed with its current key, rotates. *)
IssuerActs(change) == issuer' = change /\ UNCHANGED <<entries, receipts, reply, minted, req>>

IssuerMints(key) ==
    issuer.known[key] = NotMinted /\ IssuerActs([issuer EXCEPT !.known[key] = {issuer.ring}])

IssuerAppends(key) ==
    /\ issuer.known[key] # NotMinted
    /\ IssuerActs([issuer EXCEPT !.known[key] = @ \cup {issuer.ring}])

IssuerRotates == issuer.ring < MaxRing /\ IssuerActs([issuer EXCEPT !.ring = @ + 1])

GatewayRestart ==
    /\ IngestRestart
    /\ req' = [h \in Handler |-> Idle]
    /\ \E set \in BOOLEAN : issuer' = [issuer EXCEPT !.set = set]

HandlerStep(h) == PassportArrives(h) \/ KeyringArrives(h) \/ CallFails(h) \/ TimesOut(h) \/ LookUpIngested(h)

GatewayNext ==
    \/ \E h \in Handler :
         \/ \E key \in UntpKey : Ask(h, "untp", key)
         \/ \E key \in EnKey : Ask(h, "en18222", key)
         \/ TurnAway(h)
         \/ HandlerStep(h)
    \/ Waits
    \/ \E body \in Posted : PostBody(body)
    \/ \E key \in IssuerKey : IssuerMints(key) \/ IssuerAppends(key)
    \/ IssuerRotates
    \/ GatewayRestart

GatewaySpec == GatewayInit /\ [][GatewayNext]_gatewayVars

----------------------------------------------------------------------------
(* A fixture answers to its keys, whatever was imported under the same     *)
(* identity and whatever the issuer does.  (source.rs:123-148,             *)
(* api.rs:363-369.)                                                        *)
FixturesAnswerFirst ==
    \A h \in Handler :
        (req[h].answer.status \in {"200", "404"} /\ FixtureMatch(req[h].route, req[h].key)) =>
            req[h].answer.source = "fixture"

(* An import that was there when a request for it came is served, whether  *)
(* the issuer answers, fails or hangs in between.  (api.rs:363-369,        *)
(* source.rs:155-186.)                                                     *)
ImportsStayServed ==
    \A h \in Handler :
        (req[h].route = "untp" /\ req[h].owed) => req[h].answer.status # "404"

(* A pass is never granted on a key the issuer had given up before the     *)
(* request came.  (source.rs:178, :188-219: anchors are fetched anew.)     *)
PassRestsOnLiveKeys ==
    \A h \in Handler :
        (req[h].answer.source = "issuer" /\ req[h].answer.outcome = "pass") =>
            \A k \in req[h].signers : k >= req[h].since

(* A passport of the issuer fails only for a cause: the keyring did not    *)
(* come, or a key that signed it is no longer the issuer's.  The passport  *)
(* is fetched before the keyring; the other order would fail a passport    *)
(* that was signed with the new key in between.  (source.rs:160-186.)      *)
FailureHasCause ==
    \A h \in Handler :
        (req[h].answer.source = "issuer" /\ req[h].answer.outcome = "fail") =>
            req[h].lost \/ \E k \in req[h].signers : k < issuer.ring

(* Every request is answered although the issuer may hang in both calls.   *)
(* (http.rs:217-219, source.rs:155-219.)                                   *)
RequestsAnswered ==
    \A h \in Handler : req[h].step \in {"passport", "keyring", "ingested"} ~> req[h].step \in {"done", "idle"}
=============================================================================
