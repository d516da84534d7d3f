--------------------------- MODULE RenderRoutesProofs ---------------------------
(***************************************************************************)
(* What is imported, and what a request on the render routes is answered,  *)
(* for every set of handlers, keys, fixtures and imports.  First the       *)
(* store, which is proved about alone; then the requests: a request        *)
(* gathers what it needs in steps between which the issuer and the store   *)
(* move on, and Gathering says what still holds then of what was read      *)
(* before.  The routes run the gateway, its store and the gate as they are *)
(* (RoutesRunGateway, GatewayRunsStore, RoutesRunGate), so that what is    *)
(* proved of those holds of the routes (RoutesKeepStore, RoutesKeepGate);  *)
(* how long a token may be outlived is the business of the clock they      *)
(* share (TimesInv).                                                       *)
(***************************************************************************)
EXTENDS RenderRoutes, SequenceFacts

(* One subject, one identity, for every set of schemes, keys and bodies.   *)
(* The store only ever files a passport under the digest of its subject    *)
(* (Filed), and the digest tells subjects apart (NoCollision); what is     *)
(* rendered of a subject parses back to it (ReadsBack).                    *)
IdOf(i) == Digest[Display(i)]

Filed ==
    /\ DOMAIN receipts = DOMAIN entries
    /\ \A id \in DOMAIN entries :
           /\ entries[id].product \in Identity
           /\ entries[id].id = id
           /\ id = IdOf(entries[id].product)
           /\ receipts[id].bindings = Len(entries[id].profiles)
           /\ ParseIdentity(receipts[id].body.ids) = entries[id].product

ReplyFiled ==
    reply.status \in {"imported", "matched"} =>
        /\ reply.passport.id \in DOMAIN entries
        /\ reply.passport = entries[reply.passport.id]
        /\ reply.receipt = receipts[reply.passport.id]
        /\ reply.passport.product = reply.subject

MintedByDigest == \A m \in minted : m[1] \in Identity /\ m[2] = IdOf(m[1])

IngestInv == Filed /\ ReplyFiled /\ MintedByDigest

----------------------------------------------------------------------------
(* What the gateway writes of a subject, it reads back as that subject.    *)
LEMMA ReadsBack ==
    ASSUME NEW p, p.product \in Identity
    PROVE  ParseIdentity(RenderTriad(p).ids) = p.product
<1> DEFINE i == p.product
           first == [scheme |-> SchemeUri(i), value |-> UntpIdentifierValue(i)]
<1>1. RenderTriad(p).ids = <<first>>
  BY DEF RenderTriad
<1>2. CASE i.kind = "gs1"
  <2>1. /\ i.key \in Gtin
        /\ i = [kind |-> "gs1", key |-> i.key, lot |-> i.lot, serial |-> i.serial]
    BY <1>2 DEF Identity
  <2>2. first = [scheme |-> Gs1Voc,
                 value |-> [form |-> "ai", key |-> i.key, lot |-> i.lot, serial |-> i.serial]]
    BY <1>2 DEF SchemeUri, UntpIdentifierValue, Display
  <2> HIDE DEF first, i
  <2>3. first.value # NoText /\ first.value.form = "ai" /\ first.scheme = Gs1Voc /\ Gs1Voc # None
    BY <2>2, UntpAssumption DEF NoText, Scheme
  <2>4. ParseIdentity(<<first>>) = ParseDisplay(CoreIdentifierValue(SchemeToken(Gs1Voc), first.value))
    BY <2>3 DEF ParseIdentity
  <2>5. CoreIdentifierValue(SchemeToken(Gs1Voc), first.value)
        = [form |-> "plus", key |-> i.key, lot |-> i.lot, serial |-> i.serial]
    BY <2>2 DEF CoreIdentifierValue
  <2>6. ParseIdentity(<<first>>) = i
    BY <2>1, <2>4, <2>5 DEF ParseDisplay
  <2> QED BY <1>1, <2>6 DEF i
<1>3. CASE i.kind = "cpid"
  <2>1. /\ i.key \in Urn
        /\ i = [kind |-> "cpid", key |-> i.key, lot |-> None, serial |-> None]
    BY <1>3 DEF Identity
  <2>2. first = [scheme |-> UnidppId,
                 value |-> [form |-> "cpid", key |-> i.key, lot |-> i.lot, serial |-> i.serial]]
    BY <1>3 DEF SchemeUri, UntpIdentifierValue, Display
  <2> HIDE DEF first, i
  <2>3. first.value # NoText /\ first.scheme = UnidppId /\ UnidppId # None
    BY <2>2, UntpAssumption DEF NoText, Scheme
  <2>4. SchemeToken(UnidppId) = "cpid"
    BY UntpAssumption DEF SchemeToken
  <2>5. ParseIdentity(<<first>>) = ParseDisplay(CoreIdentifierValue("cpid", first.value))
    BY <2>3, <2>4 DEF ParseIdentity
  <2>6. CoreIdentifierValue("cpid", first.value) = first.value
    BY <2>2 DEF CoreIdentifierValue
  <2>7. ParseIdentity(<<first>>) = i
    BY <2>1, <2>2, <2>5, <2>6 DEF ParseDisplay
  <2> QED BY <1>1, <2>7 DEF i
<1> QED BY <1>2, <1>3 DEF Identity

(* What is read is a subject or nothing.                                   *)
LEMMA ReadsIdentities ==
    ASSUME NEW body \in Body, Readable(body)
    PROVE  ParseIdentity(body.ids) \in Identity
<1>1. body.ids \in Seq(ProductId) /\ body.ids # <<>> /\ body.ids[1].value # NoText
  BY DEF Body, Readable, ParseIdentity
<1>2. body.ids[1] \in ProductId
  BY <1>1
<1>3. body.ids[1].value \in Text
  BY <1>1, <1>2 DEF ProductId
<1> DEFINE token == SchemeToken(IF body.ids[1].scheme = None THEN Gs1Voc ELSE body.ids[1].scheme)
           t == CoreIdentifierValue(token, body.ids[1].value)
<1>4. ParseIdentity(body.ids) = ParseDisplay(t)
  BY <1>1 DEF ParseIdentity
<1>5. t.lot \in Qualifier \cup {None} /\ t.serial \in Qualifier \cup {None}
  <2> HIDE DEF token
  <2> QED BY <1>3 DEF CoreIdentifierValue, Text
<1> HIDE DEF t
<1> QED BY <1>4, <1>5 DEF Readable, ParseDisplay, Identity

----------------------------------------------------------------------------
LEMMA MatchKeepsInv ==
    ASSUME IngestInv, NEW body, ParseIdentity(body.ids) \in Identity, Match(body)
    PROVE  IngestInv'
<1> DEFINE i == ParseIdentity(body.ids)
           id == DerivedPassportId(body.ids)
<1>1. id = IdOf(i)
  BY DEF DerivedPassportId, IdOf
<1>2. /\ id \in DOMAIN entries
      /\ reply' = [status |-> "matched", subject |-> i, passport |-> entries[id], receipt |-> receipts[id]]
      /\ minted' = minted \cup {<<i, entries[id].id>>}
      /\ entries' = entries /\ receipts' = receipts
  BY DEF Match, Answer
<1> HIDE DEF i, id
<1>3. entries[id].product \in Identity /\ entries[id].id = id /\ id = IdOf(entries[id].product)
  BY <1>2 DEF IngestInv, Filed
<1>4. entries[id].product = i
  BY <1>1, <1>3, CollisionAssumption DEF NoCollision, IdOf, i
<1>5. Filed'
  BY <1>2 DEF IngestInv, Filed
<1>6. ReplyFiled'
  BY <1>2, <1>3, <1>4 DEF ReplyFiled
<1>7. MintedByDigest'
  BY <1>1, <1>2, <1>3, <1>4 DEF IngestInv, MintedByDigest
<1> QED BY <1>5, <1>6, <1>7 DEF IngestInv

LEMMA ImportKeepsInv ==
    ASSUME IngestInv, NEW body, ParseIdentity(body.ids) \in Identity, Import(body)
    PROVE  IngestInv'
<1> DEFINE i == ParseIdentity(body.ids)
           p == Mint(body)
           r == [body |-> body, bindings |-> Len(p.profiles)]
<1>1. p.id = IdOf(i) /\ p.product = i
  BY DEF Mint, DerivedPassportId, IdOf
<1>2. /\ entries' = Put(entries, p.id, p) /\ receipts' = Put(receipts, p.id, r)
      /\ reply' = [status |-> "imported", subject |-> i, passport |-> p, receipt |-> r]
      /\ minted' = minted \cup {<<i, p.id>>}
  BY DEF Import, Answer
<1>3. r.bindings = Len(p.profiles) /\ ParseIdentity(r.body.ids) = i
  OBVIOUS
<1>4. i \in Identity
  OBVIOUS
<1> HIDE DEF i, p, r
<1>5. /\ DOMAIN entries' = DOMAIN entries \cup {p.id} /\ DOMAIN receipts' = DOMAIN receipts \cup {p.id}
      /\ entries'[p.id] = p /\ receipts'[p.id] = r
      /\ \A x \in DOMAIN entries : x # p.id => entries'[x] = entries[x]
      /\ \A x \in DOMAIN receipts : x # p.id => receipts'[x] = receipts[x]
  <2>1. /\ DOMAIN entries' = DOMAIN entries \cup {p.id} /\ entries'[p.id] = p
        /\ \A x \in DOMAIN entries : x # p.id => entries'[x] = entries[x]
    BY <1>2 DEF Put
  <2>2. /\ DOMAIN receipts' = DOMAIN receipts \cup {p.id} /\ receipts'[p.id] = r
        /\ \A x \in DOMAIN receipts : x # p.id => receipts'[x] = receipts[x]
    BY <1>2 DEF Put
  <2> QED BY <2>1, <2>2
<1>6. Filed'
  <2>1. DOMAIN receipts' = DOMAIN entries'
    BY <1>5 DEF IngestInv, Filed
  <2>2. ASSUME NEW x \in DOMAIN entries'
        PROVE  /\ entries'[x].product \in Identity /\ entries'[x].id = x
               /\ x = IdOf(entries'[x].product)
               /\ receipts'[x].bindings = Len(entries'[x].profiles)
               /\ ParseIdentity(receipts'[x].body.ids) = entries'[x].product
    <3>1. CASE x = p.id
      BY <1>1, <1>3, <1>4, <1>5, <3>1
    <3>2. CASE x # p.id
      BY <1>5, <3>2 DEF IngestInv, Filed
    <3> QED BY <3>1, <3>2
  <2>3. \A x : IdOf(entries'[x].product) = IdOf(entries[x].product)'
    BY DEF IdOf
  <2> QED BY <2>1, <2>2, <2>3 DEF Filed
<1>7. ReplyFiled'
  BY <1>1, <1>2, <1>5 DEF ReplyFiled
<1>8. MintedByDigest'
  BY <1>1, <1>2, <1>4 DEF IngestInv, MintedByDigest
<1> QED BY <1>6, <1>7, <1>8 DEF IngestInv

LEMMA NoImportKeepsInv ==
    ASSUME IngestInv, UNCHANGED <<entries, receipts, minted>>,
           reply' = reply \/ reply'.status \notin {"imported", "matched"}
    PROVE  IngestInv'
  BY DEF IngestInv, Filed, ReplyFiled, MintedByDigest

LEMMA IngestKeepsInv ==
    ASSUME IngestInv, NEW body, Readable(body) => ParseIdentity(body.ids) \in Identity, Ingest(body)
    PROVE  IngestInv'
<1>1. CASE Degrade(body)
  BY <1>1, NoImportKeepsInv DEF Degrade
<1>2. CASE MintFails(body)
  BY <1>2, NoImportKeepsInv DEF MintFails
<1>3. CASE Match(body)
  BY <1>3, MatchKeepsInv DEF Match
<1>4. CASE Import(body)
  BY <1>4, ImportKeepsInv DEF Import
<1> QED BY <1>1, <1>2, <1>3, <1>4 DEF Ingest

LEMMA IngestInvStep == ASSUME IngestInv, [IngestNext]_ingestVars PROVE IngestInv'
<1>1. ASSUME NEW body \in Posted, Ingest(body) PROVE IngestInv'
  BY <1>1, IngestAssumption, ReadsIdentities, IngestKeepsInv
<1>2. ASSUME NEW id \in DOMAIN entries, Ingest(RenderTriad(entries[id])) PROVE IngestInv'
  <2>1. ParseIdentity(RenderTriad(entries[id]).ids) \in Identity
    BY ReadsBack DEF IngestInv, Filed
  <2> QED BY <1>2, <2>1, IngestKeepsInv
<1>3. CASE IngestRestart
  BY <1>3 DEF IngestRestart, IngestInv, Filed, ReplyFiled, MintedByDigest
<1>4. CASE UNCHANGED ingestVars
  BY <1>4, NoImportKeepsInv DEF ingestVars
<1> QED BY <1>1, <1>2, <1>3, <1>4 DEF IngestNext, Reingest

LEMMA IngestInvInit == IngestInit => IngestInv
  BY DEF IngestInit, NothingIngested, IngestInv, Filed, ReplyFiled, MintedByDigest

(* Passports are filed under the digest of their subject, always.          *)
THEOREM IngestSafety == IngestSpec => []IngestInv
<1> QED
  BY IngestInvInit, IngestInvStep, PTL DEF IngestSpec

(* ingest.rs:4-9: one subject, one identity, over every restart.           *)
THEOREM OneSubjectOneIdentity == IngestSpec => []SubjectKeepsItsPassport
<1>1. IngestInv => SubjectKeepsItsPassport
  BY CollisionAssumption DEF IngestInv, MintedByDigest, SubjectKeepsItsPassport, NoCollision, IdOf
<1> QED
  BY <1>1, IngestSafety, PTL

(* ingest.rs:79-90, :146-166: what is answered is what is resolved.        *)
THEOREM RepliesAreResolved == IngestSpec => []ReplyIsResolved
<1>1. ASSUME IngestInv, reply.status \in {"imported", "matched"}
      PROVE  /\ reply.passport.product = reply.subject
             /\ \A key \in IngestedKeys(reply.passport) : Resolved(key) = {reply.passport}
             /\ reply.receipt = receipts[reply.passport.id]
             /\ reply.receipt.bindings = Len(reply.passport.profiles)
             /\ ParseIdentity(reply.receipt.body.ids) = reply.subject
  <2> DEFINE p == reply.passport
  <2>1. /\ p.id \in DOMAIN entries /\ p = entries[p.id] /\ reply.receipt = receipts[p.id]
        /\ p.product = reply.subject
    BY <1>1 DEF IngestInv, ReplyFiled
  <2> HIDE DEF p
  <2>2. /\ receipts[p.id].bindings = Len(p.profiles) /\ ParseIdentity(receipts[p.id].body.ids) = p.product
        /\ p.id = IdOf(p.product)
    BY <1>1, <2>1 DEF IngestInv, Filed
  <2>3. ASSUME NEW key \in IngestedKeys(p), NEW x \in DOMAIN entries, key \in IngestedKeys(entries[x])
        PROVE  x = p.id
    <3>1. entries[x].id = x /\ x = IdOf(entries[x].product)
      BY <1>1 DEF IngestInv, Filed
    <3>2. entries[x].id = p.id \/ entries[x].product = p.product
      BY <2>3 DEF IngestedKeys
    <3> QED BY <2>2, <3>1, <3>2
  <2>4. ASSUME NEW key \in IngestedKeys(p) PROVE Resolved(key) = {p}
    <3>1. {x \in DOMAIN entries : key \in IngestedKeys(entries[x])} = {p.id}
      BY <2>1, <2>3
    <3> QED BY <2>1, <3>1 DEF Resolved
  <2> QED BY <2>1, <2>2, <2>4 DEF p
<1>2. IngestInv => ReplyIsResolved
  BY <1>1 DEF ReplyIsResolved
<1> QED
  BY <1>2, IngestSafety, PTL

(* ingest.rs:7-9: what is rendered of an import is matched, not imported   *)
(* again.                                                                  *)
THEOREM ReingestsMatch == IngestSpec => ReingestMatches
<1>1. ASSUME IngestInv, Reingest PROVE reply'.status = "matched"
  <2>1. PICK id \in DOMAIN entries : Ingest(RenderTriad(entries[id]))
    BY <1>1 DEF Reingest
  <2> DEFINE body == RenderTriad(entries[id])
  <2>2. ParseIdentity(body.ids) = entries[id].product /\ id = IdOf(entries[id].product)
        /\ entries[id].product \in Identity
    BY <1>1, ReadsBack DEF IngestInv, Filed
  <2>3. DerivedPassportId(body.ids) \in DOMAIN entries
    BY <2>2 DEF DerivedPassportId, IdOf
  <2>4. body.shape = "triad"
    BY DEF RenderTriad
  <2>5. Readable(body)
    BY <2>2, <2>4 DEF Readable, Identity, NoIdentity
  <2> HIDE DEF body
  <2>6. Match(body)
    BY <2>1, <2>3, <2>5 DEF Ingest, Degrade, MintFails, Import, body
  <2> QED BY <2>6 DEF Match, Answer
<1>2. IngestInv /\ [IngestNext]_ingestVars => [Reingest => reply'.status = "matched"]_ingestVars
  BY <1>1
<1> QED
  BY <1>2, IngestSafety, PTL DEF IngestSpec, ReingestMatches

(* ingest.rs:51-53: the first import of a subject stays as it is.          *)
THEOREM FirstImportsStay == IngestSpec => FirstImportStays
<1> DEFINE Kept == \A id \in DOMAIN entries \cap DOMAIN entries' :
                      entries'[id] = entries[id] /\ receipts'[id] = receipts[id]
<1>1. ASSUME NEW body, IngestInv, Ingest(body) PROVE Kept
  <2>1. CASE Degrade(body) \/ MintFails(body) \/ Match(body)
    BY <2>1 DEF Degrade, MintFails, Match
  <2>2. CASE Import(body)
    <3> DEFINE p == Mint(body)
               r == [body |-> body, bindings |-> Len(p.profiles)]
    <3>1. p.id = DerivedPassportId(body.ids)
      BY DEF Mint
    <3>2. p.id \notin DOMAIN entries /\ entries' = Put(entries, p.id, p) /\ receipts' = Put(receipts, p.id, r)
      BY <2>2, <3>1 DEF Import
    <3>3. DOMAIN receipts = DOMAIN entries
      BY <1>1 DEF IngestInv, Filed
    <3> HIDE DEF p, r
    <3>4. \A id \in DOMAIN entries : entries'[id] = entries[id] /\ receipts'[id] = receipts[id]
      BY <3>2, <3>3 DEF Put
    <3> QED BY <3>4
  <2> QED BY <1>1, <2>1, <2>2 DEF Ingest
<1>2. IngestInv /\ [IngestNext]_ingestVars => [Kept]_ingestVars
  <2>1. CASE IngestRestart
    BY <2>1 DEF IngestRestart
  <2> HIDE DEF Kept
  <2> QED BY <1>1, <2>1 DEF IngestNext, Reingest, Kept
<1> QED
  BY <1>2, IngestSafety, PTL DEF IngestSpec, FirstImportStays

----------------------------------------------------------------------------
(* The types of what is imported and of what is rendered of it.            *)

LEMMA DisplayType == ASSUME NEW i \in Identity PROVE Display(i) \in Text /\ Digest[Display(i)] \in PassportId
<1>1. CASE i.kind = "gs1"
  <2>1. i.key \in Gtin /\ i.lot \in Qualifier \cup {None} /\ i.serial \in Qualifier \cup {None}
    BY <1>1 DEF Identity
  <2>2. Display(i) = [form |-> "plus", key |-> i.key, lot |-> i.lot, serial |-> i.serial]
    BY <1>1 DEF Display
  <2> QED BY <2>1, <2>2, IngestAssumption DEF Text
<1>2. CASE i.kind # "gs1"
  <2>1. i.key \in Urn /\ i.lot = None /\ i.serial = None
    BY <1>2 DEF Identity
  <2>2. Display(i) = [form |-> "cpid", key |-> i.key, lot |-> None, serial |-> None]
    BY <1>2, <2>1 DEF Display
  <2> QED BY <2>1, <2>2, IngestAssumption DEF Text
<1> QED BY <1>1, <1>2

LEMMA BindingsType ==
    ASSUME NEW conformity \in Seq(Credential)
    PROVE  ConformityBindings(conformity) \in Seq(Binding)
<1> DEFINE k == Len(conformity)
           bound == [n \in 1..k |-> [standard |-> conformity[n].standard, effective |-> conformity[n].from]]
           named == Named(conformity)
<1>1. k \in Nat /\ \A n \in 1..k : conformity[n] \in Credential
  BY LenProperties, ElementOfSeq
<1>2. Length(bound) = k
  BY <1>1 DEF Length
<1>3. ASSUME NEW n \in 1..k, n \in named
      PROVE  bound[n] \in Binding
  <2>1. conformity[n].standard # None /\ conformity[n] \in Credential
    BY <1>1, <1>3 DEF Named
  <2> QED BY <2>1 DEF Credential, Binding
<1>4. ConformityBindings(conformity) = Selected(bound, named)
  BY DEF ConformityBindings
<1> HIDE DEF bound, named, k
<1> QED BY <1>1, <1>2, <1>3, <1>4, SelectedType

LEMMA MintType ==
    ASSUME NEW body \in Body, Readable(body)
    PROVE  Mint(body) \in Passport /\ [body |-> body, bindings |-> Len(Mint(body).profiles)] \in Receipt
<1>1. ParseIdentity(body.ids) \in Identity
  BY ReadsIdentities
<1>2. DerivedPassportId(body.ids) \in PassportId
  BY <1>1, DisplayType DEF DerivedPassportId
<1>3. (IF body.from = None THEN Today ELSE body.from) \in Instant
  BY IngestAssumption DEF Body
<1>4. ConformityBindings(body.conformity) \in Seq(Binding)
  <2>1. body.conformity \in Seq(Credential)
    BY DEF Body
  <2> QED BY <2>1, BindingsType
<1>5. <<>> \in Seq([standard : Standard, from : Instant])
  BY EmptySeq
<1>6. Len(ConformityBindings(body.conformity)) \in Nat
  BY <1>4, LenProperties
<1> QED BY <1>1, <1>2, <1>3, <1>4, <1>5, <1>6 DEF Mint, Passport, Receipt

LEMMA TriadType == ASSUME NEW p \in Passport PROVE RenderTriad(p) \in Body
<1> DEFINE i == p.product
           k == Len(p.profiles)
           m == Len(p.stamps)
           id == [scheme |-> SchemeUri(i), value |-> UntpIdentifierValue(i)]
           standards == [n \in 1..k |-> p.profiles[n].standard]
           claims == ConformityOf(p)
<1>1. i \in Identity /\ p.from \in Instant
      /\ p.profiles \in Seq(Binding) /\ p.stamps \in Seq([standard : Standard, from : Instant])
  BY DEF Passport
<1>2. id \in ProductId
  <2>1. SchemeUri(i) \in Scheme
    BY UntpAssumption DEF SchemeUri, Scheme
  <2>2. Display(i) \in Text
    BY <1>1, DisplayType
  <2>3. UntpIdentifierValue(i) \in Text
    <3>1. CASE i.kind = "gs1"
      <4>1. Display(i).form = "plus"
        BY <3>1 DEF Display
      <4>2. UntpIdentifierValue(i) = [Display(i) EXCEPT !.form = "ai"]
        BY <3>1 DEF UntpIdentifierValue
      <4> QED BY <2>2, <4>1, <4>2 DEF Text
    <3>2. CASE i.kind # "gs1"
      BY <2>2, <3>2 DEF UntpIdentifierValue
    <3> QED BY <3>1, <3>2
  <2> QED BY <2>1, <2>3 DEF ProductId
<1>3. <<id>> \in Seq(ProductId)
  BY <1>2
<1>4. /\ k \in Nat /\ \A n \in 1..k : p.profiles[n] \in Binding
      /\ m \in Nat /\ \A n \in 1..m : p.stamps[n] \in [standard : Standard, from : Instant]
  BY <1>1, LenProperties, ElementOfSeq
<1>5. standards \in Seq(Standard)
  <2>1. k \in Nat /\ \A n \in 1..k : p.profiles[n].standard \in Standard
    BY <1>4 DEF Binding
  <2> HIDE DEF k
  <2> QED BY <2>1
<1>6. claims \in Seq(Credential)
  <2> DEFINE claim(n) == IF n <= k THEN [standard |-> p.profiles[n].standard, from |-> p.from] ELSE p.stamps[n - k]
  <2>1. claims = [n \in 1..(k + m) |-> claim(n)]
    BY DEF ConformityOf
  <2> HIDE DEF k, m
  <2>2. ASSUME NEW n \in 1..(k + m)
        PROVE  claim(n) \in Credential
    <3>1. CASE n <= k
      BY <1>1, <1>4, <3>1 DEF Binding, Credential
    <3>2. CASE ~(n <= k)
      <4>1. n - k \in 1..m
        BY <1>4, <3>2
      <4> QED BY <1>4, <3>2, <4>1 DEF Credential
    <3> QED BY <3>1, <3>2
  <2>3. k + m \in Nat
    BY <1>4
  <2> HIDE DEF claim
  <2> QED BY <2>1, <2>2, <2>3
<1> HIDE DEF i, k, m, claims, standards, id
<1>7. RenderTriad(p) = [shape |-> "triad", mints |-> TRUE, ids |-> <<id>>, from |-> p.from,
                        standards |-> standards, conformity |-> claims]
  BY DEF RenderTriad, id, i, standards, claims, k
<1> QED BY <1>1, <1>3, <1>5, <1>6, <1>7 DEF Body

LEMMA IngestTypes ==
    ASSUME IngestTypeOK, NEW body \in Body, Ingest(body)
    PROVE  IngestTypeOK'
<1> DEFINE i == ParseIdentity(body.ids)
<1>1. CASE Degrade(body) \/ MintFails(body)
  BY <1>1 DEF Degrade, MintFails, IngestTypeOK, Reply
<1>2. CASE Match(body)
  <2> DEFINE id == DerivedPassportId(body.ids)
             p == entries[id]
             r == receipts[id]
  <2>1. /\ i \in Identity /\ id \in DOMAIN entries
        /\ reply' = [status |-> "matched", subject |-> i, passport |-> p, receipt |-> r]
        /\ minted' = minted \cup {<<i, p.id>>}
        /\ entries' = entries /\ receipts' = receipts
    BY <1>2, ReadsIdentities DEF Match, Answer
  <2>2. p \in Passport /\ r \in Receipt
    BY <2>1 DEF IngestTypeOK
  <2>3. p.id \in PassportId
    BY <2>2 DEF Passport
  <2> HIDE DEF i, p, r
  <2>4. reply' \in Reply
    BY <2>1, <2>2 DEF Reply
  <2> QED BY <2>1, <2>3, <2>4 DEF IngestTypeOK
<1>3. CASE Import(body)
  <2> DEFINE p == Mint(body)
             r == [body |-> body, bindings |-> Len(p.profiles)]
  <2>1. /\ i \in Identity /\ p \in Passport /\ r \in Receipt
        /\ reply' = [status |-> "imported", subject |-> i, passport |-> p, receipt |-> r]
        /\ minted' = minted \cup {<<i, p.id>>}
        /\ entries' = Put(entries, p.id, p) /\ receipts' = Put(receipts, p.id, r)
    BY <1>3, ReadsIdentities, MintType DEF Import, Answer
  <2>2. p.id \in PassportId
    BY <2>1 DEF Passport
  <2> HIDE DEF i, p, r
  <2>3. reply' \in Reply
    BY <2>1 DEF Reply
  <2>4. /\ DOMAIN entries' = DOMAIN entries \cup {p.id}
        /\ \A x \in DOMAIN entries' : entries'[x] = IF x = p.id THEN p ELSE entries[x]
    BY <2>1 DEF Put
  <2>5. /\ DOMAIN receipts' = DOMAIN receipts \cup {p.id}
        /\ \A x \in DOMAIN receipts' : receipts'[x] = IF x = p.id THEN r ELSE receipts[x]
    BY <2>1 DEF Put
  <2>6. \A x \in DOMAIN entries' : entries'[x] \in Passport
    BY <2>1, <2>4 DEF IngestTypeOK
  <2>7. \A x \in DOMAIN receipts' : receipts'[x] \in Receipt
    BY <2>1, <2>5 DEF IngestTypeOK
  <2>8. minted' \subseteq Identity \X PassportId
    BY <2>1, <2>2 DEF IngestTypeOK
  <2> QED BY <2>2, <2>3, <2>4, <2>5, <2>6, <2>7, <2>8 DEF IngestTypeOK
<1> QED BY <1>1, <1>2, <1>3 DEF Ingest

(* ingest.rs:37-90: whatever is posted or posted back, what the store      *)
(* keeps and answers is a passport with its receipt.                       *)
THEOREM IngestTypeCorrect == IngestSpec => []IngestTypeOK
<1>1. IngestInit => IngestTypeOK
  BY DEF IngestInit, NothingIngested, IngestTypeOK, Reply
<1>2. ASSUME IngestTypeOK, [IngestNext]_ingestVars
      PROVE  IngestTypeOK'
  <2>1. ASSUME NEW body \in Posted, Ingest(body) PROVE IngestTypeOK'
    BY <1>2, <2>1, IngestAssumption, IngestTypes
  <2>2. ASSUME NEW id \in DOMAIN entries, Ingest(RenderTriad(entries[id])) PROVE IngestTypeOK'
    <3>1. RenderTriad(entries[id]) \in Body
      BY <1>2, TriadType DEF IngestTypeOK
    <3> QED BY <1>2, <2>2, <3>1, IngestTypes
  <2>3. CASE IngestRestart
    BY <1>2, <2>3 DEF IngestRestart, IngestTypeOK, Reply
  <2>4. CASE UNCHANGED ingestVars
    BY <1>2, <2>4 DEF ingestVars, IngestTypeOK
  <2> QED BY <1>2, <2>1, <2>2, <2>3, <2>4 DEF IngestNext, Reingest
<1> QED BY <1>1, <1>2, PTL DEF IngestSpec

----------------------------------------------------------------------------
(* The requests.                                                           *)
Key == UntpKey \cup EnKey \cup {<<"none">>}

Request ==
    [step : {"idle", "passport", "keyring", "ingested", "done"}, route : {"none", "untp", "en18222"},
     key : Key, signers : SUBSET Nat, waited : Nat, since : Nat, owed : BOOLEAN, lost : BOOLEAN,
     answer : [status : {"none", "refused", "200", "404"}, source : {"none", "fixture", "issuer", "ingested"},
               outcome : {"none", "pass", "fail"}]]

IssuerOK ==
    /\ issuer \in [set : BOOLEAN, ring : Nat \ {0}, known : [IssuerKey -> SUBSET Nat]]
    /\ \A key \in IssuerKey : issuer.known[key] = NotMinted \/ issuer.known[key] \subseteq FirstKey..issuer.ring

(* No fixture answers to the key, the import that was there still is, and  *)
(* no key comes from the future.                                           *)
Gathering(r) ==
    /\ r.answer = NoAnswer
    /\ ~FixtureMatch(r.route, r.key)
    /\ r.route = "untp" /\ r.owed => Resolved(r.key) # {}
    /\ r.since <= issuer.ring
    /\ r.signers \subseteq FirstKey..issuer.ring

AnswersWell(r) ==
    /\ r.step = "done"
    /\ r.answer.status \in {"200", "404"} /\ FixtureMatch(r.route, r.key) => r.answer.source = "fixture"
    /\ r.route = "untp" /\ r.owed => r.answer.status # "404"
    /\ r.answer.source = "issuer" /\ r.answer.outcome = "pass" => \A k \in r.signers : k >= r.since
    /\ r.answer.source = "issuer" /\ r.answer.outcome = "fail" =>
          r.lost \/ \E k \in r.signers : k < issuer.ring
    /\ r.signers \subseteq Nat

Progress == {"passport", "keyring", "ingested"}

RequestOK(r) ==
    /\ r \in Request
    /\ \/ r = Idle
       \/ r.step \in Progress /\ Gathering(r)
       \/ AnswersWell(r)

GatewayInv ==
    /\ IssuerOK
    /\ req \in [Handler -> Request]
    /\ \A h \in Handler : RequestOK(req[h])

----------------------------------------------------------------------------
(* Records of requests.                                                    *)

LEMMA IdleIsRequest == Idle \in Request
  BY DEF Idle, Request, Key, NoAnswer, FirstKey

LEMMA AnsweredFacts ==
    ASSUME NEW r \in Request, NEW status \in {"refused", "200", "404"},
           NEW source \in {"none", "fixture", "issuer", "ingested"}, NEW outcome \in {"none", "pass", "fail"}
    PROVE  LET a == Answered(r, status, source, outcome)
           IN  /\ a \in Request /\ a.step = "done"
               /\ a.route = r.route /\ a.key = r.key /\ a.signers = r.signers /\ a.since = r.since
               /\ a.owed = r.owed /\ a.lost = r.lost
               /\ a.answer.status = status /\ a.answer.source = source
               /\ a.answer.outcome \in {"none", outcome}
               /\ a.answer.outcome # "none" => r.route = "untp" /\ status = "200"
<1> DEFINE ans == [status |-> status, source |-> source,
                   outcome |-> IF r.route = "untp" /\ status = "200" THEN outcome ELSE "none"]
           b == [r EXCEPT !.step = "done"]
           a == [b EXCEPT !.answer = ans]
<1>1. Answered(r, status, source, outcome) = a
  BY DEF Answered
<1>2. ans \in [status : {"none", "refused", "200", "404"}, source : {"none", "fixture", "issuer", "ingested"},
               outcome : {"none", "pass", "fail"}]
  OBVIOUS
<1>3. /\ ans.status = status /\ ans.source = source /\ ans.outcome \in {"none", outcome}
      /\ ans.outcome # "none" => r.route = "untp" /\ status = "200"
  OBVIOUS
<1>4. /\ b \in Request /\ b.step = "done"
      /\ b.route = r.route /\ b.key = r.key /\ b.signers = r.signers /\ b.since = r.since
      /\ b.owed = r.owed /\ b.lost = r.lost
  BY DEF Request
<1> HIDE DEF ans, b
<1>5. /\ a \in Request /\ a.step = b.step /\ a.answer = ans
      /\ a.route = b.route /\ a.key = b.key /\ a.signers = b.signers /\ a.since = b.since
      /\ a.owed = b.owed /\ a.lost = b.lost
  BY <1>2, <1>4 DEF Request
<1> QED BY <1>1, <1>3, <1>4, <1>5

(* A request that misses the first two sources.                            *)
LEMMA MissedOK ==
    ASSUME NEW r \in Request, Gathering(r)
    PROVE  RequestOK(Missed(r))
<1>1. CASE r.route = "untp"
  <2> DEFINE m == [r EXCEPT !.step = "ingested"]
  <2>1. /\ m \in Request /\ m.step = "ingested" /\ m.answer = r.answer /\ m.key = r.key /\ m.route = r.route
        /\ m.owed = r.owed /\ m.since = r.since /\ m.signers = r.signers
    BY DEF Request
  <2>2. Missed(r) = m
    BY <1>1 DEF Missed
  <2> HIDE DEF m
  <2> QED BY <2>1, <2>2 DEF RequestOK, Progress, Gathering
<1>2. CASE r.route # "untp"
  <2>1. Missed(r) = Answered(r, "404", "none", "none")
    BY <1>2 DEF Missed
  <2>2. r.signers \subseteq Nat
    BY DEF Request
  <2> QED BY <1>2, <2>1, <2>2, AnsweredFacts DEF RequestOK, AnswersWell, Gathering
<1> QED BY <1>1, <1>2

LEMMA AskedFacts ==
    ASSUME IssuerOK, NEW route \in {"untp", "en18222"}, NEW key \in UntpKey \cup EnKey
    PROVE  LET r == Asked(route, key)
           IN  /\ r \in Request /\ r.key = key /\ r.route = route /\ r.answer = NoAnswer
               /\ r.since = issuer.ring /\ r.signers = {}
               /\ r.owed => Resolved(key) # {}
<1> DEFINE owed == Resolved(key) # {}
           r == [[[[Idle EXCEPT !.route = route] EXCEPT !.key = key] EXCEPT !.since = issuer.ring] EXCEPT !.owed = owed]
<1>1. Asked(route, key) = r
  BY DEF Asked
<1>2. owed \in BOOLEAN /\ (owed => Resolved(key) # {})
  OBVIOUS
<1>3. issuer.ring \in Nat
  BY DEF IssuerOK
<1>4. Idle.answer = NoAnswer /\ Idle.signers = {}
  BY DEF Idle
<1> HIDE DEF owed
<1>5. /\ r \in Request /\ r.key = key /\ r.route = route /\ r.answer = NoAnswer
      /\ r.since = issuer.ring /\ r.signers = {} /\ r.owed = owed
  BY <1>2, <1>3, <1>4, IdleIsRequest DEF Request, Key
<1> QED BY <1>1, <1>2, <1>5

----------------------------------------------------------------------------
(* What each step of a request makes of it.                                *)

LEMMA AskOK ==
    ASSUME IssuerOK, NEW h, NEW route \in {"untp", "en18222"}, NEW key \in UntpKey \cup EnKey,
           Ask(h, route, key)
    PROVE  \E r : RequestOK(r) /\ Become(h, r)
<1> DEFINE r == Asked(route, key)
<1>1. /\ r \in Request /\ r.key = key /\ r.route = route /\ r.answer = NoAnswer
      /\ r.since = issuer.ring /\ r.signers = {}
      /\ r.owed => Resolved(key) # {}
  BY AskedFacts
<1>2. issuer.ring \in Nat
  BY DEF IssuerOK
<1>3. Become(h, IF FixtureMatch(route, key) THEN Answered(r, "200", "fixture", "pass")
                ELSE IF issuer.set THEN [r EXCEPT !.step = "passport"]
                ELSE Missed(r))
  BY DEF Ask
<1> HIDE DEF r
<1>4. CASE FixtureMatch(route, key)
  <2>1. RequestOK(Answered(r, "200", "fixture", "pass"))
    BY <1>1, AnsweredFacts DEF RequestOK, AnswersWell
  <2> QED BY <1>3, <1>4, <2>1
<1>5. CASE ~FixtureMatch(route, key)
  <2>1. Gathering(r)
    BY <1>1, <1>2, <1>5 DEF Gathering
  <2>2. RequestOK(Missed(r))
    BY <1>1, <2>1, MissedOK
  <2> DEFINE p == [r EXCEPT !.step = "passport"]
  <2>3. /\ p \in Request /\ p.step = "passport" /\ p.answer = r.answer /\ p.key = r.key /\ p.route = r.route
        /\ p.owed = r.owed /\ p.since = r.since /\ p.signers = r.signers
    BY <1>1 DEF Request
  <2> HIDE DEF p
  <2>4. RequestOK(p)
    BY <2>1, <2>3 DEF RequestOK, Progress, Gathering
  <2>5. Become(h, IF issuer.set THEN p ELSE Missed(r))
    BY <1>3, <1>5 DEF p
  <2> QED BY <2>2, <2>4, <2>5
<1> QED BY <1>4, <1>5

LEMMA TurnAwayOK ==
    ASSUME NEW h, TurnAway(h)
    PROVE  \E r : RequestOK(r) /\ Become(h, r)
<1>1. LET a == Answered(Idle, "refused", "none", "none")
      IN  a \in Request /\ a.step = "done" /\ a.owed = FALSE /\ a.signers = {}
          /\ a.answer.status = "refused" /\ a.answer.source = "none"
  <2>1. Idle.owed = FALSE /\ Idle.signers = {}
    BY DEF Idle
  <2> QED BY <2>1, IdleIsRequest, AnsweredFacts
<1>2. RequestOK(Answered(Idle, "refused", "none", "none"))
  BY <1>1 DEF RequestOK, AnswersWell
<1> QED BY <1>2 DEF TurnAway

LEMMA CallFailedOK ==
    ASSUME GatewayInv, NEW h \in Handler, req[h].step \in {"passport", "keyring"}, CallFailed(h)
    PROVE  \E r : RequestOK(r) /\ Become(h, r)
<1>1. req[h] \in Request /\ Gathering(req[h])
  BY DEF GatewayInv, RequestOK, Idle, AnswersWell
<1>2. CASE req[h].step = "passport"
  BY <1>1, <1>2, MissedOK DEF CallFailed
<1>3. CASE req[h].step = "keyring"
  <2> DEFINE l == [req[h] EXCEPT !.lost = TRUE]
             o == Outcome(req[h].signers, {})
             a == Answered(l, "200", "issuer", o)
  <2>1. l \in Request /\ l.lost = TRUE /\ l.key = req[h].key /\ l.route = req[h].route /\ l.signers = req[h].signers /\ l.signers \subseteq Nat
    BY <1>1 DEF Request
  <2>2. /\ Outcome(req[h].signers, {}) \in {"none", "pass", "fail"}
        /\ Outcome(req[h].signers, {}) = "pass" => req[h].signers = {}
    BY DEF Outcome
  <2>3. Become(h, a)
    BY <1>3 DEF CallFailed
  <2> HIDE DEF l, o
  <2>4. /\ a \in Request /\ a.step = "done" /\ a.key = l.key /\ a.route = l.route /\ a.signers = l.signers /\ a.lost = l.lost
        /\ a.answer.status = "200" /\ a.answer.source = "issuer" /\ a.answer.outcome \in {"none", o}
    <3>1. o \in {"none", "pass", "fail"}
      BY <2>2 DEF o
    <3> QED BY <2>1, <3>1, AnsweredFacts
  <2> HIDE DEF a
  <2>5. a.answer.outcome = "pass" => a.signers = {}
    BY <2>1, <2>2, <2>4 DEF o
  <2>6. RequestOK(a)
    BY <1>1, <2>1, <2>4, <2>5 DEF RequestOK, AnswersWell, Gathering
  <2> QED BY <2>3, <2>6
<1> QED BY <1>2, <1>3

LEMMA HandlerStepOK ==
    ASSUME GatewayInv, NEW h \in Handler, HandlerStep(h)
    PROVE  \E r : RequestOK(r) /\ Become(h, r)
<1> DEFINE q == req[h]
<1>1. q \in Request /\ (q.step \in Progress => Gathering(q))
  BY DEF GatewayInv, RequestOK, Idle, AnswersWell, Progress
<1>2. CASE PassportArrives(h)
  <2>1. Gathering(q)
    BY <1>1, <1>2 DEF PassportArrives, Progress
  <2>2. RequestOK(Missed(q))
    BY <1>1, <2>1, MissedOK
  <2> DEFINE found == q.key \in IssuerKey /\ issuer.known[q.key] # NotMinted
             k == [[[q EXCEPT !.step = "keyring"] EXCEPT !.waited = 0] EXCEPT !.signers = issuer.known[q.key]]
  <2>3. ASSUME found PROVE RequestOK(k)
    <3>1. issuer.known[q.key] \in SUBSET Nat /\ issuer.known[q.key] \subseteq FirstKey..issuer.ring
      BY <2>3 DEF GatewayInv, IssuerOK
    <3>2. /\ k \in Request /\ k.step = "keyring" /\ k.answer = q.answer /\ k.key = q.key /\ k.route = q.route
          /\ k.owed = q.owed /\ k.since = q.since /\ k.signers = issuer.known[q.key]
      BY <1>1, <3>1 DEF Request
    <3> HIDE DEF k
    <3> QED BY <2>1, <3>1, <3>2 DEF RequestOK, Progress, Gathering
  <2>4. Become(h, IF found THEN k ELSE Missed(q))
    BY <1>2 DEF PassportArrives
  <2> HIDE DEF found, k
  <2> QED BY <2>2, <2>3, <2>4
<1>3. CASE KeyringArrives(h)
  <2>1. Gathering(q)
    BY <1>1, <1>3 DEF KeyringArrives, Progress
  <2> DEFINE o == Outcome(q.signers, FetchedAnchors(h))
             a == Answered(q, "200", "issuer", o)
  <2>2. o \in {"none", "pass", "fail"} /\ (o = "pass" <=> q.signers \subseteq {issuer.ring})
    BY DEF Outcome, FetchedAnchors
  <2>3. Become(h, a)
    BY <1>3 DEF KeyringArrives
  <2> HIDE DEF o
  <2>4. /\ a \in Request /\ a.step = "done" /\ a.key = q.key /\ a.route = q.route /\ a.signers = q.signers /\ a.since = q.since
        /\ a.answer.status = "200" /\ a.answer.source = "issuer" /\ a.answer.outcome \in {"none", o}
    BY <1>1, <2>2, AnsweredFacts
  <2> HIDE DEF a
  <2>5. issuer.ring \in Nat /\ q.since <= issuer.ring /\ q.signers \subseteq FirstKey..issuer.ring
    BY <2>1 DEF GatewayInv, IssuerOK, Gathering
  <2>6. a.answer.outcome = "pass" => \A k \in a.signers : k >= a.since
    BY <2>2, <2>4, <2>5
  <2>7. a.answer.outcome = "fail" => \E k \in a.signers : k < issuer.ring
    BY <2>2, <2>4, <2>5 DEF FirstKey
  <2>8. a.signers \subseteq Nat
    BY <2>4 DEF Request
  <2>9. RequestOK(a)
    BY <2>1, <2>4, <2>6, <2>7, <2>8 DEF RequestOK, AnswersWell, Gathering
  <2> QED BY <2>3, <2>9
<1>4. CASE CallFails(h) \/ TimesOut(h)
  BY <1>4, CallFailedOK DEF CallFails, TimesOut
<1>5. CASE LookUpIngested(h)
  <2>1. Gathering(q)
    BY <1>1, <1>5 DEF LookUpIngested, Progress
  <2>2. q.signers \subseteq Nat
    BY <1>1 DEF Request
  <2>3. CASE Resolved(q.key) # {}
    <3>1. Become(h, Answered(q, "200", "ingested", "pass"))
      BY <1>5, <2>3 DEF LookUpIngested
    <3>2. RequestOK(Answered(q, "200", "ingested", "pass"))
      BY <1>1, <2>1, <2>2, AnsweredFacts DEF RequestOK, AnswersWell, Gathering
    <3> QED BY <3>1, <3>2
  <2>4. CASE Resolved(q.key) = {}
    <3>1. Become(h, Answered(q, "404", "none", "none"))
      BY <1>5, <2>4 DEF LookUpIngested
    <3>2. RequestOK(Answered(q, "404", "none", "none"))
      BY <1>1, <2>1, <2>2, <2>4, AnsweredFacts DEF RequestOK, AnswersWell, Gathering
    <3> QED BY <3>1, <3>2
  <2> QED BY <2>3, <2>4
<1> QED BY <1>2, <1>3, <1>4, <1>5 DEF HandlerStep

----------------------------------------------------------------------------
(* What a request has gathered holds on while others move.                 *)

LEMMA Becomes ==
    ASSUME GatewayInv, NEW h \in Handler, NEW r, RequestOK(r), Become(h, r)
    PROVE  GatewayInv'
<1>1. issuer' = issuer /\ entries' = entries /\ req' = [req EXCEPT ![h] = r] /\ r \in Request
  BY DEF Become, RequestOK
<1>2. req' \in [Handler -> Request] /\ req'[h] = r /\ \A g \in Handler \ {h} : req'[g] = req[g]
  BY <1>1 DEF GatewayInv
<1>3. IssuerOK'
  BY <1>1 DEF GatewayInv, IssuerOK
<1>4. ASSUME NEW g \in Handler, NEW q, RequestOK(q), req'[g] = q PROVE RequestOK(req[g])'
  BY <1>1, <1>4 DEF RequestOK, Gathering, AnswersWell, Resolved
<1>5. ASSUME NEW g \in Handler PROVE RequestOK(req[g])'
  BY <1>2, <1>4 DEF GatewayInv
<1> QED BY <1>2, <1>3, <1>5 DEF GatewayInv

LEMMA OthersMove ==
    ASSUME GatewayInv, IssuerOK', req' = req, issuer.ring <= issuer'.ring,
           \A key : Resolved(key) # {} => Resolved(key)' # {}
    PROVE  GatewayInv'
<1>1. issuer.ring \in Nat /\ issuer'.ring \in Nat
  BY DEF GatewayInv, IssuerOK
<1>2. ASSUME NEW h \in Handler PROVE RequestOK(req[h])'
  <2>1. req'[h] = req[h] /\ req[h] \in Request /\ RequestOK(req[h])
    BY DEF GatewayInv
  <2>2. req[h].since \in Nat /\ req[h].signers \subseteq Nat
    BY <2>1 DEF Request
  <2>3. CASE req[h] = Idle
    BY <2>1, <2>3 DEF RequestOK
  <2>4. CASE req[h].step \in Progress /\ Gathering(req[h])
    <3>1. Gathering(req[h])'
      <4>1. ASSUME NEW k, k = req[h].key, req[h].route = "untp", req[h].owed
            PROVE  Resolved(k)' # {}
        BY <2>4, <4>1 DEF Gathering
      <4>2. req'[h].route = "untp" /\ req'[h].owed => Resolved(req[h].key)' # {}
        BY <2>1, <4>1 DEF Resolved
      <4> QED BY <1>1, <2>1, <2>2, <2>4, <4>2 DEF Gathering, FirstKey
    <3> QED BY <2>1, <2>4, <3>1 DEF RequestOK
  <2>5. CASE AnswersWell(req[h])
    <3>1. AnswersWell(req[h])'
      BY <1>1, <2>1, <2>2, <2>5 DEF AnswersWell
    <3> QED BY <2>1, <3>1 DEF RequestOK
  <2> QED BY <2>1, <2>3, <2>4, <2>5 DEF RequestOK
<1> QED BY <1>2 DEF GatewayInv

(* An import hides no other (ingest.rs:85-96, :147-151).                   *)
LEMMA ImportsAdd ==
    ASSUME NEW body, Ingest(body)
    PROVE  \A key : Resolved(key) # {} => Resolved(key)' # {}
<1> SUFFICES ASSUME NEW key, NEW x \in DOMAIN entries, key \in IngestedKeys(entries[x])
             PROVE  \E y \in DOMAIN entries' : key \in IngestedKeys(entries'[y])
  BY DEF Resolved, IngestedKeys
<1>1. CASE Import(body)
  <2> DEFINE id == Mint(body).id
  <2>1. entries' = Put(entries, id, Mint(body)) /\ id \notin DOMAIN entries
    BY <1>1 DEF Import, Mint
  <2> HIDE DEF id
  <2>2. x \in DOMAIN entries' /\ entries'[x] = entries[x]
    BY <2>1 DEF Put
  <2> QED BY <2>2
<1>2. CASE entries' = entries
  BY <1>2
<1> QED BY <1>1, <1>2 DEF Ingest, Degrade, MintFails, Match

LEMMA IssuerSigns ==
    ASSUME GatewayInv, NEW key \in IssuerKey, IssuerMints(key) \/ IssuerAppends(key)
    PROVE  IssuerOK' /\ issuer.ring <= issuer'.ring
<1>1. /\ issuer \in [set : BOOLEAN, ring : Nat \ {0}, known : [IssuerKey -> SUBSET Nat]]
      /\ issuer.ring \in Nat \ {0} /\ issuer.known \in [IssuerKey -> SUBSET Nat]
      /\ \A k \in IssuerKey : issuer.known[k] = NotMinted \/ issuer.known[k] \subseteq FirstKey..issuer.ring
  BY DEF GatewayInv, IssuerOK
<1>2. ASSUME NEW keys \in SUBSET Nat, keys \subseteq FirstKey..issuer.ring,
             issuer' = [issuer EXCEPT !.known[key] = keys]
      PROVE  IssuerOK' /\ issuer.ring <= issuer'.ring
  <2> DEFINE known == [issuer.known EXCEPT ![key] = keys]
  <2>1. /\ known \in [IssuerKey -> SUBSET Nat]
        /\ \A k \in IssuerKey : known[k] = IF k = key THEN keys ELSE issuer.known[k]
    BY <1>1
  <2>2. issuer' = [issuer EXCEPT !.known = known]
    BY <1>1, <1>2
  <2> HIDE DEF known
  <2>3. /\ issuer' \in [set : BOOLEAN, ring : Nat \ {0}, known : [IssuerKey -> SUBSET Nat]]
        /\ issuer'.ring = issuer.ring /\ issuer'.known = known
    BY <1>1, <2>1, <2>2
  <2> QED BY <1>1, <1>2, <2>1, <2>3 DEF IssuerOK
<1>3. CASE IssuerMints(key)
  <2>1. {issuer.ring} \subseteq FirstKey..issuer.ring /\ {issuer.ring} \in SUBSET Nat
    BY <1>1 DEF FirstKey
  <2> QED BY <1>2, <1>3, <2>1 DEF IssuerMints, IssuerActs
<1>4. CASE IssuerAppends(key)
  <2> DEFINE keys == issuer.known[key] \cup {issuer.ring}
  <2>1. keys \subseteq FirstKey..issuer.ring /\ keys \in SUBSET Nat
    BY <1>1, <1>4 DEF IssuerAppends, FirstKey
  <2>2. issuer' = [issuer EXCEPT !.known[key] = keys]
    BY <1>4 DEF IssuerAppends, IssuerActs
  <2> HIDE DEF keys
  <2> QED BY <1>2, <2>1, <2>2
<1> QED BY <1>3, <1>4

LEMMA IssuerTurns ==
    ASSUME GatewayInv, IssuerRotates
    PROVE  IssuerOK' /\ issuer.ring <= issuer'.ring
<1>1. /\ issuer \in [set : BOOLEAN, ring : Nat \ {0}, known : [IssuerKey -> SUBSET Nat]]
      /\ issuer.ring \in Nat \ {0}
      /\ \A k \in IssuerKey : issuer.known[k] = NotMinted \/ issuer.known[k] \subseteq FirstKey..issuer.ring
  BY DEF GatewayInv, IssuerOK
<1>2. issuer' = [issuer EXCEPT !.ring = issuer.ring + 1]
  BY DEF IssuerRotates, IssuerActs
<1>3. /\ issuer' \in [set : BOOLEAN, ring : Nat \ {0}, known : [IssuerKey -> SUBSET Nat]]
      /\ issuer'.ring = issuer.ring + 1 /\ issuer'.known = issuer.known
  BY <1>1, <1>2
<1> QED BY <1>1, <1>3 DEF IssuerOK, FirstKey

LEMMA WaitsOK == ASSUME GatewayInv, Waits PROVE GatewayInv'
<1>1. issuer' = issuer /\ entries' = entries /\ req \in [Handler -> Request]
  BY DEF Waits, GatewayInv
<1>2. ASSUME NEW h \in Handler
      PROVE  \E r : RequestOK(r) /\ req'[h] = r
  <2> DEFINE w == [req[h] EXCEPT !.waited = req[h].waited + 1]
  <2>1. req[h] \in Request /\ RequestOK(req[h])
    BY DEF GatewayInv
  <2>2. CASE Waiting(h)
    <3>1. /\ w \in Request /\ w.step = req[h].step /\ w.answer = req[h].answer /\ w.key = req[h].key
          /\ w.route = req[h].route /\ w.owed = req[h].owed /\ w.since = req[h].since
          /\ w.signers = req[h].signers
      BY <2>1 DEF Request
    <3>2. req'[h] = w
      BY <2>2 DEF Waits
    <3>3. req[h].step \in Progress /\ Gathering(req[h])
      BY <2>1, <2>2 DEF Waiting, Progress, RequestOK, Idle, AnswersWell
    <3> HIDE DEF w
    <3>4. RequestOK(w)
      BY <3>1, <3>3 DEF RequestOK, Gathering
    <3> QED BY <3>2, <3>4
  <2>3. CASE ~Waiting(h)
    BY <2>1, <2>3 DEF Waits
  <2> QED BY <2>2, <2>3
<1>3. ASSUME NEW h \in Handler, NEW r, RequestOK(r), req'[h] = r
      PROVE  RequestOK(req[h])' /\ req'[h] \in Request
  BY <1>1, <1>3 DEF RequestOK, Gathering, AnswersWell, Resolved
<1>4. \A h \in Handler : RequestOK(req[h])' /\ req'[h] \in Request
  BY <1>2, <1>3
<1>5. req' \in [Handler -> Request]
  <2>1. req' = [h \in Handler |-> req'[h]]
    BY DEF Waits
  <2> QED BY <1>4, <2>1
<1>6. IssuerOK'
  BY <1>1 DEF GatewayInv, IssuerOK
<1> QED BY <1>4, <1>5, <1>6 DEF GatewayInv

LEMMA GatewayStep == ASSUME GatewayInv, [GatewayNext]_gatewayVars PROVE GatewayInv'
<1>0. issuer.ring \in Nat /\ IssuerOK
  BY DEF GatewayInv, IssuerOK
<1>1. ASSUME NEW h \in Handler, NEW route \in {"untp", "en18222"}, NEW key \in UntpKey \cup EnKey,
             Ask(h, route, key)
      PROVE  GatewayInv'
  BY <1>0, <1>1, AskOK, Becomes
<1>2. ASSUME NEW h \in Handler, TurnAway(h) \/ HandlerStep(h)
      PROVE  GatewayInv'
  BY <1>2, TurnAwayOK, HandlerStepOK, Becomes
<1>3. CASE Waits
  BY <1>3, WaitsOK
<1>4. ASSUME NEW body \in Posted, PostBody(body)
      PROVE  GatewayInv'
  <2>1. \A key : Resolved(key) # {} => Resolved(key)' # {}
    BY <1>4, ImportsAdd DEF PostBody
  <2>2. req' = req /\ issuer' = issuer
    BY <1>4 DEF PostBody
  <2>3. IssuerOK' /\ issuer.ring <= issuer'.ring
    BY <1>0, <2>2 DEF IssuerOK
  <2> QED BY <2>1, <2>2, <2>3, OthersMove
<1>5. ASSUME NEW key \in IssuerKey, IssuerMints(key) \/ IssuerAppends(key)
      PROVE  GatewayInv'
  <2>1. req' = req /\ entries' = entries
    BY <1>5 DEF IssuerMints, IssuerAppends, IssuerActs
  <2>2. \A k : Resolved(k) # {} => Resolved(k)' # {}
    BY <2>1 DEF Resolved
  <2> QED BY <1>5, <2>1, <2>2, IssuerSigns, OthersMove
<1>6. CASE IssuerRotates
  <2>1. req' = req /\ entries' = entries
    BY <1>6 DEF IssuerRotates, IssuerActs
  <2>2. \A k : Resolved(k) # {} => Resolved(k)' # {}
    BY <2>1 DEF Resolved
  <2> QED BY <1>6, <2>1, <2>2, IssuerTurns, OthersMove
<1>7. CASE GatewayRestart
  <2>1. req' = [h \in Handler |-> Idle]
    BY <1>7 DEF GatewayRestart
  <2>2. PICK set \in BOOLEAN : issuer' = [issuer EXCEPT !.set = set]
    BY <1>7 DEF GatewayRestart
  <2>3. IssuerOK'
    BY <1>0, <2>2 DEF IssuerOK
  <2>4. Idle \in Request /\ \A h \in Handler : req'[h] = Idle
    BY <2>1, IdleIsRequest
  <2> QED BY <2>1, <2>3, <2>4 DEF GatewayInv, RequestOK
<1>8. CASE UNCHANGED gatewayVars
  <2>1. req' = req /\ entries' = entries /\ issuer' = issuer
    BY <1>8 DEF gatewayVars
  <2>2. \A k : Resolved(k) # {} => Resolved(k)' # {}
    BY <2>1 DEF Resolved
  <2>3. IssuerOK' /\ issuer.ring <= issuer'.ring
    BY <1>0, <2>1 DEF IssuerOK
  <2> QED BY <2>1, <2>2, <2>3, OthersMove
<1> QED BY <1>1, <1>2, <1>3, <1>4, <1>5, <1>6, <1>7, <1>8 DEF GatewayNext

(* api.rs:361-369, source.rs:128-222: the inductive invariant of the        *)
(* requests, for any number of them.                                       *)
THEOREM GatewaySafety == GatewaySpec => []GatewayInv
<1>1. GatewayInit => GatewayInv
  <2> SUFFICES ASSUME GatewayInit PROVE GatewayInv
    OBVIOUS
  <2>1. IssuerOK
    BY DEF GatewayInit, IssuerOK, NotMinted, FirstKey
  <2> QED BY <2>1, IdleIsRequest DEF GatewayInit, GatewayInv, RequestOK
<1>2. GatewayInv /\ [GatewayNext]_gatewayVars => GatewayInv'
  BY GatewayStep
<1> QED BY <1>1, <1>2, PTL DEF GatewaySpec

(* api.rs:503-556: on the routes the gateway resolves requests as Gateway  *)
(* has it, whatever the gate does.                                         *)
THEOREM RoutesRunGateway == RoutesSpec => GatewaySpec
<1>1. RoutesInit => GatewayInit
  BY DEF RoutesInit
<1>2. [RoutesNext]_routesVars => [GatewayNext]_gatewayVars
  <2> SUFFICES ASSUME [RoutesNext]_routesVars PROVE [GatewayNext]_gatewayVars
    OBVIOUS
  <2>1. ASSUME NEW h \in Handler, NEW t, RequestAdmitted(h, t) PROVE GatewayNext
    BY <2>1 DEF RequestAdmitted, GatewayNext
  <2>2. ASSUME NEW h \in Handler, NEW t, RequestRefused(h, t) PROVE GatewayNext
    BY <2>2 DEF RequestRefused, GatewayNext
  <2>3. ASSUME NEW h \in Handler, RequestDropped(h) \/ Resume(h) PROVE GatewayNext
    BY <2>3 DEF RequestDropped, Resume, GatewayNext
  <2>4. CASE IssueRoute
    BY <2>4 DEF IssueRoute
  <2>5. CASE RoutesTick
    BY <2>5 DEF RoutesTick, GatewayNext
  <2>6. CASE Elsewhere
    BY <2>6 DEF Elsewhere, GatewayNext
  <2>7. CASE RoutesRestart
    BY <2>7 DEF RoutesRestart, GatewayNext
  <2>8. CASE UNCHANGED routesVars
    BY <2>8 DEF routesVars
  <2> QED BY <2>1, <2>2, <2>3, <2>4, <2>5, <2>6, <2>7, <2>8 DEF RoutesNext
<1> QED BY <1>1, <1>2, PTL DEF RoutesSpec, GatewaySpec

(* api.rs:558-611: the gateway runs the store as IngestStore has it, so    *)
(* that one subject has one passport there too.                            *)
THEOREM GatewayRunsStore == GatewaySpec => IngestSpec
<1>1. GatewayInit => IngestInit
  BY DEF GatewayInit
<1>2. ASSUME [GatewayNext]_gatewayVars
      PROVE  [IngestNext]_ingestVars
  <2>1. ASSUME NEW body \in Posted, PostBody(body) PROVE IngestNext
    BY <2>1 DEF PostBody, IngestNext
  <2>2. CASE GatewayRestart
    BY <2>2 DEF GatewayRestart, IngestNext
  <2>3. ASSUME NEW h \in Handler,
               \/ \E route, key : Ask(h, route, key)
               \/ TurnAway(h)
               \/ HandlerStep(h)
        PROVE  UNCHANGED ingestVars
    BY <2>3 DEF Ask, TurnAway, HandlerStep, PassportArrives, KeyringArrives, CallFails, TimesOut,
                CallFailed, LookUpIngested, Become, ingestVars
  <2>4. CASE Waits \/ IssuerRotates \/ \E key \in IssuerKey : IssuerMints(key) \/ IssuerAppends(key)
    BY <2>4 DEF Waits, IssuerRotates, IssuerMints, IssuerAppends, IssuerActs, ingestVars
  <2>5. CASE UNCHANGED gatewayVars
    BY <2>5 DEF gatewayVars, ingestVars
  <2> QED BY <1>2, <2>1, <2>2, <2>3, <2>4, <2>5 DEF GatewayNext
<1> QED BY <1>1, <1>2, PTL DEF GatewaySpec, IngestSpec

(* What is proved of the store holds on the routes.                        *)
THEOREM RoutesKeepStore ==
    RoutesSpec => /\ [](IngestTypeOK /\ SubjectKeepsItsPassport /\ ReplyIsResolved)
                  /\ FirstImportStays
  BY RoutesRunGateway, GatewayRunsStore, IngestTypeCorrect, OneSubjectOneIdentity, RepliesAreResolved,
     FirstImportsStay, PTL

(* source.rs:123-148: nothing imported or issued takes a fixture's place.  *)
THEOREM FixturesFirst == RoutesSpec => []FixturesAnswerFirst
<1>1. GatewayInv => FixturesAnswerFirst
  BY DEF GatewayInv, RequestOK, Gathering, AnswersWell, Idle, NoAnswer, FixturesAnswerFirst
<1> QED BY <1>1, RoutesRunGateway, GatewaySafety, PTL

(* api.rs:363-369: no failure of the issuer hides an import.               *)
THEOREM ImportsServed == RoutesSpec => []ImportsStayServed
<1>1. GatewayInv => ImportsStayServed
  BY DEF GatewayInv, RequestOK, Gathering, AnswersWell, Idle, NoAnswer, ImportsStayServed
<1> QED BY <1>1, RoutesRunGateway, GatewaySafety, PTL

(* source.rs:178-219: no pass on a key given up before the request came.   *)
THEOREM PassesOnLiveKeys == RoutesSpec => []PassRestsOnLiveKeys
<1>1. GatewayInv => PassRestsOnLiveKeys
  BY DEF GatewayInv, RequestOK, Gathering, AnswersWell, Idle, NoAnswer, PassRestsOnLiveKeys
<1> QED BY <1>1, RoutesRunGateway, GatewaySafety, PTL

(* source.rs:160-186: no failure without a lost keyring or a retired key.  *)
THEOREM FailuresHaveCause == RoutesSpec => []FailureHasCause
<1>1. GatewayInv => FailureHasCause
  BY DEF GatewayInv, RequestOK, Gathering, AnswersWell, Idle, NoAnswer, FailureHasCause
<1> QED BY <1>1, RoutesRunGateway, GatewaySafety, PTL

----------------------------------------------------------------------------
(* Tokens and time.                                                        *)

Visited == [expires : Nat \cup {Open}, at : Nat, done : Nat]

(* A call has waited for as long as it has been going on, so that a        *)
(* request is UpstreamTimeout old at most when the keyring is asked for.   *)
TimeOK(r, v) ==
    /\ r.step \in Progress \/ r.answer.status \in {"200", "404"} => v.expires = Open \/ v.at < v.expires
    /\ r.step = "passport" => r.waited <= UpstreamTimeout /\ now <= v.at + r.waited
    /\ r.step = "keyring" => r.waited <= UpstreamTimeout /\ now <= v.at + UpstreamTimeout + r.waited
    /\ r.step = "ingested" => now <= v.at + 2 * UpstreamTimeout
    /\ r.answer.status \in {"200", "404"} => v.done <= v.at + 2 * UpstreamTimeout

TokensOK ==
    /\ now \in Nat /\ Ttl \in Nat /\ seq \in Nat
    /\ DOMAIN tokens \subseteq Nat \ {0}
    /\ \A t \in DOMAIN tokens : tokens[t] \in Nat

TimesInv ==
    /\ TokensOK
    /\ visit \in [Handler -> Visited]
    /\ \A h \in Handler : TimeOK(req[h], visit[h])

LEMMA TokensStep == ASSUME TokensOK, [RoutesNext]_routesVars PROVE TokensOK'
<1>1. CASE UNCHANGED gateVars
  BY <1>1 DEF gateVars, TokensOK
<1>2. ASSUME NEW s, Gate!IssueToken(s) PROVE TokensOK'
  <2>1. /\ seq' = seq + 1 /\ now' = now /\ Ttl' = Ttl
        /\ tokens' = [t \in DOMAIN tokens \cup {seq'} |-> IF t = seq' THEN now + Ttl ELSE tokens[t]]
    BY <1>2 DEF Gate!IssueToken
  <2> QED BY <2>1 DEF TokensOK
<1>3. ASSUME NEW s, Gate!IssuePanics(s) \/ Gate!IssueRefused(s) \/ Gate!IssueOpen(s) PROVE TokensOK'
  BY <1>3 DEF TokensOK, Gate!IssuePanics, Gate!IssueRefused, Gate!IssueOpen
<1>4. ASSUME NEW t, Gate!AdmitExpired(t) PROVE TokensOK'
  BY <1>4 DEF TokensOK, Gate!AdmitExpired
<1>5. ASSUME NEW t, \/ Gate!AdmitOpen(t) \/ Gate!AdmitLive(t) \/ Gate!AdmitUnknown(t)
                    \/ Gate!AdmitWithout \/ Gate!RequestPanics
      PROVE  TokensOK'
  BY <1>5 DEF TokensOK, Gate!AdmitOpen, Gate!AdmitLive, Gate!AdmitUnknown, Gate!AdmitWithout, Gate!RequestPanics
<1>6. ASSUME NEW h \in Handler, NEW t, RequestAdmitted(h, t) \/ RequestRefused(h, t) PROVE TokensOK'
  BY <1>4, <1>5, <1>6 DEF RequestAdmitted, RequestRefused, Admitted, NotAdmitted
<1>7. ASSUME NEW h \in Handler, RequestDropped(h) \/ Resume(h) PROVE TokensOK'
  BY <1>1, <1>5, <1>7 DEF RequestDropped, Resume
<1>8. CASE IssueRoute
  BY <1>2, <1>3, <1>5, <1>8 DEF IssueRoute
<1>9. CASE RoutesTick
  BY <1>9 DEF RoutesTick, Gate!ScanTick, TokensOK
<1>10. CASE Elsewhere \/ UNCHANGED routesVars
  BY <1>1, <1>10 DEF Elsewhere, routesVars
<1>11. CASE RoutesRestart
  BY <1>11, RoutesAssumption DEF RoutesRestart, Gate!ScanRestart, TokensOK
<1> QED BY <1>6, <1>7, <1>8, <1>9, <1>10, <1>11 DEF RoutesNext

(* scan.rs:60-136: the routes use the gate as ScanGate has it.             *)
THEOREM RoutesRunGate == RoutesSpec => Gate!ScanSpec
<1>1. RoutesInit => Gate!ScanInit /\ TokensOK
  BY RoutesAssumption DEF RoutesInit, Gate!ScanInit, TokensOK
<1>2. TokensOK /\ [RoutesNext]_routesVars => TokensOK'
  BY TokensStep
<1>3. TokensOK /\ [RoutesNext]_routesVars => [Gate!ScanNext]_(Gate!scanVars)
  <2> SUFFICES ASSUME TokensOK, [RoutesNext]_routesVars PROVE [Gate!ScanNext]_(Gate!scanVars)
    OBVIOUS
  <2>1. ASSUME NEW h \in Handler, NEW t \in Gate!Presented, RequestAdmitted(h, t) PROVE Gate!ScanNext
    <3>1. Gate!AdmitLive(t) => t # Gate!NoToken
      BY DEF TokensOK, Gate!AdmitLive, Gate!NoToken
    <3> QED BY <2>1, <3>1 DEF RequestAdmitted, Admitted, Gate!ScanNext
  <2>2. ASSUME NEW h \in Handler, NEW t \in Gate!Presented, RequestRefused(h, t) PROVE Gate!ScanNext
    BY <2>2 DEF RequestRefused, NotAdmitted, Gate!ScanNext
  <2>3. ASSUME NEW h \in Handler, RequestDropped(h) PROVE Gate!ScanNext
    BY <2>3 DEF RequestDropped, Gate!ScanNext
  <2>4. CASE IssueRoute
    BY <2>4 DEF IssueRoute, Gate!ScanNext
  <2>5. CASE RoutesTick
    BY <2>5 DEF RoutesTick, Gate!ScanNext
  <2>6. CASE RoutesRestart
    BY <2>6 DEF RoutesRestart, Gate!ScanNext
  <2>7. CASE UNCHANGED gateVars
    BY <2>7 DEF gateVars, Gate!scanVars
  <2>8. CASE Elsewhere \/ UNCHANGED routesVars \/ \E h \in Handler : Resume(h)
    BY <2>7, <2>8 DEF Elsewhere, routesVars, Resume
  <2> QED BY <2>1, <2>2, <2>3, <2>4, <2>5, <2>6, <2>8 DEF RoutesNext
<1> QED BY <1>1, <1>2, <1>3, PTL DEF RoutesSpec, Gate!ScanSpec

(* scan.rs:60-136: what is proved of the gate (ScanGateProofs) is proved   *)
(* of the gate the routes run: the two instances say the same.             *)
GateFacts == INSTANCE ScanGateProofs

LEMMA OneGate ==
    /\ GateFacts!ScanInit <=> Gate!ScanInit
    /\ GateFacts!ScanNext <=> Gate!ScanNext
    /\ GateFacts!scanVars = Gate!scanVars
<1> USE DEF Gate!Time, Gate!Token, Gate!NoToken, Gate!Presented, Gate!IsOn, Gate!Issue, Gate!Kind, Gate!ScanInit,
            Gate!Answer, Gate!StalePrefix, Gate!WithinLimit, Gate!IssueToken, Gate!IssuePanics, Gate!IssueRefused,
            Gate!IssueOpen, Gate!Dead, Gate!AdmitOpen, Gate!AdmitWithout, Gate!AdmitUnknown, Gate!AdmitExpired,
            Gate!AdmitLive, Gate!RequestPanics, Gate!ScanTick, Gate!ScanRestart, Gate!ScanNext,
            GateFacts!Time, GateFacts!Token, GateFacts!NoToken, GateFacts!Presented, GateFacts!IsOn,
            GateFacts!Issue, GateFacts!Kind, GateFacts!ScanInit, GateFacts!Answer, GateFacts!StalePrefix,
            GateFacts!WithinLimit, GateFacts!IssueToken, GateFacts!IssuePanics, GateFacts!IssueRefused,
            GateFacts!IssueOpen, GateFacts!Dead, GateFacts!AdmitOpen, GateFacts!AdmitWithout,
            GateFacts!AdmitUnknown, GateFacts!AdmitExpired, GateFacts!AdmitLive, GateFacts!RequestPanics,
            GateFacts!ScanTick, GateFacts!ScanRestart, GateFacts!ScanNext
<1>1. GateFacts!ScanInit <=> Gate!ScanInit
  OBVIOUS
<1>2. GateFacts!ScanNext <=> Gate!ScanNext
  OBVIOUS
<1>3. GateFacts!scanVars = Gate!scanVars
  BY DEF Gate!scanVars, GateFacts!scanVars
<1> QED BY <1>1, <1>2, <1>3

(* A configured gate keeps its throttle, its honesty and its bound on live *)
(* tokens whatever the handlers, the imports and the issuer do meanwhile   *)
(* (scan.rs:60-136, api.rs:222-243, :515-517).                             *)
THEOREM RoutesKeepGate ==
    RoutesSpec => [](/\ Gate!ScanTypeOK /\ Gate!IssuanceSpaced /\ Gate!AnswersHonest
                     /\ Gate!LiveTokensBounded)
<1> DEFINE Kept == /\ Gate!ScanTypeOK /\ Gate!IssuanceSpaced /\ Gate!AnswersHonest
                   /\ Gate!LiveTokensBounded
           Proved == /\ GateFacts!ScanTypeOK /\ GateFacts!IssuanceSpaced /\ GateFacts!AnswersHonest
                     /\ GateFacts!LiveTokensBounded
<1>1. GateFacts!ScanSpec => []GateFacts!ScanTypeOK
  BY GateFacts!ScanTypeCorrect, RoutesAssumption
<1>2. GateFacts!ScanSpec => []GateFacts!IssuanceSpaced
  BY GateFacts!ScanIssuanceSpaced, RoutesAssumption
<1>3. GateFacts!ScanSpec => []GateFacts!AnswersHonest
  BY GateFacts!ScanAnswersHonest, RoutesAssumption
<1>4. GateFacts!ScanSpec => []GateFacts!LiveTokensBounded
  BY GateFacts!ScanLiveTokensBounded, RoutesAssumption
<1>5. [GateFacts!ScanNext]_(GateFacts!scanVars) <=> [Gate!ScanNext]_(Gate!scanVars)
  BY OneGate DEF Gate!scanVars, GateFacts!scanVars
<1>6. Proved => Kept
  <2>1. GateFacts!ScanTypeOK => Gate!ScanTypeOK
    BY DEF Gate!ScanTypeOK, Gate!Time, Gate!Token, Gate!Issue, Gate!Kind,
           GateFacts!ScanTypeOK, GateFacts!Time, GateFacts!Token, GateFacts!Issue, GateFacts!Kind
  <2>2. GateFacts!IssuanceSpaced => Gate!IssuanceSpaced
    BY DEF Gate!IssuanceSpaced, GateFacts!IssuanceSpaced
  <2>3. GateFacts!AnswersHonest => Gate!AnswersHonest
    BY DEF Gate!AnswersHonest, Gate!LiveAt, Gate!IsOn,
           GateFacts!AnswersHonest, GateFacts!LiveAt, GateFacts!IsOn
  <2>4. \A S : GateFacts!Cardinality(S) = Gate!Cardinality(S)
    BY Zenon DEF Gate!Cardinality, GateFacts!Cardinality
  <2>5. GateFacts!Minutes = Gate!Minutes /\ \A s : GateFacts!LiveTokens(s) = Gate!LiveTokens(s)
    BY DEF Gate!Minutes, GateFacts!Minutes, Gate!LiveTokens, GateFacts!LiveTokens
  <2>6. GateFacts!LiveTokensBounded => Gate!LiveTokensBounded
    BY <2>4, <2>5 DEF Gate!LiveTokensBounded, GateFacts!LiveTokensBounded
  <2> QED BY <2>1, <2>2, <2>3, <2>6
<1> HIDE DEF Proved, Kept
<1>7. GateFacts!ScanSpec => []Proved
  BY <1>1, <1>2, <1>3, <1>4, PTL DEF Proved
<1>8. Gate!ScanSpec => GateFacts!ScanSpec
  BY OneGate, <1>5, PTL DEF Gate!ScanSpec, GateFacts!ScanSpec
<1>9. RoutesSpec => []Kept
  BY <1>6, <1>7, <1>8, RoutesRunGate, PTL
<1> QED BY <1>9 DEF Kept

(* How a step of one handler notes its visit.                              *)
Noted(r, v) == IF r.step = "done" THEN [v EXCEPT !.done = now] ELSE v

LEMMA NotedFacts ==
    ASSUME TokensOK, NEW r \in Request, NEW v \in Visited
    PROVE  /\ Noted(r, v) \in Visited
           /\ Noted(r, v).at = v.at /\ Noted(r, v).expires = v.expires
           /\ r.step = "done" => Noted(r, v).done = now
  BY DEF Noted, Visited, TokensOK

LEMMA VisitMoves ==
    ASSUME GatewayInv, TimesInv, TokensOK', now' = now, NEW h \in Handler,
           NEW r \in Request, NEW v \in Visited,
           Become(h, r), Note(h, v), TimeOK(r, Noted(r, v))
    PROVE  TimesInv'
<1> DEFINE u == Noted(r, v)
<1>1. req' = [req EXCEPT ![h] = r] /\ req \in [Handler -> Request]
  BY DEF Become, GatewayInv
<1>2. req'[h] = r /\ \A g \in Handler \ {h} : req'[g] = req[g]
  BY <1>1
<1>3. visit' = [visit EXCEPT ![h] = u] /\ visit \in [Handler -> Visited] /\ u \in Visited
  BY <1>2, NotedFacts DEF Note, Noted, TimesInv
<1> HIDE DEF u
<1>4. visit' \in [Handler -> Visited] /\ visit'[h] = u /\ \A g \in Handler \ {h} : visit'[g] = visit[g]
  BY <1>3
<1>5. ASSUME NEW g \in Handler, NEW q, NEW w, TimeOK(q, w), req'[g] = q, visit'[g] = w
      PROVE  TimeOK(req[g], visit[g])'
  BY <1>5 DEF TimeOK
<1>6. ASSUME NEW g \in Handler PROVE TimeOK(req[g], visit[g])'
  <2>1. CASE g = h
    BY <1>2, <1>4, <1>5, <2>1 DEF u
  <2>2. CASE g # h
    BY <1>2, <1>4, <1>5, <2>2 DEF TimesInv
  <2> QED BY <2>1, <2>2
<1> QED BY <1>4, <1>6 DEF TimesInv

LEMMA MissedTimes ==
    ASSUME NEW r \in Request, r.answer = NoAnswer
    PROVE  /\ Missed(r) \in Request
           /\ \/ Missed(r).step = "ingested" /\ Missed(r).answer = NoAnswer
              \/ Missed(r).step = "done"
<1>1. CASE r.route = "untp"
  BY <1>1 DEF Missed, Request
<1>2. CASE r.route # "untp"
  <2>1. Missed(r) = Answered(r, "404", "none", "none")
    BY <1>2 DEF Missed
  <2> QED BY <2>1, AnsweredFacts
<1> QED BY <1>1, <1>2

(* A request that has just come.                                           *)
LEMMA AskTimes ==
    ASSUME IssuerOK, NEW h, NEW route \in {"untp", "en18222"}, NEW key \in UntpKey \cup EnKey,
           Ask(h, route, key)
    PROVE  \E r \in Request :
               /\ Become(h, r)
               /\ r.step \in {"passport", "ingested", "done"}
               /\ r.step = "passport" => r.waited = 0
<1> DEFINE r == Asked(route, key)
<1>1. r \in Request /\ r.answer = NoAnswer
  BY AskedFacts
<1>2. r.waited = 0
  BY DEF Asked, Idle
<1>3. Become(h, IF FixtureMatch(route, key) THEN Answered(r, "200", "fixture", "pass")
                ELSE IF issuer.set THEN [r EXCEPT !.step = "passport"]
                ELSE Missed(r))
  BY DEF Ask
<1> HIDE DEF r
<1>4. CASE FixtureMatch(route, key)
  BY <1>1, <1>3, <1>4, AnsweredFacts
<1>5. CASE ~FixtureMatch(route, key) /\ issuer.set
  <2> DEFINE p == [r EXCEPT !.step = "passport"]
  <2>1. p \in Request /\ p.step = "passport" /\ p.waited = 0
    BY <1>1, <1>2 DEF Request
  <2>2. Become(h, p)
    BY <1>3, <1>5
  <2> HIDE DEF p
  <2> QED BY <2>1, <2>2
<1>6. CASE ~FixtureMatch(route, key) /\ ~issuer.set
  <2>1. Become(h, Missed(r))
    BY <1>3, <1>6
  <2> QED BY <1>1, <2>1, MissedTimes
<1> QED BY <1>4, <1>5, <1>6

(* A request that goes on.                                                 *)
LEMMA StepTimes ==
    ASSUME GatewayInv, TimesInv, NEW h \in Handler, HandlerStep(h)
    PROVE  \E r \in Request : Become(h, r) /\ TimeOK(r, Noted(r, visit[h]))
<1> DEFINE q == req[h]
           v == visit[h]
           T == UpstreamTimeout
<1>1. /\ q \in Request /\ v \in Visited /\ TimeOK(q, v) /\ TokensOK
      /\ q.step \in Progress => q.answer = NoAnswer
  BY DEF GatewayInv, TimesInv, RequestOK, Gathering, AnswersWell, Idle, Progress
<1>2. T \in Nat /\ now \in Nat /\ v.at \in Nat /\ q.waited \in Nat
  BY <1>1, GatewayAssumption DEF TokensOK, Visited, Request
<1>3. ASSUME NEW r \in Request, q.step \in Progress, now <= v.at + 2 * T,
             r.step = "done" \/ (r.step = "ingested" /\ r.answer = NoAnswer)
      PROVE  TimeOK(r, Noted(r, v))
  <2> DEFINE u == Noted(r, v)
  <2>1. u.at = v.at /\ u.expires = v.expires /\ (r.step = "done" => u.done = now)
    BY <1>1, NotedFacts
  <2>2. v.expires = Open \/ v.at < v.expires
    BY <1>1, <1>3 DEF TimeOK
  <2> HIDE DEF u
  <2> QED BY <1>3, <2>1, <2>2 DEF TimeOK, NoAnswer, u
<1>4. CASE PassportArrives(h)
  <2>1. q.step \in Progress /\ q.answer = NoAnswer /\ now <= v.at + T
    BY <1>1, <1>2, <1>4 DEF PassportArrives, Progress, TimeOK
  <2>2. now <= v.at + 2 * T
    BY <1>2, <2>1
  <2> DEFINE found == q.key \in IssuerKey /\ issuer.known[q.key] # NotMinted
             k == [[[q EXCEPT !.step = "keyring"] EXCEPT !.waited = 0] EXCEPT !.signers = issuer.known[q.key]]
  <2>3. Become(h, IF found THEN k ELSE Missed(q))
    BY <1>4 DEF PassportArrives
  <2>4. ASSUME found PROVE k \in Request /\ TimeOK(k, Noted(k, v))
    <3>1. issuer.known[q.key] \in SUBSET Nat
      BY <2>4 DEF GatewayInv, IssuerOK
    <3>2. k \in Request /\ k.step = "keyring" /\ k.waited = 0 /\ k.answer = NoAnswer
      BY <1>1, <2>1, <3>1 DEF Request
    <3> HIDE DEF k
    <3>3. Noted(k, v) = v
      BY <3>2 DEF Noted
    <3>4. v.expires = Open \/ v.at < v.expires
      BY <1>1, <2>1 DEF TimeOK
    <3> QED BY <1>2, <2>1, <3>2, <3>3, <3>4 DEF TimeOK, NoAnswer
  <2>5. Missed(q) \in Request /\ TimeOK(Missed(q), Noted(Missed(q), v))
    BY <1>1, <1>3, <2>1, <2>2, MissedTimes
  <2> HIDE DEF found, k
  <2> QED BY <2>3, <2>4, <2>5
<1>5. CASE KeyringArrives(h)
  <2>1. q.step \in Progress /\ now <= v.at + 2 * T
    BY <1>1, <1>2, <1>5 DEF KeyringArrives, Progress, TimeOK
  <2> DEFINE a == Answered(q, "200", "issuer", Outcome(q.signers, FetchedAnchors(h)))
  <2>2. a \in Request /\ a.step = "done"
    <3>1. Outcome(q.signers, FetchedAnchors(h)) \in {"none", "pass", "fail"}
      BY DEF Outcome
    <3> QED BY <1>1, <3>1, AnsweredFacts
  <2>3. Become(h, a)
    BY <1>5 DEF KeyringArrives
  <2> HIDE DEF a
  <2> QED BY <1>3, <2>1, <2>2, <2>3
<1>6. CASE CallFails(h) \/ TimesOut(h)
  <2>1. q.step \in {"passport", "keyring"} /\ CallFailed(h)
    BY <1>6 DEF CallFails, TimesOut
  <2>2. q.step \in Progress /\ now <= v.at + 2 * T /\ q.answer = NoAnswer
    BY <1>1, <1>2, <2>1 DEF Progress, TimeOK
  <2>3. CASE q.step = "passport"
    <3>1. Become(h, Missed(q))
      BY <2>1, <2>3 DEF CallFailed
    <3> QED BY <1>1, <1>3, <2>2, <3>1, MissedTimes
  <2>4. CASE q.step = "keyring"
    <3> DEFINE l == [q EXCEPT !.lost = TRUE]
               o == Outcome(q.signers, {})
               a == Answered(l, "200", "issuer", o)
    <3>1. l \in Request /\ o \in {"none", "pass", "fail"}
      BY <1>1 DEF Request, Outcome
    <3>2. Become(h, a)
      BY <2>1, <2>4 DEF CallFailed
    <3> HIDE DEF l, o
    <3>3. a \in Request /\ a.step = "done"
      BY <3>1, AnsweredFacts
    <3> HIDE DEF a
    <3> QED BY <1>3, <2>2, <3>2, <3>3
  <2> QED BY <2>1, <2>3, <2>4
<1>7. CASE LookUpIngested(h)
  <2>1. q.step \in Progress /\ now <= v.at + 2 * T
    BY <1>1, <1>7 DEF LookUpIngested, Progress, TimeOK
  <2>2. /\ Answered(q, "200", "ingested", "pass") \in Request
        /\ Answered(q, "200", "ingested", "pass").step = "done"
        /\ Answered(q, "404", "none", "none") \in Request
        /\ Answered(q, "404", "none", "none").step = "done"
    BY <1>1, AnsweredFacts
  <2>3. \/ Become(h, Answered(q, "200", "ingested", "pass"))
        \/ Become(h, Answered(q, "404", "none", "none"))
    BY <1>7 DEF LookUpIngested
  <2> QED BY <1>3, <2>1, <2>2, <2>3
<1> QED BY <1>4, <1>5, <1>6, <1>7 DEF HandlerStep

LEMMA AwayTimes ==
    ASSUME NEW h, TurnAway(h)
    PROVE  \E r \in Request : Become(h, r) /\ \A v : TimeOK(r, v)
<1>1. LET a == Answered(Idle, "refused", "none", "none")
      IN  a \in Request /\ a.step = "done" /\ a.answer.status = "refused"
  BY IdleIsRequest, AnsweredFacts
<1> QED BY <1>1 DEF TurnAway, TimeOK, Progress

LEMMA ClockMoves ==
    ASSUME GatewayInv, TimesInv, TokensOK', RoutesTick
    PROVE  TimesInv'
<1>1. /\ now' = now + 1 /\ visit' = visit /\ now \in Nat
      /\ req' = [h \in Handler |-> IF Waiting(h) THEN [req[h] EXCEPT !.waited = @ + 1] ELSE req[h]]
  BY DEF RoutesTick, Gate!ScanTick, Waits, TimesInv, TokensOK
<1>2. ASSUME NEW h \in Handler PROVE TimeOK(req[h], visit[h])'
  <2> DEFINE w == [req[h] EXCEPT !.waited = req[h].waited + 1]
  <2>1. req[h] \in Request /\ visit[h] \in Visited /\ TimeOK(req[h], visit[h]) /\ UpstreamTimeout \in Nat
    BY GatewayAssumption DEF GatewayInv, TimesInv
  <2>2. req[h].step # "ingested" /\ (Waiting(h) => req[h].waited < UpstreamTimeout)
    BY DEF RoutesTick, Waits
  <2>3. visit'[h] = visit[h] /\ visit[h].at \in Nat /\ req[h].waited \in Nat
    BY <1>1, <2>1 DEF Visited, Request
  <2>4. CASE Waiting(h)
    <3>1. w.step = req[h].step /\ w.answer = req[h].answer /\ w.waited = req[h].waited + 1
      BY <2>1 DEF Request
    <3>2. req'[h] = w
      BY <1>1, <2>4
    <3> HIDE DEF w
    <3> QED BY <1>1, <2>1, <2>2, <2>3, <2>4, <3>1, <3>2 DEF TimeOK
  <2>5. CASE ~Waiting(h)
    <3>1. req'[h] = req[h]
      BY <1>1, <2>5
    <3> QED BY <2>1, <2>2, <2>3, <2>5, <3>1 DEF TimeOK, Waiting
  <2> QED BY <2>4, <2>5
<1> QED BY <1>1, <1>2 DEF TimesInv

LEMMA TimesStep == ASSUME GatewayInv, TimesInv, [RoutesNext]_routesVars PROVE TimesInv'
<1>1. TokensOK' /\ TokensOK /\ IssuerOK
  BY TokensStep DEF TimesInv, GatewayInv
<1>2. ASSUME NEW h \in Handler, NEW t \in Gate!Presented, RequestAdmitted(h, t) PROVE TimesInv'
  <2> DEFINE v == Visit(t)
  <2>1. now' = now /\ Note(h, v)
    BY <1>2 DEF RequestAdmitted, Admitted, Gate!AdmitOpen, Gate!AdmitLive
  <2>2. v \in Visited /\ v.at = now /\ v.done = now /\ (v.expires = Open \/ now < v.expires)
    <3>1. CASE Gate!AdmitOpen(t)
      BY <1>1, <3>1 DEF Visit, Visited, TokensOK, Gate!AdmitOpen
    <3>2. CASE Gate!AdmitLive(t)
      BY <1>1, <3>2 DEF Visit, Visited, TokensOK, Gate!AdmitLive, Gate!Dead
    <3> QED BY <1>2, <3>1, <3>2 DEF RequestAdmitted, Admitted
  <2> HIDE DEF v
  <2>3. ASSUME NEW route \in {"untp", "en18222"}, NEW key \in UntpKey \cup EnKey, Ask(h, route, key)
        PROVE  TimesInv'
    <3>1. PICK r \in Request : /\ Become(h, r)
                               /\ r.step \in {"passport", "ingested", "done"}
                               /\ r.step = "passport" => r.waited = 0
      BY <1>1, <2>3, AskTimes
    <3>2. Noted(r, v).at = now /\ Noted(r, v).done = now /\ Noted(r, v).expires = v.expires
      BY <1>1, <2>2, NotedFacts DEF Noted
    <3>3. TimeOK(r, Noted(r, v))
      BY <1>1, <2>2, <3>1, <3>2, GatewayAssumption DEF TimeOK, TokensOK
    <3> QED BY <1>1, <2>1, <2>2, <3>1, <3>3, VisitMoves
  <2>4. CASE TurnAway(h)
    BY <1>1, <2>1, <2>2, <2>4, AwayTimes, VisitMoves
  <2> QED BY <1>2, <2>3, <2>4 DEF RequestAdmitted
<1>3. NoVisit \in Visited
  BY DEF NoVisit, Visited
<1>4. ASSUME NEW h \in Handler, TurnAway(h), Note(h, NoVisit), now' = now PROVE TimesInv'
  BY <1>1, <1>3, <1>4, AwayTimes, VisitMoves
<1>5. ASSUME NEW h \in Handler, NEW t, RequestRefused(h, t) PROVE TimesInv'
  BY <1>4, <1>5 DEF RequestRefused, NotAdmitted, Gate!AdmitWithout, Gate!AdmitUnknown, Gate!AdmitExpired
<1>6. ASSUME NEW h \in Handler, RequestDropped(h) PROVE TimesInv'
  BY <1>4, <1>6 DEF RequestDropped, Gate!RequestPanics
<1>7. ASSUME NEW h \in Handler, Resume(h) PROVE TimesInv'
  <2>1. now' = now /\ Note(h, visit[h]) /\ visit[h] \in Visited
    BY <1>7 DEF Resume, gateVars, TimesInv
  <2>2. PICK r \in Request : Become(h, r) /\ TimeOK(r, Noted(r, visit[h]))
    BY <1>7, StepTimes DEF Resume
  <2> QED BY <1>1, <2>1, <2>2, VisitMoves
<1>8. CASE RoutesTick
  BY <1>1, <1>8, ClockMoves
<1>9. ASSUME req' = req, visit' = visit, now' = now PROVE TimesInv'
  BY <1>1, <1>9 DEF TimesInv, TimeOK
<1>10. CASE IssueRoute
  BY <1>9, <1>10 DEF IssueRoute, gatewayVars, Gate!IssueToken, Gate!IssuePanics, Gate!IssueRefused, Gate!IssueOpen,
                     Gate!RequestPanics
<1>11. CASE Elsewhere
  BY <1>9, <1>11 DEF Elsewhere, gateVars, PostBody, IssuerMints, IssuerAppends, IssuerRotates, IssuerActs
<1>12. CASE RoutesRestart
  <2>1. req' = [h \in Handler |-> Idle] /\ visit' = [h \in Handler |-> NoVisit]
    BY <1>12 DEF RoutesRestart, GatewayRestart
  <2>2. Idle.step = "idle" /\ Idle.answer.status = "none"
    BY DEF Idle, NoAnswer
  <2>3. ASSUME NEW h \in Handler PROVE TimeOK(req[h], visit[h])'
    BY <2>1, <2>2 DEF TimeOK, Progress
  <2> QED BY <1>1, <1>3, <2>1, <2>3 DEF TimesInv
<1>13. CASE UNCHANGED routesVars
  BY <1>9, <1>13 DEF routesVars, gatewayVars, gateVars
<1> QED BY <1>2, <1>5, <1>6, <1>7, <1>8, <1>10, <1>11, <1>12, <1>13 DEF RoutesNext

(* The clock the gate and the calls share, in every reachable state.       *)
THEOREM TimesSafety == RoutesSpec => []TimesInv
<1>1. RoutesInit => TimesInv
  <2> SUFFICES ASSUME RoutesInit PROVE TimesInv
    OBVIOUS
  <2>1. TokensOK
    BY RoutesAssumption DEF RoutesInit, Gate!ScanInit, TokensOK
  <2>2. Idle.step = "idle" /\ Idle.answer.status = "none" /\ NoVisit \in Visited
    BY DEF Idle, NoAnswer, NoVisit, Visited
  <2>3. \A h \in Handler : req[h] = Idle /\ visit[h] = NoVisit
    BY DEF RoutesInit, GatewayInit
  <2>4. visit \in [Handler -> Visited]
    BY <2>2 DEF RoutesInit
  <2> QED BY <2>1, <2>2, <2>3, <2>4 DEF TimesInv, TimeOK, Progress
<1>2. GatewayInv /\ TimesInv /\ [RoutesNext]_routesVars => TimesInv'
  BY TimesStep
<1> QED BY <1>1, <1>2, RoutesRunGateway, GatewaySafety, PTL DEF RoutesSpec

(* api.rs:515-530: what a token bought is answered before the token has    *)
(* been dead for the time of two calls, however many requests there are.   *)
THEOREM TokensOutlivedBriefly == RoutesSpec => []TokenOutlivedBriefly
<1>1. TimesInv => TokenOutlivedBriefly
  <2> SUFFICES ASSUME TimesInv, NEW h \in Handler,
                      req[h].answer.status \in {"200", "404"}, visit[h].expires # Open
               PROVE  /\ visit[h].at < visit[h].expires
                      /\ visit[h].done < visit[h].expires + 2 * UpstreamTimeout
    BY DEF TokenOutlivedBriefly
  <2>1. /\ visit[h].at \in Nat /\ visit[h].done \in Nat /\ visit[h].expires \in Nat
        /\ UpstreamTimeout \in Nat /\ TimeOK(req[h], visit[h])
    BY GatewayAssumption DEF TimesInv, Visited
  <2> QED BY <2>1 DEF TimeOK
<1> QED BY <1>1, TimesSafety, PTL

----------------------------------------------------------------------------
(* The types of the routes: beside the parts above, what GatewayTypeOK     *)
(* says of a request and of the issuer's ring.                             *)

TypedRequest(r) ==
    /\ r.step \in {"passport", "keyring"} => issuer.set /\ r.waited <= UpstreamTimeout
    /\ r.signers \subseteq FirstKey..issuer.ring
    /\ r.step = "done" <=> r.answer.status # "none"
    /\ r.answer.outcome # "none" => r.route = "untp" /\ r.answer.status = "200"

TypedInv ==
    /\ issuer.ring \in FirstKey..MaxRing
    /\ \A h \in Handler : TypedRequest(req[h])

LEMMA IdleTyped == Idle \in Request /\ TypedRequest(Idle)
<1>1. Idle.step = "idle" /\ Idle.signers = {} /\ Idle.answer = NoAnswer
  BY DEF Idle
<1> QED BY <1>1, IdleIsRequest DEF TypedRequest, NoAnswer

LEMMA AnsweredTyped ==
    ASSUME NEW r \in Request, r.signers \subseteq FirstKey..issuer.ring,
           NEW status \in {"refused", "200", "404"},
           NEW source \in {"none", "fixture", "issuer", "ingested"}, NEW outcome \in {"none", "pass", "fail"}
    PROVE  TypedRequest(Answered(r, status, source, outcome))
<1> DEFINE a == Answered(r, status, source, outcome)
<1>1. /\ a.step = "done" /\ a.route = r.route /\ a.signers = r.signers
      /\ a.answer.status = status /\ a.answer.outcome \in {"none", outcome}
      /\ a.answer.outcome # "none" => r.route = "untp" /\ status = "200"
  BY AnsweredFacts
<1> HIDE DEF a
<1>2. TypedRequest(a)
  BY <1>1 DEF TypedRequest
<1> QED BY <1>2 DEF a

LEMMA MissedTyped ==
    ASSUME NEW r \in Request, TypedRequest(r), r.answer = NoAnswer
    PROVE  TypedRequest(Missed(r))
<1>1. CASE r.route = "untp"
  <2> DEFINE m == [r EXCEPT !.step = "ingested"]
  <2>1. m \in Request /\ m.step = "ingested" /\ m.signers = r.signers /\ m.answer = r.answer
    BY DEF Request
  <2>2. Missed(r) = m
    BY <1>1 DEF Missed
  <2> HIDE DEF m
  <2> QED BY <2>1, <2>2 DEF TypedRequest, NoAnswer
<1>2. CASE r.route # "untp"
  <2>1. Missed(r) = Answered(r, "404", "none", "none")
    BY <1>2 DEF Missed
  <2> QED BY <2>1, AnsweredTyped DEF TypedRequest
<1> QED BY <1>1, <1>2

LEMMA AskTyped ==
    ASSUME IssuerOK, NEW h, NEW route \in {"untp", "en18222"}, NEW key \in UntpKey \cup EnKey,
           Ask(h, route, key)
    PROVE  \E r : TypedRequest(r) /\ Become(h, r)
<1> DEFINE r == Asked(route, key)
<1>1. r \in Request /\ r.answer = NoAnswer /\ r.signers = {} /\ r.step = "idle" /\ r.waited = 0
  <2>1. r \in Request /\ r.answer = NoAnswer /\ r.signers = {}
    BY AskedFacts
  <2>2. r.step = "idle" /\ r.waited = 0
    BY DEF Asked, Idle
  <2> QED BY <2>1, <2>2
<1>2. Become(h, IF FixtureMatch(route, key) THEN Answered(r, "200", "fixture", "pass")
                ELSE IF issuer.set THEN [r EXCEPT !.step = "passport"]
                ELSE Missed(r))
  BY DEF Ask
<1> HIDE DEF r
<1>3. TypedRequest(r)
  BY <1>1 DEF TypedRequest, NoAnswer
<1>4. TypedRequest(Answered(r, "200", "fixture", "pass")) /\ TypedRequest(Missed(r))
  BY <1>1, <1>3, AnsweredTyped, MissedTyped
<1>5. ASSUME issuer.set PROVE TypedRequest([r EXCEPT !.step = "passport"])
  <2> DEFINE p == [r EXCEPT !.step = "passport"]
  <2>1. p.step = "passport" /\ p.waited = 0 /\ p.signers = {} /\ p.answer = NoAnswer
    BY <1>1 DEF Request
  <2> HIDE DEF p
  <2>2. TypedRequest(p)
    BY <1>5, <2>1, GatewayAssumption DEF TypedRequest, NoAnswer
  <2> QED BY <2>2 DEF p
<1> QED BY <1>2, <1>4, <1>5

LEMMA TurnAwayTyped ==
    ASSUME NEW h, TurnAway(h)
    PROVE  \E r : TypedRequest(r) /\ Become(h, r)
<1>1. TypedRequest(Answered(Idle, "refused", "none", "none"))
  BY IdleTyped, AnsweredTyped DEF TypedRequest
<1> QED BY <1>1 DEF TurnAway

LEMMA StepTyped ==
    ASSUME GatewayInv, TypedInv, NEW h \in Handler, HandlerStep(h)
    PROVE  \E r : TypedRequest(r) /\ Become(h, r)
<1> DEFINE q == req[h]
<1>1. q \in Request /\ TypedRequest(q) /\ (q.step \in Progress => q.answer = NoAnswer)
  BY DEF GatewayInv, TypedInv, RequestOK, Gathering, AnswersWell, Idle, Progress
<1>2. q.signers \subseteq FirstKey..issuer.ring
  BY <1>1 DEF TypedRequest
<1>3. CASE PassportArrives(h)
  <2> DEFINE found == q.key \in IssuerKey /\ issuer.known[q.key] # NotMinted
             k == [[[q EXCEPT !.step = "keyring"] EXCEPT !.waited = 0] EXCEPT !.signers = issuer.known[q.key]]
  <2>1. q.step = "passport" /\ Become(h, IF found THEN k ELSE Missed(q))
    BY <1>3 DEF PassportArrives
  <2>2. q.answer = NoAnswer /\ issuer.set
    BY <1>1, <2>1 DEF Progress, TypedRequest
  <2>3. TypedRequest(Missed(q))
    BY <1>1, <2>2, MissedTyped
  <2>4. ASSUME found PROVE TypedRequest(k)
    <3>1. issuer.known[q.key] \subseteq FirstKey..issuer.ring /\ issuer.known[q.key] \in SUBSET Nat
      BY <2>4 DEF GatewayInv, IssuerOK
    <3>2. k.step = "keyring" /\ k.waited = 0 /\ k.signers = issuer.known[q.key] /\ k.answer = NoAnswer
      BY <1>1, <2>2, <3>1 DEF Request
    <3> HIDE DEF k
    <3> QED BY <2>2, <3>1, <3>2, GatewayAssumption DEF TypedRequest, NoAnswer
  <2> HIDE DEF found, k
  <2> QED BY <2>1, <2>3, <2>4
<1>4. CASE KeyringArrives(h)
  <2> DEFINE o == Outcome(q.signers, FetchedAnchors(h))
  <2>1. o \in {"none", "pass", "fail"}
    BY DEF Outcome
  <2>2. Become(h, Answered(q, "200", "issuer", o))
    BY <1>4 DEF KeyringArrives
  <2> HIDE DEF o
  <2>3. TypedRequest(Answered(q, "200", "issuer", o))
    BY <1>1, <1>2, <2>1, AnsweredTyped
  <2> QED BY <2>2, <2>3
<1>5. CASE CallFails(h) \/ TimesOut(h)
  <2>1. q.step \in {"passport", "keyring"} /\ CallFailed(h)
    BY <1>5 DEF CallFails, TimesOut
  <2>2. CASE q.step = "passport"
    <3>1. Become(h, Missed(q))
      BY <2>1, <2>2 DEF CallFailed
    <3>2. TypedRequest(Missed(q))
      BY <1>1, <2>2, MissedTyped DEF Progress
    <3> QED BY <3>1, <3>2
  <2>3. CASE q.step = "keyring"
    <3> DEFINE l == [q EXCEPT !.lost = TRUE]
               o == Outcome(q.signers, {})
    <3>1. l \in Request /\ l.signers = q.signers /\ o \in {"none", "pass", "fail"}
      BY <1>1 DEF Request, Outcome
    <3>2. Become(h, Answered(l, "200", "issuer", o))
      BY <2>1, <2>3 DEF CallFailed
    <3> HIDE DEF l, o
    <3>3. TypedRequest(Answered(l, "200", "issuer", o))
      BY <1>2, <3>1, AnsweredTyped
    <3> QED BY <3>2, <3>3
  <2> QED BY <2>1, <2>2, <2>3
<1>6. CASE LookUpIngested(h)
  <2>1. \/ Become(h, Answered(q, "200", "ingested", "pass"))
        \/ Become(h, Answered(q, "404", "none", "none"))
    BY <1>6 DEF LookUpIngested
  <2>2. /\ TypedRequest(Answered(q, "200", "ingested", "pass"))
        /\ TypedRequest(Answered(q, "404", "none", "none"))
    BY <1>1, <1>2, AnsweredTyped
  <2> QED BY <2>1, <2>2
<1> QED BY <1>3, <1>4, <1>5, <1>6 DEF HandlerStep

LEMMA BecomesTyped ==
    ASSUME GatewayInv, TypedInv, NEW h \in Handler, NEW r, TypedRequest(r), Become(h, r)
    PROVE  TypedInv'
<1>1. issuer' = issuer /\ req' = [req EXCEPT ![h] = r] /\ req \in [Handler -> Request]
  BY DEF Become, GatewayInv
<1>2. req'[h] = r /\ \A g \in Handler \ {h} : req'[g] = req[g]
  BY <1>1
<1>3. ASSUME NEW g \in Handler, NEW q, TypedRequest(q), req'[g] = q PROVE TypedRequest(req[g])'
  BY <1>1, <1>3 DEF TypedRequest
<1>4. ASSUME NEW g \in Handler PROVE TypedRequest(req[g])'
  BY <1>2, <1>3 DEF TypedInv
<1>5. issuer'.ring \in FirstKey..MaxRing
  BY <1>1 DEF TypedInv
<1> QED BY <1>4, <1>5 DEF TypedInv

(* The ring only grows, and the configuration changes with the process.    *)
LEMMA TypedMoves ==
    ASSUME GatewayInv, TypedInv, req' = req, issuer'.set = issuer.set,
           issuer'.ring \in FirstKey..MaxRing, issuer.ring <= issuer'.ring
    PROVE  TypedInv'
<1>1. issuer.ring \in Nat /\ issuer'.ring \in Int
  BY DEF GatewayInv, IssuerOK, FirstKey
<1>2. FirstKey..issuer.ring \subseteq FirstKey..issuer'.ring
  BY <1>1
<1>3. ASSUME NEW h \in Handler PROVE TypedRequest(req[h])'
  <2>1. TypedRequest(req[h])
    BY DEF TypedInv
  <2> QED BY <1>2, <2>1 DEF TypedRequest
<1> QED BY <1>3 DEF TypedInv

LEMMA WaitsTyped ==
    ASSUME GatewayInv, TypedInv, Waits
    PROVE  TypedInv'
<1>1. /\ issuer' = issuer
      /\ req' = [h \in Handler |-> IF Waiting(h) THEN [req[h] EXCEPT !.waited = @ + 1] ELSE req[h]]
  BY DEF Waits
<1>2. ASSUME NEW h \in Handler PROVE TypedRequest(req[h])'
  <2> DEFINE w == [req[h] EXCEPT !.waited = req[h].waited + 1]
  <2>1. req[h] \in Request /\ TypedRequest(req[h]) /\ UpstreamTimeout \in Nat
    BY GatewayAssumption DEF GatewayInv, TypedInv
  <2>2. CASE Waiting(h)
    <3>1. req[h].waited \in Nat /\ req[h].waited < UpstreamTimeout
      BY <2>1, <2>2 DEF Waits, Request
    <3>2. /\ w.step = req[h].step /\ w.answer = req[h].answer /\ w.waited = req[h].waited + 1
          /\ w.signers = req[h].signers /\ w.route = req[h].route
      BY <2>1 DEF Request
    <3>3. req'[h] = w
      BY <1>1, <2>2
    <3> HIDE DEF w
    <3> QED BY <1>1, <2>1, <3>1, <3>2, <3>3 DEF TypedRequest
  <2>3. CASE ~Waiting(h)
    <3>1. req'[h] = req[h]
      BY <1>1, <2>3
    <3> QED BY <1>1, <2>1, <3>1 DEF TypedRequest
  <2> QED BY <2>2, <2>3
<1> QED BY <1>1, <1>2 DEF TypedInv

LEMMA TypedStep == ASSUME GatewayInv, TypedInv, [GatewayNext]_gatewayVars PROVE TypedInv'
<1>1. IssuerOK /\ issuer \in [set : BOOLEAN, ring : Nat \ {0}, known : [IssuerKey -> SUBSET Nat]]
  BY DEF GatewayInv, IssuerOK
<1>2. MaxRing \in Nat /\ FirstKey = 1 /\ issuer.ring \in Nat /\ issuer.ring <= issuer.ring
      /\ issuer.ring \in FirstKey..MaxRing
  BY <1>1, GatewayAssumption DEF FirstKey, TypedInv
<1>3. ASSUME NEW h \in Handler,
             \/ \E key \in UntpKey : Ask(h, "untp", key)
             \/ \E key \in EnKey : Ask(h, "en18222", key)
             \/ TurnAway(h)
             \/ HandlerStep(h)
      PROVE  TypedInv'
  BY <1>1, <1>3, AskTyped, TurnAwayTyped, StepTyped, BecomesTyped
<1>4. CASE Waits
  BY <1>4, WaitsTyped
<1>5. ASSUME NEW body \in Posted, PostBody(body) PROVE TypedInv'
  BY <1>2, <1>5, TypedMoves DEF PostBody
<1>6. ASSUME NEW key \in IssuerKey, IssuerMints(key) \/ IssuerAppends(key) PROVE TypedInv'
  <2>1. PICK known : issuer' = [issuer EXCEPT !.known = known]
    BY <1>1, <1>6 DEF IssuerMints, IssuerAppends, IssuerActs
  <2>2. issuer'.ring = issuer.ring /\ issuer'.set = issuer.set /\ req' = req
    BY <1>1, <1>6, <2>1 DEF IssuerMints, IssuerAppends, IssuerActs
  <2> QED BY <1>2, <2>2, TypedMoves
<1>7. CASE IssuerRotates
  <2>1. issuer'.ring = issuer.ring + 1 /\ issuer'.set = issuer.set /\ req' = req /\ issuer.ring < MaxRing
    BY <1>1, <1>7 DEF IssuerRotates, IssuerActs
  <2>2. issuer'.ring \in FirstKey..MaxRing /\ issuer.ring <= issuer'.ring
    BY <1>2, <2>1
  <2> QED BY <2>1, <2>2, TypedMoves
<1>8. CASE GatewayRestart
  <2>1. req' = [h \in Handler |-> Idle] /\ issuer'.ring = issuer.ring
    BY <1>1, <1>8 DEF GatewayRestart
  <2>2. Idle.step = "idle" /\ Idle.signers = {} /\ Idle.answer = NoAnswer
    BY DEF Idle
  <2>3. ASSUME NEW h \in Handler PROVE TypedRequest(req[h])'
    BY <2>1, <2>2 DEF TypedRequest, NoAnswer
  <2> QED BY <1>2, <2>1, <2>3 DEF TypedInv
<1>9. CASE UNCHANGED gatewayVars
  BY <1>2, <1>9, TypedMoves DEF gatewayVars
<1> QED BY <1>3, <1>4, <1>5, <1>6, <1>7, <1>8, <1>9 DEF GatewayNext

(* The types of the whole: store, issuer, requests, gate and visits.       *)
THEOREM RoutesTypeCorrect == RoutesSpec => []RoutesTypeOK
<1>1. GatewayInit => TypedInv
  <2> SUFFICES ASSUME GatewayInit PROVE TypedInv
    OBVIOUS
  <2>1. issuer.ring = FirstKey /\ FirstKey \in FirstKey..MaxRing
    BY GatewayAssumption DEF GatewayInit, FirstKey
  <2>2. \A h \in Handler : req[h] = Idle
    BY DEF GatewayInit
  <2> QED BY <2>1, <2>2, IdleTyped DEF TypedInv
<1>2. GatewayInv /\ TypedInv /\ [GatewayNext]_gatewayVars => TypedInv'
  BY TypedStep
<1>3. GatewaySpec => []TypedInv
  BY <1>1, <1>2, GatewaySafety, PTL DEF GatewaySpec
<1>4. GatewayInv /\ TypedInv /\ IngestTypeOK => GatewayTypeOK
  <2> SUFFICES ASSUME GatewayInv, TypedInv, IngestTypeOK PROVE GatewayTypeOK
    OBVIOUS
  <2>1. /\ issuer.set \in BOOLEAN /\ issuer.ring \in FirstKey..MaxRing
        /\ \A key \in IssuerKey :
               issuer.known[key] = NotMinted \/ issuer.known[key] \in SUBSET (FirstKey..issuer.ring)
    BY DEF GatewayInv, IssuerOK, TypedInv
  <2>2. ASSUME NEW h \in Handler
        PROVE  req[h].step \in {"idle", "passport", "keyring", "ingested", "done"} /\ TypedRequest(req[h])
    BY DEF GatewayInv, TypedInv, Request
  <2> QED BY <2>1, <2>2 DEF GatewayTypeOK, TypedRequest
<1>5. TimesInv => \A h \in Handler :
          visit[h].expires \in Nat \cup {Open} /\ visit[h].at \in Nat /\ visit[h].done \in Nat
  <2>1. ASSUME TimesInv, NEW h \in Handler PROVE visit[h] \in Visited
    BY <2>1 DEF TimesInv
  <2> QED BY <2>1 DEF Visited
<1>6. GatewayTypeOK /\ Gate!ScanTypeOK /\ TimesInv => RoutesTypeOK
  BY <1>5 DEF RoutesTypeOK
<1> QED BY <1>3, <1>4, <1>6, RoutesRunGateway, GatewaySafety, RoutesKeepStore, RoutesKeepGate, TimesSafety, PTL
=============================================================================
