---------------------------------- MODULE Untp ----------------------------------
(***************************************************************************)
(* The UNTP projection of a passport and its inverse (untp.rs, ingest.rs): *)
(* how an identity is written as scheme and value, how scheme and value    *)
(* are read back as an identity, and what of a passport survives the trip. *)
(***************************************************************************)
EXTENDS Integers, Sequences, FiniteSets, Selection

CONSTANTS
    Gtin, Urn,          \* keys of GS1 and of ISO 15459 (cpid) identities
    Qualifier,          \* lots and serials
    Gs1Scheme,          \* scheme URIs read as gtin
    UnidppScheme,       \* scheme URIs read as cpid
    OtherScheme,        \* scheme URIs of no token of the core
    Gs1Voc, UnidppId,   \* the two scheme URIs the render writes
    Standard,           \* profiles, id and version
    Instant,            \* dates
    PassportId

None == "none"

Scheme == Gs1Scheme \cup UnidppScheme \cup OtherScheme

ASSUME UntpAssumption ==
    /\ Gs1Voc \in Gs1Scheme /\ UnidppId \in UnidppScheme
    /\ Gs1Scheme \cap UnidppScheme = {} /\ OtherScheme \cap (Gs1Scheme \cup UnidppScheme) = {}
    /\ Gtin \cap Urn = {}
    /\ None \notin Scheme \cup Qualifier \cup Standard \cup Instant

(* A product identity.  Only GS1 identities carry qualifiers.              *)
Identity ==
    [kind : {"gs1"}, key : Gtin, lot : Qualifier \cup {None}, serial : Qualifier \cup {None}]
        \cup [kind : {"cpid"}, key : Urn, lot : {None}, serial : {None}]

NoIdentity == [kind |-> "unmapped"]

(* The ways an identity is written: (01)k(10)l(21)s, 01+k+10+l+21+s, a key *)
(* on its own, cpid:k.                                                     *)
Text ==
    [form : {"ai", "plus"}, key : Gtin \cup Urn,
     lot : Qualifier \cup {None}, serial : Qualifier \cup {None}]
        \cup [form : {"bare", "cpid"}, key : Gtin \cup Urn, lot : {None}, serial : {None}]

(* One entry of productIdentifiers; an empty value is an absent one.       *)
NoText == [form |-> "absent"]
ProductId == [scheme : Scheme \cup {None}, value : Text \cup {NoText}]

----------------------------------------------------------------------------
SchemeUri(i) == IF i.kind = "gs1" THEN Gs1Voc ELSE UnidppId

SchemeToken(scheme) ==
    CASE scheme \in Gs1Scheme -> "gtin"
      [] scheme \in UnidppScheme -> "cpid"
      [] OTHER -> "other"

(* ProductIdentifier::to_string and ::parse, of the core.                  *)
Display(i) ==
    [form |-> IF i.kind = "gs1" THEN "plus" ELSE "cpid", key |-> i.key, lot |-> i.lot, serial |-> i.serial]

ParseDisplay(t) ==
    IF t.form = "plus" /\ t.key \in Gtin
    THEN [kind |-> "gs1", key |-> t.key, lot |-> t.lot, serial |-> t.serial]
    ELSE IF t.form = "cpid" /\ t.key \in Urn
    THEN [kind |-> "cpid", key |-> t.key, lot |-> None, serial |-> None]
    ELSE NoIdentity

UntpIdentifierValueBare(i) ==
    IF i.kind = "gs1" THEN [form |-> "bare", key |-> i.key, lot |-> None, serial |-> None] ELSE Display(i)

UntpIdentifierValue(i) == IF i.kind = "gs1" THEN [Display(i) EXCEPT !.form = "ai"] ELSE Display(i)

(* The (01) form is a GTIN whatever the scheme says.                       *)
CoreIdentifierValue(token, t) ==
    IF t.form = "ai" \/ (token = "gtin" /\ t.form # "plus") THEN [t EXCEPT !.form = "plus"] ELSE t

(* parse_identity over the productIdentifiers of a stub.                   *)
ParseIdentity(ids) ==
    IF ids = <<>> \/ ids[1].value = NoText THEN NoIdentity
    ELSE LET scheme == IF ids[1].scheme = None THEN Gs1Voc ELSE ids[1].scheme
         IN ParseDisplay(CoreIdentifierValue(SchemeToken(scheme), ids[1].value))

----------------------------------------------------------------------------
(* A conformity credential names a standard, or misses a member on the way *)
(* to it; a binding is what it becomes.                                    *)
Credential == [standard : Standard \cup {None}, from : Instant \cup {None}]
Binding == [standard : Standard, effective : Instant \cup {None}]

(* A posted body: where the passport VC sits in it, whether the core mints *)
(* what it says, and the members that are read.                            *)
Body ==
    [shape : {"triad", "bare", "wrapped", "none"}, mints : BOOLEAN, ids : Seq(ProductId),
     from : Instant \cup {None}, standards : Seq(Standard), conformity : Seq(Credential)]

(* A passport as far as the projection reads it.  Stamps are the E14       *)
(* inspections of its log.                                                 *)
Passport ==
    [id : PassportId, product : Identity, from : Instant, profiles : Seq(Binding),
     stamps : Seq([standard : Standard, from : Instant])]

(* Every credential that names a standard binds it.                        *)
Named(conformity) == {n \in 1..Len(conformity) : conformity[n].standard # None}

ConformityBindings(conformity) ==
    Selected([n \in 1..Len(conformity) |->
                 [standard |-> conformity[n].standard, effective |-> conformity[n].from]],
             Named(conformity))

(* Profiles are rendered twice, as standards and, dated like the passport, *)
(* as credentials; the stamps join the credentials.                        *)
ConformityOf(p) ==
    [n \in 1..(Len(p.profiles) + Len(p.stamps)) |->
        IF n <= Len(p.profiles) THEN [standard |-> p.profiles[n].standard, from |-> p.from]
        ELSE p.stamps[n - Len(p.profiles)]]

RenderTriad(p) ==
    [shape |-> "triad", mints |-> TRUE,
     ids |-> <<[scheme |-> SchemeUri(p.product), value |-> UntpIdentifierValue(p.product)]>>,
     from |-> p.from,
     standards |-> [n \in 1..Len(p.profiles) |-> p.profiles[n].standard],
     conformity |-> ConformityOf(p)]

(* parse_stub, the port of the import that no route calls: it reads the    *)
(* stub's own standards, where ingest reads the credentials beside them.   *)
ParseStubOfCredentials(body) ==
    [subject |-> ParseIdentity(body.ids), profiles |-> ConformityBindings(body.conformity)]

ParseStub(body) ==
    [subject |-> ParseIdentity(body.ids),
     profiles |-> [n \in 1..Len(body.standards) |->
                     [standard |-> body.standards[n], effective |-> body.from]]]
=============================================================================
