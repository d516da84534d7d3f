-------------------------------- MODULE En18222 --------------------------------
(***************************************************************************)
(* The EN 18222 projection of a passport (en18222.rs): a header and four   *)
(* collections of leaves.  The full form lists the leaves and prints every *)
(* value; the compressed form keys them by their name and keeps the types. *)
(* The names of the leaves for profiles are the tails of the profile ids.  *)
(***************************************************************************)
EXTENDS Untp

CONSTANTS
    Slug,       \* slug_tail of a standard's id
    Status,     \* the replayed status
    Attester

ASSUME EnAssumption == "issued" \in Status /\ None \notin Status

(* A document: what both projections read of it.  A stamp is an attester's *)
(* word under a lens.                                                      *)
NoStamp == [lens |-> None]
Stamp == [lens : Standard, attester : Attester]
Event == [at : Instant, trust : 0..4, stamp : Stamp \cup {NoStamp}]

Core ==
    [id : PassportId, product : Identity, from : Instant, created : Instant, typed : BOOLEAN,
     status : Status, recalled : BOOLEAN, profiles : Seq(Binding), log : Seq(Event)]

----------------------------------------------------------------------------
StatusToken(status) == IF status = "issued" THEN "active" ELSE status

LastUpdated(c) == IF c.log = <<>> THEN c.created ELSE c.log[Len(c.log)].at

StrongestMarker(c) ==
    IF c.log = <<>> THEN 0
    ELSE CHOOSE m \in {c.log[n].trust : n \in 1..Len(c.log)} : \A n \in 1..Len(c.log) : c.log[n].trust <= m

(* A leaf has a name, the first part of which says what it is about, and a *)
(* value of one of three types.  What is copied from the document as it    *)
(* stands is named after its leaf.                                         *)
Leaf(name, type, value) == [name |-> name, type |-> type, value |-> value]
Copied(name) == Leaf(<<name>>, "string", name)

ProductInformation(c) ==
    (IF c.product.kind = "gs1" THEN <<Leaf(<<"GTIN">>, "string", c.product.key)>> ELSE <<>>)
        \o <<Leaf(<<"UniqueProductIdentifier">>, "string", Display(c.product)), Copied("PassportId")>>
        \o (IF c.typed THEN <<Copied("TypeRef")>> ELSE <<>>)
        \o <<Copied("CapabilityClass"), Copied("ResolverUri")>>

StateSafety(c) ==
    <<Leaf(<<"DppStatus">>, "string", StatusToken(c.status)),
      Leaf(<<"RecallActive">>, "boolean", c.recalled),
      Leaf(<<"LogHead">>, "string", Len(c.log)),
      Leaf(<<"LogHeight">>, "integer", Len(c.log)),
      Leaf(<<"TrustMarker">>, "string", StrongestMarker(c))>>

ProfileLeaf(p) == Leaf(<<"Profile", Slug[p.standard]>>, "string", p.standard)

StampLeafOfLens(seq, stamp) == Leaf(<<"Stamp", stamp.lens>>, "string", stamp)
StampLeaf(seq, stamp) == Leaf(<<"Stamp", seq>>, "string", stamp)

(* The places of the log that hold a stamp, in its order.                  *)
StampPlaces(c) == Selected([n \in 1..Len(c.log) |-> n], {n \in 1..Len(c.log) : c.log[n].stamp # NoStamp})

ConformityEvidence(c) ==
    LET places == StampPlaces(c)
        claims == [n \in 1..Len(c.profiles) |-> ProfileLeaf(c.profiles[n])]
                    \o [n \in 1..Len(places) |-> StampLeaf(places[n] - 1, c.log[places[n]].stamp)]
    IN IF claims = <<>> THEN <<Copied("NoClaims")>> ELSE claims

Documents(c) == <<Copied("LinkResolverUri"), Copied("UntpRender")>>

Collections(c) ==
    [c0 |-> ProductInformation(c), ca |-> StateSafety(c), cb |-> ConformityEvidence(c),
     cw |-> Documents(c)]

(* The compressed form has a map for each collection: of two leaves of one *)
(* name the later one stays.                                               *)
Flat(leaves) ==
    [name \in {leaves[n].name : n \in 1..Len(leaves)} |->
        LET last == CHOOSE n \in 1..Len(leaves) :
                      leaves[n].name = name /\ \A m \in (n + 1)..Len(leaves) : leaves[m].name # name
        IN <<leaves[last].type, leaves[last].value>>]

FullLeaf(leaf) == [name |-> leaf.name, type |-> leaf.type, value |-> <<"string", leaf.value>>]

UniqueProductIdentifier(c) ==
    IF c.product.kind = "gs1"
    THEN [form |-> "bare", key |-> c.product.key, lot |-> None, serial |-> None]
    ELSE Display(c.product)

ContentSpecificationIds(c) ==
    <<"EN 18223:2026">> \o [n \in 1..Len(c.profiles) |-> c.profiles[n].standard]

(* The header is the same in both forms but for the fraction of a second.  *)
RenderEn(c, form) ==
    [id |-> c.id, product |-> UniqueProductIdentifier(c), status |-> StatusToken(c.status),
     updated |-> LastUpdated(c), fraction |-> form = "compressed",
     specifications |-> ContentSpecificationIds(c),
     elements |-> [name \in DOMAIN Collections(c) |->
         IF form = "full"
         THEN [n \in 1..Len(Collections(c)[name]) |-> FullLeaf(Collections(c)[name][n])]
         ELSE Flat(Collections(c)[name])]]
=============================================================================
