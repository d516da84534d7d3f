--------------------------- MODULE RenderPagesProofs ---------------------------
(***************************************************************************)
(* Proofs about RenderPages: for every passport and every log, the views   *)
(* name the same profiles and the two forms of the EN page agree, and for  *)
(* every text the budget that is read is the one that is written.  A page  *)
(* is the answer to its request (PagesInv); the rest is about what the     *)
(* renders make of a document, list by list, and about what the parser of  *)
(* durations makes of a text, part by part.                                *)
(***************************************************************************)
EXTENDS RenderPages, SequenceFacts

(* The only answer a request can get.                                      *)
UntpAnswer(r) ==
    IF r.param # <<>> /\ DurationToMs(r.param) = NoBudget THEN BadRequest
    ELSE [status |-> "200", budget |-> <<RequiredFreshness(r.param)>>, triad |-> RenderTriad(Projected(r.core))]

EnAnswer(r) ==
    IF Representation(r.param) = "unknown" THEN BadRequest
    ELSE [status |-> "200", form |-> Representation(r.param), body |-> RenderEn(r.core, Representation(r.param))]

(* The page is the answer to the request, or is not there yet.             *)
PagesInv ==
    /\ request \in RequestType
    /\ \/ page = NoPage
       \/ request.route = "untp" /\ page = UntpAnswer(request)
       \/ request.route = "en18222" /\ page = EnAnswer(request)

(* api.rs:509-533, :536-558: what a route answers depends on its request   *)
(* alone, and a request is not changed by being answered.                  *)
THEOREM PagesSafety == PagesSpec => []PagesInv
<1>1. PagesInit => PagesInv
  BY RequestAssumption DEF PagesInit, PagesInv
<1>2. PagesInv /\ [PagesNext]_pageVars => PagesInv'
  <2> SUFFICES ASSUME PagesInv, [PagesNext]_pageVars PROVE PagesInv'
    OBVIOUS
  <2>1. CASE UntpPage
    BY <2>1 DEF UntpPage, PagesInv, UntpAnswer
  <2>2. CASE EnPage
    BY <2>2 DEF EnPage, PagesInv, EnAnswer
  <2>3. CASE UNCHANGED pageVars
    BY <2>3 DEF pageVars, PagesInv
  <2> QED
    BY <2>1, <2>2, <2>3 DEF PagesNext
<1> QED
  BY <1>1, <1>2, PTL DEF PagesSpec

----------------------------------------------------------------------------
(* The stamps of a log, in its order, each once.                           *)
LEMMA StampPlacesFacts ==
    ASSUME NEW c \in Core
    PROVE  LET places == StampPlaces(c)
           IN  /\ Len(places) \in Nat /\ Distinct(places)
               /\ \A n \in 1..Len(places) :
                      places[n] \in 1..Len(c.log) /\ c.log[places[n]] \in Event /\ c.log[places[n]].stamp \in Stamp
<1> DEFINE k == Len(c.log)
           entries == [n \in 1..k |-> n]
           stamped == {n \in 1..k : c.log[n].stamp # NoStamp}
           places == StampPlaces(c)
<1>1. k \in Nat /\ \A n \in 1..k : c.log[n] \in Event
  <2>1. c.log \in Seq(Event)
    BY DEF Core
  <2> QED
    BY <2>1, LenProperties, ElementOfSeq
<1>2. places = Selected(entries, stamped)
  BY DEF StampPlaces
<1> HIDE DEF k, places
<1>3. entries \in Seq(1..k) /\ Length(entries) = k /\ \A n \in 1..k : entries[n] = n
  BY <1>1 DEF Length
<1> HIDE DEF entries
<1>4. Distinct(places)
  <2>1. Distinct(entries)
    BY <1>3 DEF Distinct
  <2> HIDE DEF stamped
  <2> QED
    BY <1>2, <1>3, <2>1, SelectedDistinct
<1>5. places \in Seq(stamped)
  <2>1. \A n \in 1..Length(entries) : n \in stamped => entries[n] \in stamped
    BY <1>3
  <2> HIDE DEF stamped
  <2> QED
    BY <1>1, <1>2, <1>3, <2>1, SelectedType
<1>6. Len(places) \in Nat /\ \A n \in 1..Len(places) : places[n] \in stamped
  <2> HIDE DEF stamped
  <2> QED
    BY <1>5, LenProperties, ElementOfSeq
<1>7. ASSUME NEW m \in stamped PROVE m \in 1..k /\ c.log[m] \in Event /\ c.log[m].stamp \in Stamp
  BY <1>1, <1>7 DEF Event
<1> QED
  BY <1>4, <1>6, <1>7 DEF places, k

(* What the gateway writes of a subject, it reads back as that subject.    *)
LEMMA SubjectReadsBack ==
    ASSUME NEW p, p.product \in Identity
    PROVE  ParseIdentity(RenderTriad(p).ids) = p.product
<1> DEFINE i == p.product
           first == [scheme |-> SchemeUri(i), value |-> UntpIdentifierValue(i)]
           t == CoreIdentifierValue(SchemeToken(first.scheme), first.value)
<1>1. RenderTriad(p).ids = <<first>> /\ first.value # NoText /\ first.scheme # None
  BY UntpAssumption DEF RenderTriad, NoText, SchemeUri, UntpIdentifierValue, Display, Scheme
<1>2. ParseIdentity(<<first>>) = ParseDisplay(t)
  BY <1>1 DEF ParseIdentity
<1>3. CASE i.kind = "gs1"
  <2>1. i.key \in Gtin /\ i = [kind |-> "gs1", key |-> i.key, lot |-> i.lot, serial |-> i.serial]
    BY <1>3 DEF Identity
  <2>2. t = [form |-> "plus", key |-> i.key, lot |-> i.lot, serial |-> i.serial]
    BY <1>3 DEF CoreIdentifierValue, UntpIdentifierValue, Display
  <2> HIDE DEF i, t, first
  <2>3. ParseDisplay(t) = i
    BY <2>1, <2>2 DEF ParseDisplay
  <2> QED
    BY <1>1, <1>2, <2>3 DEF i
<1>4. CASE i.kind # "gs1"
  <2>1. i.key \in Urn /\ i = [kind |-> "cpid", key |-> i.key, lot |-> None, serial |-> None]
    BY <1>4 DEF Identity
  <2>2. SchemeToken(UnidppId) = "cpid"
    BY UntpAssumption DEF SchemeToken
  <2>3. t = [form |-> "cpid", key |-> i.key, lot |-> i.lot, serial |-> i.serial]
    BY <1>4, <2>2 DEF CoreIdentifierValue, UntpIdentifierValue, Display, SchemeUri
  <2> HIDE DEF i, t, first
  <2>4. ParseDisplay(t) = i
    BY <2>1, <2>3 DEF ParseDisplay
  <2> QED
    BY <1>1, <1>2, <2>4 DEF i
<1> QED
  BY <1>3, <1>4

(* The credentials that are rendered are bound one by one, the profiles    *)
(* first, then the stamps under their lenses.                              *)
LensesOf(c) == [n \in 1..Len(StampPlaces(c)) |-> c.log[StampPlaces(c)[n]].stamp.lens]

LEMMA ClaimsAreBound ==
    ASSUME NEW c \in Core
    PROVE  Names(ConformityBindings(ConformityOf(Projected(c)))) = Names(c.profiles) \o LensesOf(c)
<1> DEFINE k == Len(c.profiles)
           places == StampPlaces(c)
           m == Len(places)
           p == Projected(c)
           claims == ConformityOf(p)
           bound == [n \in 1..Len(claims) |-> [standard |-> claims[n].standard, effective |-> claims[n].from]]
           S == [standard : {claims[n].standard : n \in 1..Len(claims)}, effective : {claims[n].from : n \in 1..Len(claims)}]
<1>1. k \in Nat /\ \A n \in 1..k : c.profiles[n] \in Binding
  <2>1. c.profiles \in Seq(Binding)
    BY DEF Core
  <2> QED
    BY <2>1, LenProperties, ElementOfSeq
<1>2. m \in Nat /\ \A n \in 1..m : c.log[places[n]].stamp \in Stamp
  BY StampPlacesFacts
<1>3. /\ p.profiles = c.profiles
      /\ p.stamps = [n \in 1..m |-> [standard |-> c.log[places[n]].stamp.lens, from |-> c.log[places[n]].at]]
  BY DEF Projected
<1> HIDE DEF p, places, m, k
<1>4. /\ Len(p.stamps) = m
      /\ \A n \in 1..m : /\ p.stamps[n].standard \in Standard
                         /\ p.stamps[n].standard = c.log[places[n]].stamp.lens
  BY <1>2, <1>3 DEF Stamp
<1>5. claims = [n \in 1..(k + m) |-> IF n <= k THEN [standard |-> c.profiles[n].standard, from |-> p.from]
                                     ELSE p.stamps[n - k]]
  BY <1>3, <1>4 DEF ConformityOf, k
<1> HIDE DEF claims
<1>6. Len(claims) = k + m
  BY <1>1, <1>2, <1>5
<1>7. ASSUME NEW n \in 1..(k + m)
      PROVE  /\ claims[n].standard \in Standard
             /\ n <= k => claims[n].standard = c.profiles[n].standard
             /\ ~(n <= k) => n - k \in 1..m /\ claims[n].standard = c.log[places[n - k]].stamp.lens
  <2>1. CASE n <= k
    BY <1>1, <1>5, <2>1 DEF Binding
  <2>2. CASE ~(n <= k)
    <3>1. n - k \in 1..m
      BY <1>1, <1>2, <2>2
    <3> QED
      BY <1>4, <1>5, <2>2, <3>1
  <2> QED
    BY <2>1, <2>2
<1>8. \A n \in 1..(k + m) : n \in Named(claims)
  BY <1>6, <1>7, UntpAssumption DEF Named
<1>9. /\ k + m \in Nat /\ bound \in Seq(S) /\ Length(bound) = k + m
      /\ \A n \in 1..(k + m) : bound[n].standard = claims[n].standard
  BY <1>1, <1>2, <1>6 DEF Length
<1>10. ConformityBindings(claims) = Selected(bound, Named(claims))
  BY DEF ConformityBindings
<1> HIDE DEF bound, S
<1>11. ConformityBindings(claims) = bound
  BY <1>8, <1>9, <1>10, SelectedAll
<1> DEFINE names == Names(c.profiles)
           lenses == LensesOf(c)
           both == names \o lenses
           found == Names(ConformityBindings(claims))
<1>12. /\ names \in Seq(Standard) /\ Length(names) = k
       /\ \A n \in 1..k : names[n] = c.profiles[n].standard
  <2>1. names = [n \in 1..k |-> c.profiles[n].standard]
    BY DEF Names, k
  <2>2. \A n \in 1..k : c.profiles[n].standard \in Standard
    BY <1>1 DEF Binding
  <2> HIDE DEF names
  <2> QED
    BY <1>1, <2>1, <2>2 DEF Length
<1>13. /\ lenses \in Seq(Standard) /\ Length(lenses) = m
       /\ \A n \in 1..m : lenses[n] = c.log[places[n]].stamp.lens
  <2>1. lenses = [n \in 1..m |-> c.log[places[n]].stamp.lens]
    BY DEF LensesOf, m, places
  <2>2. \A n \in 1..m : c.log[places[n]].stamp.lens \in Standard
    BY <1>2 DEF Stamp
  <2> HIDE DEF lenses
  <2> QED
    BY <1>2, <2>1, <2>2 DEF Length
<1>14. /\ found \in Seq(Standard) /\ Length(found) = k + m
       /\ \A n \in 1..(k + m) : found[n] = claims[n].standard
  <2>1. found = [n \in 1..(k + m) |-> bound[n].standard]
    BY <1>9, <1>11 DEF Names, Length
  <2> HIDE DEF found
  <2> QED
    BY <1>7, <1>9, <2>1 DEF Length
<1> HIDE DEF names, lenses, found
<1>15. /\ both \in Seq(Standard) /\ Length(both) = k + m
       /\ \A n \in 1..k : both[n] = names[n]
       /\ \A n \in 1..m : both[k + n] = lenses[n]
  <2>1. Joined(both, names, lenses)
    BY Zenon DEF Joined
  <2> HIDE DEF both
  <2> QED
    BY <1>12, <1>13, <2>1, JoinedFacts
<1> HIDE DEF both
<1>16. ASSUME NEW n \in 1..(k + m) PROVE found[n] = both[n]
  <2>1. CASE n <= k
    BY <1>1, <1>7, <1>12, <1>14, <1>15, <2>1
  <2>2. CASE ~(n <= k)
    <3>1. n - k \in 1..m /\ claims[n].standard = c.log[places[n - k]].stamp.lens
      BY <1>7, <2>2
    <3>2. k + (n - k) = n
      BY <1>1, <1>2
    <3>3. both[n] = lenses[n - k]
      BY <1>15, <3>1, <3>2
    <3> QED
      BY <1>13, <1>14, <3>1, <3>3
  <2> QED
    BY <2>1, <2>2
<1>17. found = both
  BY <1>14, <1>15, <1>16, EqualFacts
<1> QED
  BY <1>17 DEF found, both, names, lenses, claims, p

----------------------------------------------------------------------------
(* The compressed form keeps the last of the leaves of a name.             *)
LEMMA FlatFacts ==
    ASSUME NEW leaves, Length(leaves) \in Nat, NEW n \in 1..Length(leaves)
    PROVE  \E last \in n..Length(leaves) :
               /\ leaves[last].name = leaves[n].name
               /\ Flat(leaves)[leaves[n].name] = <<leaves[last].type, leaves[last].value>>
<1> DEFINE k == Length(leaves)
           name == leaves[n].name
           IsLatest(i) == leaves[i].name = name /\ \A m \in (i + 1)..k : leaves[m].name # name
           last == CHOOSE i \in 1..k : IsLatest(i)
<1>0. k \in Nat
  OBVIOUS
<1>1. Flat(leaves) = [x \in {leaves[i].name : i \in 1..k} |->
                        LET latest == CHOOSE i \in 1..k :
                                leaves[i].name = x /\ \A m \in (i + 1)..k : leaves[m].name # x
                        IN <<leaves[latest].type, leaves[latest].value>>]
  BY Zenon DEF Flat, Length
<1>2. Flat(leaves)[name] = <<leaves[last].type, leaves[last].value>>
  BY <1>1
<1>3. \E i \in 1..k : IsLatest(i)
  <2> DEFINE after == {k - i : i \in {j \in 1..k : leaves[j].name = name}}
  <2> HIDE DEF k, name
  <2>1. after \in SUBSET Nat /\ k - n \in after
    BY DEF k, name
  <2>2. PICK a \in after : \A b \in after : a <= b
    BY <2>1, LeastNat
  <2>3. PICK i \in 1..k : leaves[i].name = name /\ a = k - i
    BY <2>2
  <2>4. ASSUME NEW m \in (i + 1)..k PROVE leaves[m].name # name
    <3>1. SUFFICES ASSUME leaves[m].name = name PROVE FALSE
      OBVIOUS
    <3>2. m \in 1..k /\ k - m \in after
      BY <3>1, <2>3
    <3>3. a <= k - m
      BY <2>2, <3>2
    <3> QED
      BY <1>0, <2>3, <3>3
  <2> QED
    BY <2>3, <2>4
<1>4. last \in 1..k /\ IsLatest(last)
  BY <1>3
<1> HIDE DEF last, k, name
<1>5. last >= n
  <2>1. ~(n \in (last + 1)..k)
    BY <1>4 DEF name
  <2> QED
    BY <1>4, <2>1 DEF k
<1>6. last \in n..k
  BY <1>4, <1>5 DEF k
<1> QED
  BY <1>2, <1>4, <1>6 DEF k, name

(* Leaves of S with names of its own each.                                 *)
Leaves(L, S, names) ==
    /\ L \in Seq(S)
    /\ \A n \in 1..Length(L) : L[n].name \in names
    /\ \A m, n \in 1..Length(L) : m # n => L[m].name # L[n].name

(* The compressed form says of such leaves what they say.                  *)
LEMMA AllKept ==
    ASSUME NEW L, NEW S, NEW names, Leaves(L, S, names)
    PROVE  Length(L) \in Nat /\ \A n \in 1..Length(L) : Flat(L)[L[n].name] = <<L[n].type, L[n].value>>
<1>1. Length(L) \in Nat
  BY LengthFacts DEF Leaves
<1>2. ASSUME NEW n \in 1..Length(L) PROVE Flat(L)[L[n].name] = <<L[n].type, L[n].value>>
  <2>1. PICK last \in n..Length(L) :
            L[last].name = L[n].name /\ Flat(L)[L[n].name] = <<L[last].type, L[last].value>>
    BY <1>1, FlatFacts
  <2>2. last \in 1..Length(L)
    BY <1>1
  <2>3. last = n
    BY <2>1, <2>2 DEF Leaves
  <2> QED
    BY <2>1, <2>3
<1> QED
  BY <1>1, <1>2

(* Lists of none, one and two of them.                                     *)
LEMMA LeavesOfTwo ==
    ASSUME NEW S, NEW a \in S, NEW b \in S, a.name # b.name
    PROVE  /\ Leaves(<<>>, S, {}) /\ Leaves(<<a>>, S, {a.name})
           /\ Leaves(<<a, b>>, S, {a.name, b.name})
<1>1. Leaves(<<>>, S, {})
  BY DEF Leaves, Length
<1>2. Leaves(<<a>>, S, {a.name})
  BY DEF Leaves, Length
<1>3. Leaves(<<a, b>>, S, {a.name, b.name})
  BY DEF Leaves, Length
<1> QED
  BY <1>1, <1>2, <1>3

(* Two such lists make one where they share no name.                       *)
LEMMA LeavesJoined ==
    ASSUME NEW S, NEW A, NEW B, NEW s, NEW t, NEW u,
           Leaves(s, S, A), Leaves(t, S, B), A \cap B = {}, Joined(u, s, t)
    PROVE  Leaves(u, S, A \cup B)
<1> DEFINE k == Length(s)
           m == Length(t)
<1>1. /\ u \in Seq(S) /\ Length(u) = k + m
      /\ \A i \in 1..k : u[i] = s[i]
      /\ \A i \in 1..m : u[k + i] = t[i]
  BY JoinedFacts DEF Leaves
<1>2. k \in Nat /\ m \in Nat
  BY LengthFacts DEF Leaves
<1>3. /\ \A i \in 1..k : s[i].name \in A
      /\ \A i \in 1..m : t[i].name \in B
      /\ \A i, j \in 1..k : i # j => s[i].name # s[j].name
      /\ \A i, j \in 1..m : i # j => t[i].name # t[j].name
  BY DEF Leaves
<1> HIDE DEF k, m
<1>4. ASSUME NEW i \in 1..(k + m)
      PROVE  \/ i \in 1..k /\ u[i].name = s[i].name /\ u[i].name \in A
             \/ i - k \in 1..m /\ u[i].name = t[i - k].name /\ u[i].name \in B
  <2>1. CASE i <= k
    BY <1>1, <1>2, <1>3, <2>1
  <2>2. CASE ~(i <= k)
    <3>1. i - k \in 1..m /\ k + (i - k) = i
      BY <1>2, <2>2
    <3>2. u[i] = t[i - k]
      BY <1>1, <3>1
    <3> QED
      BY <1>3, <3>1, <3>2
  <2> QED
    BY <2>1, <2>2
<1>5. ASSUME NEW i \in 1..(k + m), NEW j \in 1..(k + m), i # j
      PROVE  u[i].name # u[j].name
  <2>1. CASE i \in 1..k /\ j \in 1..k
    BY <1>1, <1>3, <1>5, <2>1
  <2>2. CASE i - k \in 1..m /\ j - k \in 1..m
    <3>1. i - k # j - k
      BY <1>2, <1>5
    <3>2. k + (i - k) = i /\ k + (j - k) = j
      BY <1>2
    <3>3. u[i] = t[i - k] /\ u[j] = t[j - k]
      BY <1>1, <2>2, <3>2
    <3> QED
      BY <1>3, <2>2, <3>1, <3>3
  <2>3. CASE (u[i].name \in A /\ u[j].name \in B) \/ (u[i].name \in B /\ u[j].name \in A)
    BY <2>3
  <2> QED
    BY <1>4, <2>1, <2>2, <2>3
<1>6. \A i \in 1..(k + m) : u[i].name \in A \cup B
  BY <1>4
<1> QED
  BY <1>1, <1>5, <1>6 DEF Leaves

(* en18222.rs:183-218: no two leaves of the product have one name, and one *)
(* of them is its whole identifier.                                        *)
LEMMA ProductInformationLeaves ==
    ASSUME NEW c
    PROVE  \E S, names :
               /\ Leaves(ProductInformation(c), S, names)
               /\ \E n \in 1..Length(ProductInformation(c)) :
                      ProductInformation(c)[n] = Leaf(<<"UniqueProductIdentifier">>, "string", Display(c.product))
<1> DEFINE gtin == Leaf(<<"GTIN">>, "string", c.product.key)
           unique == Leaf(<<"UniqueProductIdentifier">>, "string", Display(c.product))
           id == Copied("PassportId")
           type == Copied("TypeRef")
           class == Copied("CapabilityClass")
           uri == Copied("ResolverUri")
           S == {gtin, unique, id, type, class, uri}
           s == IF c.product.kind = "gs1" THEN <<gtin>> ELSE <<>>
           t == <<unique, id>>
           u == IF c.typed THEN <<type>> ELSE <<>>
           v == <<class, uri>>
           st == s \o t
           stu == st \o u
           all == stu \o v
           A == {gtin.name}
           B == {unique.name, id.name}
           C == {type.name}
           D == {class.name, uri.name}
<1>1. /\ gtin.name = <<"GTIN">> /\ unique.name = <<"UniqueProductIdentifier">> /\ id.name = <<"PassportId">>
      /\ type.name = <<"TypeRef">> /\ class.name = <<"CapabilityClass">> /\ uri.name = <<"ResolverUri">>
  BY DEF Leaf, Copied
<1>2. ProductInformation(c) = all
  BY Zenon DEF ProductInformation
<1>3. gtin \in S /\ unique \in S /\ id \in S /\ type \in S /\ class \in S /\ uri \in S
  OBVIOUS
<1> HIDE DEF gtin, unique, id, type, class, uri, S
<1>4. unique.name # id.name /\ class.name # uri.name /\ gtin.name # unique.name /\ type.name # class.name
  BY <1>1
<1>5. A \cap B = {} /\ (A \cup B) \cap C = {} /\ ((A \cup B) \cup C) \cap D = {}
  BY <1>1
<1>6. Leaves(s, S, A) /\ Leaves(t, S, B) /\ Leaves(u, S, C) /\ Leaves(v, S, D)
  <2>1. Leaves(<<>>, S, {}) /\ Leaves(<<gtin>>, S, {gtin.name}) /\ Leaves(<<unique, id>>, S, {unique.name, id.name})
    <3>1. Leaves(<<>>, S, {}) /\ Leaves(<<gtin>>, S, {gtin.name})
      BY <1>3, <1>4, LeavesOfTwo
    <3>2. Leaves(<<unique, id>>, S, {unique.name, id.name})
      BY <1>3, <1>4, LeavesOfTwo
    <3> QED
      BY <3>1, <3>2
  <2>2. Leaves(<<type>>, S, {type.name}) /\ Leaves(<<class, uri>>, S, {class.name, uri.name})
    <3>1. Leaves(<<type>>, S, {type.name})
      BY <1>3, <1>4, LeavesOfTwo
    <3>2. Leaves(<<class, uri>>, S, {class.name, uri.name})
      BY <1>3, <1>4, LeavesOfTwo
    <3> QED
      BY <3>1, <3>2
  <2>3. \A names : Leaves(<<>>, S, names)
    BY <2>1 DEF Leaves, Length
  <2> QED
    BY <2>1, <2>2, <2>3
<1> HIDE DEF s, t, u, v, A, B, C, D
<1>7. Joined(st, s, t) /\ Joined(stu, st, u) /\ Joined(all, stu, v)
  BY DEF Joined
<1> HIDE DEF st, stu, all
<1>8. Leaves(st, S, A \cup B)
  BY <1>5, <1>6, <1>7, LeavesJoined
<1>9. Leaves(stu, S, (A \cup B) \cup C)
  BY <1>5, <1>6, <1>7, <1>8, LeavesJoined
<1>10. Leaves(all, S, ((A \cup B) \cup C) \cup D)
  BY <1>5, <1>6, <1>7, <1>9, LeavesJoined
<1>11. \E n \in 1..Length(st) : st[n] = unique
  <2>1. t[1] = unique /\ Length(t) = 2
    BY DEF t, Length
  <2>2. Length(s) \in Nat
    BY <1>6, LengthFacts DEF Leaves
  <2>3. Length(st) = Length(s) + Length(t) /\ \A i \in 1..Length(t) : st[Length(s) + i] = t[i]
    BY <1>6, <1>7, JoinedFacts DEF Leaves
  <2>4. Length(s) + 1 \in 1..Length(st) /\ st[Length(s) + 1] = unique
    BY <2>1, <2>2, <2>3
  <2> QED
    BY <2>4
<1>12. \E n \in 1..Length(stu) : stu[n] = unique
  <2>1. /\ Length(st) \in Nat /\ Length(u) \in Nat /\ Length(stu) = Length(st) + Length(u)
        /\ \A i \in 1..Length(st) : stu[i] = st[i]
    BY <1>6, <1>7, <1>8, JoinedFacts, LengthFacts DEF Leaves
  <2> QED
    BY <1>11, <2>1
<1>13. \E n \in 1..Length(all) : all[n] = unique
  <2>1. /\ Length(stu) \in Nat /\ Length(v) \in Nat /\ Length(all) = Length(stu) + Length(v)
        /\ \A i \in 1..Length(stu) : all[i] = stu[i]
    BY <1>6, <1>7, <1>9, JoinedFacts, LengthFacts DEF Leaves
  <2> QED
    BY <1>12, <2>1
<1> QED
  BY <1>2, <1>10, <1>13 DEF unique

(* Nor have two of the state.                                              *)
LEMMA StateSafetyLeaves ==
    ASSUME NEW c
    PROVE  \E S, names : Leaves(StateSafety(c), S, names)
<1> DEFINE a == Leaf(<<"DppStatus">>, "string", StatusToken(c.status))
           b == Leaf(<<"RecallActive">>, "boolean", c.recalled)
           d == Leaf(<<"LogHead">>, "string", Len(c.log))
           e == Leaf(<<"LogHeight">>, "integer", Len(c.log))
           f == Leaf(<<"TrustMarker">>, "string", StrongestMarker(c))
           S == {a, b, d, e, f}
           names == {a.name, b.name, d.name, e.name, f.name}
<1>1. /\ a.name = <<"DppStatus">> /\ b.name = <<"RecallActive">> /\ d.name = <<"LogHead">>
      /\ e.name = <<"LogHeight">> /\ f.name = <<"TrustMarker">>
  BY DEF Leaf
<1>2. StateSafety(c) = <<a, b, d, e, f>>
  BY Zenon DEF StateSafety
<1> HIDE DEF a, b, d, e, f
<1>3. /\ a.name # b.name /\ a.name # d.name /\ a.name # e.name /\ a.name # f.name
      /\ b.name # d.name /\ b.name # e.name /\ b.name # f.name
      /\ d.name # e.name /\ d.name # f.name /\ e.name # f.name
  BY <1>1
<1>4. Leaves(<<a, b, d, e, f>>, S, names)
  BY <1>3 DEF Leaves, Length
<1> HIDE DEF S, names
<1> QED
  BY <1>2, <1>4

(* Nor have the two documents.                                             *)
LEMMA DocumentsLeaves ==
    ASSUME NEW c
    PROVE  \E S, names : Leaves(Documents(c), S, names)
<1> DEFINE a == Copied("LinkResolverUri")
           b == Copied("UntpRender")
           S == {a, b}
<1>1. a.name = <<"LinkResolverUri">> /\ b.name = <<"UntpRender">>
  BY DEF Copied, Leaf
<1>2. Documents(c) = <<a, b>>
  BY Zenon DEF Documents
<1> HIDE DEF a, b
<1>3. a.name # b.name
  BY <1>1
<1>4. Leaves(<<a, b>>, S, {a.name, b.name})
  BY <1>3, LeavesOfTwo
<1> HIDE DEF S
<1> QED
  BY <1>2, <1>4

(* The header of the EN page stands for the product, and the leaf for all  *)
(* of the subject.                                                         *)
LEMMA HeaderReadsBack ==
    ASSUME NEW c, c.product \in Identity
    PROVE  /\ ParseIdentity(<<[scheme |-> SchemeUri(c.product), value |-> UniqueProductIdentifier(c)]>>)
              = Unqualified(c.product)
           /\ ParseDisplay(Display(c.product)) = c.product
<1> DEFINE i == c.product
           first == [scheme |-> SchemeUri(i), value |-> UniqueProductIdentifier(c)]
           t == CoreIdentifierValue(SchemeToken(first.scheme), first.value)
<1>1. first.value # NoText /\ first.scheme # None
  BY UntpAssumption DEF NoText, SchemeUri, UniqueProductIdentifier, Display, Scheme
<1>2. ParseIdentity(<<first>>) = ParseDisplay(t)
  BY <1>1 DEF ParseIdentity
<1>3. CASE i.kind = "gs1"
  <2>1. i.key \in Gtin /\ i = [kind |-> "gs1", key |-> i.key, lot |-> i.lot, serial |-> i.serial]
    BY <1>3 DEF Identity
  <2>2. SchemeToken(Gs1Voc) = "gtin"
    BY UntpAssumption DEF SchemeToken
  <2>3. t = [form |-> "plus", key |-> i.key, lot |-> None, serial |-> None]
    BY <1>3, <2>2 DEF CoreIdentifierValue, UniqueProductIdentifier, SchemeUri
  <2>4. Display(i) = [form |-> "plus", key |-> i.key, lot |-> i.lot, serial |-> i.serial]
    BY <1>3 DEF Display
  <2> HIDE DEF i, t, first
  <2>5. ParseDisplay(t) = [kind |-> "gs1", key |-> i.key, lot |-> None, serial |-> None]
    BY <2>1, <2>3 DEF ParseDisplay
  <2>6. Unqualified(i) = [kind |-> "gs1", key |-> i.key, lot |-> None, serial |-> None]
    BY <2>1 DEF Unqualified
  <2>7. ParseDisplay(Display(i)) = i
    BY <2>1, <2>4 DEF ParseDisplay
  <2> QED
    BY <1>2, <2>5, <2>6, <2>7 DEF i, first
<1>4. CASE i.kind # "gs1"
  <2>1. i.key \in Urn /\ i = [kind |-> "cpid", key |-> i.key, lot |-> None, serial |-> None]
    BY <1>4 DEF Identity
  <2>2. SchemeToken(UnidppId) = "cpid"
    BY UntpAssumption DEF SchemeToken
  <2>3. t = [form |-> "cpid", key |-> i.key, lot |-> i.lot, serial |-> i.serial]
    BY <1>4, <2>2 DEF CoreIdentifierValue, UniqueProductIdentifier, Display, SchemeUri
  <2>4. Display(i) = [form |-> "cpid", key |-> i.key, lot |-> i.lot, serial |-> i.serial]
    BY <1>4 DEF Display
  <2> HIDE DEF i, t, first
  <2>5. ParseDisplay(t) = i /\ ParseDisplay(Display(i)) = i
    BY <2>1, <2>3, <2>4 DEF ParseDisplay
  <2>6. Unqualified(i) = i
    BY <2>1 DEF Unqualified
  <2> QED
    BY <1>2, <2>5, <2>6 DEF i, first
<1> QED
  BY <1>3, <1>4

(* The product's collection of either form has one leaf for the subject.   *)
LEMMA SubjectLeafFound ==
    ASSUME NEW c, NEW form \in {"full", "compressed"}
    PROVE  LeafValues(form, RenderEn(c, form).elements.c0, <<"UniqueProductIdentifier">>) = {Display(c.product)}
<1> DEFINE L == ProductInformation(c)
           k == Length(L)
           name == <<"UniqueProductIdentifier">>
           shown == Display(c.product)
           leaves == RenderEn(c, form).elements.c0
<1>1. PICK S, names : /\ Leaves(L, S, names)
                      /\ \E n \in 1..k : L[n] = Leaf(name, "string", shown)
  BY ProductInformationLeaves
<1>2. PICK n \in 1..k : L[n] = Leaf(name, "string", shown)
  BY <1>1
<1>3. L[n].name = name /\ L[n].type = "string" /\ L[n].value = shown
  BY <1>2 DEF Leaf
<1>4. leaves = IF form = "full" THEN [i \in 1..k |-> FullLeaf(L[i])] ELSE Flat(L)
  <2>1. DOMAIN Collections(c) = {"c0", "ca", "cb", "cw"} /\ Collections(c)["c0"] = L
    BY DEF Collections
  <2> HIDE DEF L
  <2>2. RenderEn(c, form).elements = [x \in DOMAIN Collections(c) |->
           IF form = "full" THEN [i \in 1..Len(Collections(c)[x]) |-> FullLeaf(Collections(c)[x][i])]
           ELSE Flat(Collections(c)[x])]
    BY DEF RenderEn
  <2> QED
    BY <2>1, <2>2 DEF Length
<1>5. k \in Nat /\ Flat(L)[L[n].name] = <<L[n].type, L[n].value>>
  BY <1>1, AllKept
<1>6. \A i \in 1..k : L[i].name = name => i = n
  BY <1>1, <1>3 DEF Leaves
<1> HIDE DEF L, k, name, shown, leaves
<1>7. CASE form = "full"
  <2>1. Len(leaves) = k /\ \A i \in 1..k : leaves[i] = FullLeaf(L[i])
    BY <1>4, <1>5, <1>7
  <2>2. \A i \in 1..k : leaves[i].name = L[i].name /\ leaves[i].value[2] = L[i].value
    BY <2>1 DEF FullLeaf
  <2>3. {i \in 1..Len(leaves) : leaves[i].name = name} = {n}
    BY <1>3, <1>6, <2>1, <2>2
  <2>4. LeafValues(form, leaves, name) = {leaves[i].value[2] : i \in {n}}
    BY <1>7, <2>3, Zenon DEF LeafValues
  <2> QED
    BY <1>3, <2>2, <2>4 DEF leaves, name, shown
<1>8. CASE form # "full"
  <2>1. leaves[name] = <<"string", shown>>
    BY <1>3, <1>4, <1>5, <1>8
  <2>2. LeafValues(form, leaves, name) = {leaves[name][2]}
    BY <1>8, Zenon DEF LeafValues
  <2> QED
    BY <2>1, <2>2 DEF leaves, name, shown
<1> QED
  BY <1>7, <1>8

(* untp.rs:125-207, :249-353; ingest.rs:201-288; en18222.rs:103-108,       *)
(* :128-135, :190-194: every view of a passport is about its subject, the  *)
(* EN header about its product, and names its profiles in their order, for *)
(* every passport; the credentials name the stamps' lenses after them.     *)
THEOREM EveryViewNamesTheProfiles == PagesSpec => []ViewsNameTheProfiles
<1>1. ASSUME PagesInv, Served("untp")
      PROVE  LET c == request.core
                 profiles == Names(c.profiles)
                 stub == ParseStub(page.triad)
             IN /\ ParseIdentity(page.triad.ids) = c.product /\ stub.subject = c.product
                /\ page.triad.standards = profiles /\ Names(stub.profiles) = profiles
                /\ Names(ConformityBindings(page.triad.conformity)) = profiles \o LensesOf(c)
  <2> DEFINE c == request.core
             k == Len(c.profiles)
             profiles == Names(c.profiles)
             triad == RenderTriad(Projected(c))
             stub == ParseStub(triad)
  <2>1. c \in Core /\ page.triad = triad
    BY <1>1 DEF PagesInv, Served, UntpAnswer, NoPage, BadRequest, RequestType
  <2>2. c.profiles \in Seq(Binding) /\ c.product \in Identity
    BY <2>1 DEF Core
  <2>3. k \in Nat /\ \A n \in 1..k : c.profiles[n].standard \in Standard
    <3>1. k \in Nat /\ \A n \in 1..k : c.profiles[n] \in Binding
      BY <2>2, LenProperties, ElementOfSeq
    <3> QED
      BY <3>1 DEF Binding
  <2>4. ParseIdentity(triad.ids) = c.product /\ stub.subject = c.product
    <3>1. Projected(c).product = c.product
      BY DEF Projected
    <3>2. ParseIdentity(triad.ids) = c.product
      BY <2>2, <3>1, SubjectReadsBack
    <3> QED
      BY <3>2 DEF ParseStub
  <2>5. /\ triad.standards = [n \in 1..k |-> c.profiles[n].standard]
        /\ triad.conformity = ConformityOf(Projected(c))
    BY DEF RenderTriad, Projected
  <2>6. profiles = [n \in 1..k |-> c.profiles[n].standard]
    BY DEF Names
  <2>7. Names(stub.profiles) = profiles
    <3>1. stub.profiles = [n \in 1..Len(triad.standards) |->
                             [standard |-> triad.standards[n], effective |-> triad.from]]
      BY DEF ParseStub
    <3> HIDE DEF stub, triad, k, profiles
    <3>2. Len(triad.standards) = k
      BY <2>3, <2>5
    <3>3. Len(stub.profiles) = k /\ \A n \in 1..k : stub.profiles[n].standard = c.profiles[n].standard
      BY <2>3, <2>5, <3>1, <3>2
    <3> QED
      BY <2>6, <3>3 DEF Names
  <2>8. Names(ConformityBindings(triad.conformity)) = profiles \o LensesOf(c)
    <3> HIDE DEF c, triad
    <3>1. Names(ConformityBindings(ConformityOf(Projected(c)))) = Names(c.profiles) \o LensesOf(c)
      BY <2>1, ClaimsAreBound
    <3> QED
      BY <2>5, <3>1, Zenon
  <2> QED
    BY <2>1, <2>4, <2>5, <2>6, <2>7, <2>8 DEF c, profiles, triad, stub, k
<1>2. ASSUME PagesInv, Served("en18222")
      PROVE  LET c == request.core
                 header == <<[scheme |-> SchemeUri(c.product), value |-> page.body.product]>>
                 subjects == LeafValues(page.form, page.body.elements.c0, <<"UniqueProductIdentifier">>)
             IN /\ ParseIdentity(header) = Unqualified(c.product)
                /\ {ParseDisplay(t) : t \in subjects} = {c.product}
                /\ Tail(page.body.specifications) = Names(c.profiles)
  <2> DEFINE c == request.core
             k == Len(c.profiles)
             names == Names(c.profiles)
             first == "EN 18223:2026"
             ids == <<first>> \o names
             S == Standard \cup {first}
  <2> DEFINE shape == Representation(request.param)
             body == RenderEn(c, shape)
  <2>1. c \in Core /\ page = EnAnswer(request) /\ page # BadRequest
    BY <1>2 DEF PagesInv, Served, NoPage, BadRequest, RequestType
  <2>8. page.form = shape /\ page.body = body /\ shape \in {"full", "compressed"}
    <3>1. shape # "unknown"
      BY <2>1 DEF EnAnswer
    <3>2. shape \in {"full", "compressed"}
      BY <3>1 DEF Representation
    <3> HIDE DEF shape, body
    <3> QED
      BY <2>1, <3>1, <3>2 DEF EnAnswer, shape, body
  <2>9. ParseIdentity(<<[scheme |-> SchemeUri(c.product), value |-> page.body.product]>>) = Unqualified(c.product)
    <3>1. c.product \in Identity
      BY <2>1 DEF Core
    <3>2. body.product = UniqueProductIdentifier(c)
      BY DEF RenderEn
    <3> HIDE DEF body, c
    <3> QED
      BY <2>8, <3>1, <3>2, HeaderReadsBack
  <2>10. {ParseDisplay(t) : t \in LeafValues(page.form, page.body.elements.c0, <<"UniqueProductIdentifier">>)}
         = {c.product}
    <3>1. c.product \in Identity
      BY <2>1 DEF Core
    <3> HIDE DEF c, shape
    <3>2. LeafValues(shape, body.elements.c0, <<"UniqueProductIdentifier">>) = {Display(c.product)}
      BY <2>8, SubjectLeafFound
    <3>3. ParseDisplay(Display(c.product)) = c.product
      BY <3>1, HeaderReadsBack
    <3> HIDE DEF body
    <3> QED
      BY <2>8, <3>2, <3>3
  <2> HIDE DEF shape, body
  <2>2. page.body.specifications = ids
    <3>1. page.body = RenderEn(c, Representation(request.param))
      BY <2>8 DEF shape, body
    <3>2. \A form : RenderEn(c, form).specifications = ContentSpecificationIds(c)
      BY DEF RenderEn
    <3>3. ContentSpecificationIds(c) = ids
      BY Zenon DEF ContentSpecificationIds, Names
    <3> QED
      BY <3>1, <3>2, <3>3, Zenon
  <2>3. k \in Nat /\ \A n \in 1..k : c.profiles[n] \in Binding
    <3>1. c.profiles \in Seq(Binding)
      BY <2>1 DEF Core
    <3> QED
      BY <3>1, LenProperties, ElementOfSeq
  <2>4. names \in Seq(S)
    <3>1. \A n \in 1..k : c.profiles[n].standard \in S
      BY <2>3 DEF Binding
    <3>2. names = [n \in 1..k |-> c.profiles[n].standard]
      BY DEF Names
    <3> HIDE DEF S, names, k
    <3> QED
      BY <2>3, <3>1, <3>2
  <2>5. first \in S
    OBVIOUS
  <2> HIDE DEF names, S, first, ids
  <2>6. ids = <<first>> \o names
    BY DEF ids
  <2>7. Tail(ids) = names
    BY <2>4, <2>5, <2>6, TailOfPrefixed
  <2> QED
    BY <2>2, <2>7, <2>9, <2>10 DEF names
<1>3. PagesInv => ViewsNameTheProfiles
  BY <1>1, <1>2, Zenon DEF ViewsNameTheProfiles, LensesOf
<1> QED
  BY <1>3, PagesSafety, PTL

(* Of the claims, only a profile may give way to another one: a stamp is   *)
(* named after its place in the log, and the places differ.                *)
LEMMA ConformityKept ==
    ASSUME NEW c \in Core, NEW L, L = ConformityEvidence(c)
    PROVE  /\ Length(L) \in Nat
           /\ \A n \in 1..Length(L) : \/ Flat(L)[L[n].name] = <<L[n].type, L[n].value>>
                                      \/ KeptBy(c, FullLeaf(L[n]))
<1> DEFINE k == Len(c.profiles)
           places == StampPlaces(c)
           m == Len(places)
           profiles == [n \in 1..k |-> ProfileLeaf(c.profiles[n])]
           stamps == [n \in 1..m |-> StampLeaf(places[n] - 1, c.log[places[n]].stamp)]
           claims == profiles \o stamps
           S == {ProfileLeaf(c.profiles[n]) : n \in 1..k}
                    \cup {StampLeaf(places[n] - 1, c.log[places[n]].stamp) : n \in 1..m}
<1>1. CASE claims = <<>>
  <2> DEFINE none == Copied("NoClaims")
             T == {none}
  <2>1. L = <<none>>
    BY <1>1, Zenon DEF ConformityEvidence
  <2>2. none.name # <<>>
    BY DEF Copied, Leaf
  <2> HIDE DEF none
  <2>3. Leaves(<<none>>, T, {none.name})
    BY DEF Leaves, Length
  <2> HIDE DEF T
  <2> QED
    BY <2>1, <2>3, AllKept
<1>2. CASE claims # <<>>
  <2>1. L = claims
    BY <1>2, Zenon DEF ConformityEvidence
  <2>2. k \in Nat
    <3>1. c.profiles \in Seq(Binding)
      BY DEF Core
    <3> QED
      BY <3>1, LenProperties
  <2>3. /\ m \in Nat /\ Distinct(places) /\ Length(places) = m
        /\ \A n \in 1..m : places[n] \in Nat
    <3>1. m \in Nat /\ Distinct(places) /\ \A n \in 1..m : places[n] \in 1..Len(c.log)
      BY StampPlacesFacts
    <3> HIDE DEF places
    <3> QED
      BY <3>1 DEF Length
  <2> HIDE DEF k, m, places
  <2>4. profiles \in Seq(S) /\ Length(profiles) = k /\ stamps \in Seq(S) /\ Length(stamps) = m
    <3>1. \A n \in 1..k : ProfileLeaf(c.profiles[n]) \in S
      OBVIOUS
    <3>2. \A n \in 1..m : StampLeaf(places[n] - 1, c.log[places[n]].stamp) \in S
      OBVIOUS
    <3> HIDE DEF S
    <3> QED
      BY <2>2, <2>3, <3>1, <3>2 DEF Length
  <2>5. \A n \in 1..k : profiles[n].name = <<"Profile", Slug[c.profiles[n].standard]>>
                        /\ profiles[n].value = c.profiles[n].standard
    BY DEF ProfileLeaf, Leaf
  <2>6. \A n \in 1..m : stamps[n].name = <<"Stamp", places[n] - 1>>
    BY DEF StampLeaf, Leaf
  <2>7. Joined(L, profiles, stamps)
    BY <2>1, Zenon DEF Joined
  <2> HIDE DEF profiles, stamps, S, claims
  <2>8. /\ Length(L) = k + m
        /\ \A i \in 1..k : L[i] = profiles[i]
        /\ \A i \in 1..m : L[k + i] = stamps[i]
    BY <2>4, <2>7, JoinedFacts
  <2>9. ASSUME NEW n \in 1..(k + m)
        PROVE  \/ Flat(L)[L[n].name] = <<L[n].type, L[n].value>>
               \/ KeptBy(c, FullLeaf(L[n]))
    <3>1. k + m \in Nat
      BY <2>2, <2>3
    <3>2. PICK last \in n..Length(L) :
              L[last].name = L[n].name /\ Flat(L)[L[n].name] = <<L[last].type, L[last].value>>
      <4>1. Length(L) \in Nat /\ n \in 1..Length(L)
        BY <2>8, <3>1
      <4> QED
        BY <4>1, FlatFacts
    <3>3. last \in 1..(k + m) /\ last >= n
      BY <2>8, <3>1, <3>2
    <3>4. CASE last = n
      BY <3>2, <3>4
    <3>5. CASE last # n /\ n <= k
      <4>1. n \in 1..k /\ L[n].name = <<"Profile", Slug[c.profiles[n].standard]>>
            /\ L[n].value = c.profiles[n].standard
        BY <2>2, <2>5, <2>8, <3>5
      <4>2. last <= k
        <5>1. SUFFICES ASSUME ~(last <= k) PROVE FALSE
          OBVIOUS
        <5>2. last - k \in 1..m /\ k + (last - k) = last
          BY <2>2, <2>3, <3>3, <5>1
        <5>3. L[last].name = <<"Stamp", places[last - k] - 1>>
          BY <2>6, <2>8, <5>2
        <5>4. L[last].name = <<"Profile", Slug[c.profiles[n].standard]>>
          BY <3>2, <4>1
        <5> QED
          BY <5>3, <5>4
      <4>3. last \in (n + 1)..k /\ last \in 1..k
        BY <2>2, <3>3, <3>5, <4>2
      <4>4. L[last].name = <<"Profile", Slug[c.profiles[last].standard]>>
        BY <2>5, <2>8, <4>3
      <4>5. Slug[c.profiles[last].standard] = Slug[c.profiles[n].standard]
        BY <3>2, <4>1, <4>4
      <4>6. FullLeaf(L[n]).name = L[n].name /\ FullLeaf(L[n]).value[2] = L[n].value
        BY DEF FullLeaf
      <4>7. KeptBy(c, FullLeaf(L[n]))
        BY <4>1, <4>3, <4>5, <4>6 DEF KeptBy, k
      <4> QED
        BY <4>7
    <3>6. CASE last # n /\ ~(n <= k)
      <4>1. /\ n - k \in 1..m /\ k + (n - k) = n /\ last - k \in 1..m /\ k + (last - k) = last
            /\ n - k # last - k
        BY <2>2, <2>3, <3>3, <3>6
      <4>2. L[n].name = <<"Stamp", places[n - k] - 1>> /\ L[last].name = <<"Stamp", places[last - k] - 1>>
        BY <2>6, <2>8, <4>1
      <4>3. places[n - k] - 1 = places[last - k] - 1
        BY <3>2, <4>2
      <4>4. places[n - k] = places[last - k]
        BY <2>3, <4>1, <4>3
      <4> QED
        BY <2>3, <4>1, <4>4 DEF Distinct
    <3> QED
      BY <3>4, <3>5, <3>6
  <2>10. k + m \in Nat
    BY <2>2, <2>3
  <2> QED
    BY <2>8, <2>9, <2>10
<1> QED
  BY <1>1, <1>2

(* en18222.rs:92-168, :256-268, :310-334: the two forms of a passport agree, *)
(* for every document: whatever its log and profiles, and however the tails  *)
(* of the profile ids coincide.                                             *)
THEOREM TheFormsAgree == PagesSpec => []EnFormsAgree
<1>1. ASSUME PagesInv, Served("en18222"), page.form = "compressed"
      PROVE  FormsAgree(RenderEn(request.core, "full"), page.body)
  <2> DEFINE c == request.core
             full == RenderEn(c, "full")
             compressed == RenderEn(c, "compressed")
             all == Collections(c)
  <2>1. c \in Core /\ page.body = compressed
    BY <1>1 DEF PagesInv, Served, EnAnswer, NoPage, BadRequest, RequestType
  <2>2. [full EXCEPT !.elements = {}] = [compressed EXCEPT !.elements = {}, !.fraction = FALSE]
    <3> DEFINE i == c.id
               p == UniqueProductIdentifier(c)
               s == StatusToken(c.status)
               u == LastUpdated(c)
               ids == ContentSpecificationIds(c)
               e == full.elements
               d == compressed.elements
    <3>1. full = [id |-> i, product |-> p, status |-> s, updated |-> u, fraction |-> FALSE,
                  specifications |-> ids, elements |-> e]
      BY DEF RenderEn
    <3>2. compressed = [id |-> i, product |-> p, status |-> s, updated |-> u, fraction |-> TRUE,
                        specifications |-> ids, elements |-> d]
      BY DEF RenderEn
    <3> HIDE DEF i, p, s, u, ids, e, d, full, compressed
    <3> DEFINE F == {"id", "product", "status", "updated", "fraction", "specifications", "elements"}
    <3>3. full = [x \in F |-> full[x]] /\ compressed = [x \in F |-> compressed[x]]
      BY <3>1, <3>2
    <3>4. full.fraction = FALSE /\ \A x \in F \ {"fraction", "elements"} : full[x] = compressed[x]
      BY <3>1, <3>2
    <3> HIDE DEF F
    <3>5. [full EXCEPT !.elements = {}] = [x \in F |-> IF x = "elements" THEN {} ELSE full[x]]
      BY <3>3
    <3>6. [compressed EXCEPT !.elements = {}, !.fraction = FALSE]
          = [x \in F |-> IF x = "fraction" THEN FALSE ELSE IF x = "elements" THEN {} ELSE compressed[x]]
      BY <3>3
    <3>7. \A x \in F : (IF x = "elements" THEN {} ELSE full[x])
                       = (IF x = "fraction" THEN FALSE ELSE IF x = "elements" THEN {} ELSE compressed[x])
      BY <3>4
    <3> QED
      BY <3>5, <3>6, <3>7
  <2>3. /\ full.elements = [name \in DOMAIN all |-> [n \in 1..Len(all[name]) |-> FullLeaf(all[name][n])]]
        /\ compressed.elements = [name \in DOMAIN all |-> Flat(all[name])]
    BY DEF RenderEn
  <2>4. /\ DOMAIN all = {"c0", "ca", "cb", "cw"}
        /\ all["c0"] = ProductInformation(c) /\ all["ca"] = StateSafety(c)
        /\ all["cb"] = ConformityEvidence(c) /\ all["cw"] = Documents(c)
    BY DEF Collections
  <2> HIDE DEF full, compressed, all
  <2>5. ASSUME NEW coll \in DOMAIN all
        PROVE  LET L == all[coll]
               IN  /\ Length(L) \in Nat
                   /\ \A n \in 1..Length(L) : \/ Flat(L)[L[n].name] = <<L[n].type, L[n].value>>
                                              \/ coll = "cb" /\ KeptBy(c, FullLeaf(L[n]))
    <3> HIDE DEF c
    <3>1. CASE coll = "cb"
      BY <2>1, <2>4, <3>1, ConformityKept
    <3>2. CASE coll # "cb"
      <4>1. \E S, names : Leaves(all[coll], S, names)
        <5>1. \E S, names : Leaves(ProductInformation(c), S, names)
          BY ProductInformationLeaves
        <5> QED
          BY <2>4, <3>2, <5>1, StateSafetyLeaves, DocumentsLeaves
      <4> QED
        BY <4>1, AllKept
    <3> QED
      BY <3>1, <3>2
  <2>6. ASSUME NEW coll \in DOMAIN all
        PROVE  LET leaves == full.elements[coll]
                   flat == compressed.elements[coll]
               IN /\ DOMAIN flat = {leaves[n].name : n \in 1..Len(leaves)}
                  /\ \A n \in 1..Len(leaves) :
                         \/ flat[leaves[n].name] = <<leaves[n].type, leaves[n].value[2]>>
                         \/ coll = "cb" /\ KeptBy(c, leaves[n])
    <3> DEFINE L == all[coll]
               k == Length(L)
               leaves == full.elements[coll]
               flat == compressed.elements[coll]
    <3>1. leaves = [n \in 1..k |-> FullLeaf(L[n])] /\ flat = Flat(L)
      BY <2>3 DEF Length
    <3>2. k \in Nat /\ \A n \in 1..k : \/ Flat(L)[L[n].name] = <<L[n].type, L[n].value>>
                                       \/ coll = "cb" /\ KeptBy(c, FullLeaf(L[n]))
      BY <2>5
    <3>3. DOMAIN Flat(L) = {L[n].name : n \in 1..k}
      BY DEF Flat, Length
    <3> HIDE DEF L, k, leaves, flat, c
    <3>4. Len(leaves) = k /\ \A n \in 1..k : leaves[n] = FullLeaf(L[n])
      BY <3>1, <3>2
    <3>5. \A n \in 1..k : /\ leaves[n].name = L[n].name /\ leaves[n].type = L[n].type
                          /\ leaves[n].value[2] = L[n].value
      BY <3>4 DEF FullLeaf
    <3>6. DOMAIN flat = {leaves[n].name : n \in 1..k}
      BY <3>1, <3>3, <3>5
    <3>7. \A n \in 1..k : \/ flat[leaves[n].name] = <<leaves[n].type, leaves[n].value[2]>>
                          \/ coll = "cb" /\ KeptBy(c, leaves[n])
      BY <3>1, <3>2, <3>4, <3>5
    <3> QED
      BY <3>4, <3>6, <3>7 DEF leaves, flat
  <2>7. DOMAIN full.elements = DOMAIN all /\ DOMAIN compressed.elements = DOMAIN all
    BY <2>3
  <2>8. FormsAgree(full, compressed)
    BY <2>2, <2>6, <2>7, Zenon DEF FormsAgree, c
  <2> QED
    BY <2>1, <2>8 DEF full
<1>2. PagesInv => EnFormsAgree
  BY <1>1 DEF EnFormsAgree
<1> QED
  BY <1>2, PagesSafety, PTL

----------------------------------------------------------------------------
(* A parameter is a text, of the characters that are read and of words   *)
(* that are read as a whole.                                               *)
Symbol == Char \cup {"full", "compressed"}
Texts == Seq(Symbol)

(* A number is a number.                                                   *)
LEMMA WholeIsNat ==
    ASSUME NEW n \in Texts, Digits(n)
    PROVE  Whole(n) \in Nat
<1> DEFINE k == Length(n)
           digit == [i \in Nat |-> IF i \in 1..k THEN Digit[n[i]] ELSE 0]
           step == [i \in Nat |-> [v \in Nat |-> 10 * v + digit[i]]]
<1>1. k \in Nat
  BY LengthFacts DEF Texts
<1>2. ASSUME NEW i \in 1..k PROVE Digit[n[i]] \in Nat
  <2>1. n[i] \in ToSet(n)
    <3>1. DOMAIN n = 1..k
      BY DEF Texts, Length
    <3> QED
      BY <3>1 DEF ToSet
  <2>2. n[i] \in {"0", "1"}
    BY <2>1 DEF Digits, Digit
  <2> QED
    BY <2>2 DEF Digit
<1>3. \A i \in Nat : digit[i] \in Nat
  BY <1>2
<1> HIDE DEF digit
<1>4. step \in StepsOn(Nat)
  BY <1>3 DEF StepsOn
<1> DEFINE zero == 0
<1> HIDE DEF step
<1>5. PICK f : Iterates(f, Nat, zero, step)
  <2>1. zero \in Nat
    OBVIOUS
  <2> HIDE DEF zero
  <2> QED
    BY <1>4, <2>1, RecursiveFunction
<1>6. f \in [Nat -> Nat] /\ f[0] = 0 /\ \A i \in 1..k : f[i] = 10 * f[i - 1] + Digit[n[i]]
  <2>1. f \in [Nat -> Nat] /\ f[0] = 0 /\ \A i \in Nat : i # 0 => f[i] = step[i][f[i - 1]]
    BY <1>5 DEF Iterates
  <2>2. ASSUME NEW i \in 1..k PROVE f[i] = 10 * f[i - 1] + Digit[n[i]]
    <3>1. i \in Nat /\ i # 0 /\ i - 1 \in Nat
      OBVIOUS
    <3>2. f[i - 1] \in Nat /\ f[i] = step[i][f[i - 1]]
      BY <2>1, <3>1
    <3> QED
      BY <3>1, <3>2 DEF step, digit
  <2> QED
    BY <2>1, <2>2
<1> DEFINE Solves(g) == g = [i \in 0..k |-> IF i = 0 THEN 0 ELSE 10 * g[i - 1] + Digit[n[i]]]
           chosen == CHOOSE g : Solves(g)
           h == [i \in 0..k |-> f[i]]
<1>7. Whole(n) = chosen[k]
  <2>1. Whole(n) = LET value[i \in 0..k] == IF i = 0 THEN 0 ELSE 10 * value[i - 1] + Digit[n[i]]
                   IN value[k]
    BY Zenon DEF Whole, Length
  <2> QED
    BY <2>1, Zenon
<1>8. Solves(h)
  <2>1. ASSUME NEW i \in 0..k PROVE f[i] = IF i = 0 THEN 0 ELSE 10 * h[i - 1] + Digit[n[i]]
    <3>1. CASE i = 0
      BY <1>6, <3>1
    <3>2. CASE i # 0
      <4>1. i \in 1..k /\ i - 1 \in 0..k
        BY <1>1, <3>2
      <4>2. h[i - 1] = f[i - 1]
        BY <4>1
      <4> HIDE DEF h, k
      <4> QED
        BY <1>6, <3>2, <4>1, <4>2
    <3> QED
      BY <3>1, <3>2
  <2> QED
    BY <2>1
<1> HIDE DEF h
<1>9. Solves(chosen)
  BY <1>8
<1> HIDE DEF chosen
<1> DEFINE Typed == {i \in Nat : i <= k => chosen[i] \in Nat}
<1>10. \A i \in Nat : i \in Typed
  <2>1. 0 \in Typed
    <3>1. 0 \in 0..k
      BY <1>1
    <3>2. chosen[0] = 0
      BY <1>9, <3>1
    <3> QED
      BY <3>2
  <2>2. ASSUME NEW i \in Nat, i \in Typed PROVE i + 1 \in Typed
    <3>1. SUFFICES ASSUME i + 1 <= k PROVE chosen[i + 1] \in Nat
      OBVIOUS
    <3>2. i + 1 \in 0..k /\ i + 1 \in 1..k /\ i + 1 # 0 /\ (i + 1) - 1 = i /\ chosen[i] \in Nat
      BY <1>1, <2>2, <3>1
    <3>3. chosen[i + 1] = 10 * chosen[i] + Digit[n[i + 1]]
      BY <1>9, <3>2
    <3> HIDE DEF Solves, k
    <3>4. Digit[n[i + 1]] \in Nat
      BY <1>2, <3>2
    <3> QED
      BY <3>2, <3>3, <3>4
  <2> HIDE DEF Typed
  <2> QED
    BY <2>1, <2>2, NatInductionOnSet
<1> QED
  BY <1>1, <1>7, <1>10

----------------------------------------------------------------------------
(* One text behind another, kept as it is.                                 *)
Cat(a, b) == a \o b

(* What stands where in it.                                                *)
LEMMA CatFacts ==
    ASSUME NEW a \in Texts, NEW b \in Texts
    PROVE  /\ Cat(a, b) \in Texts /\ Length(Cat(a, b)) = Length(a) + Length(b)
           /\ Length(a) \in Nat /\ Length(b) \in Nat
           /\ \A i \in 1..Length(a) : Cat(a, b)[i] = a[i]
           /\ \A i \in 1..Length(b) : Cat(a, b)[Length(a) + i] = b[i]
           /\ Cat(a, <<>>) = a /\ Cat(<<>>, a) = a
<1>1. Joined(Cat(a, b), a, b)
  BY Zenon DEF Joined, Cat
<1>2. /\ Cat(a, b) \in Texts /\ Length(Cat(a, b)) = Length(a) + Length(b)
      /\ \A i \in 1..Length(a) : Cat(a, b)[i] = a[i]
      /\ \A i \in 1..Length(b) : Cat(a, b)[Length(a) + i] = b[i]
  <2> DEFINE u == Cat(a, b)
  <2>1. Joined(u, a, b)
    BY <1>1
  <2> HIDE DEF u
  <2>2. /\ u \in Texts /\ Length(u) = Length(a) + Length(b)
        /\ \A i \in 1..Length(a) : u[i] = a[i]
        /\ \A i \in 1..Length(b) : u[Length(a) + i] = b[i]
    BY <2>1, JoinedFacts DEF Texts
  <2> QED
    BY <2>2 DEF u
<1>3. Length(a) \in Nat /\ Length(b) \in Nat
  BY LengthFacts DEF Texts
<1>4. a \o <<>> = a /\ <<>> \o a = a
  BY ConcatEmptySeq, Zenon DEF Texts
<1> QED
  BY <1>2, <1>3, <1>4, Zenon DEF Cat, Texts

(* The grouping does not matter.                                           *)
LEMMA CatAssociates ==
    ASSUME NEW a \in Texts, NEW b \in Texts, NEW c \in Texts
    PROVE  Cat(Cat(a, b), c) = Cat(a, Cat(b, c))
<1>1. (a \o b) \o c = a \o (b \o c)
  BY ConcatAssociative DEF Texts
<1> QED
  BY <1>1, Zenon DEF Cat

(* Four texts behind each other, grouped in other ways.                    *)
LEMMA CatSplit ==
    ASSUME NEW a \in Texts, NEW b \in Texts, NEW c \in Texts, NEW d \in Texts
    PROVE  Cat(Cat(Cat(a, b), c), d) = Cat(a, Cat(Cat(b, c), d))
<1> DEFINE ab == Cat(a, b)
           bc == Cat(b, c)
<1>1. ab \in Texts /\ bc \in Texts
  BY CatFacts
<1>2. Cat(ab, c) = Cat(a, bc)
  BY CatAssociates
<1> HIDE DEF ab, bc
<1>3. Cat(Cat(a, bc), d) = Cat(a, Cat(bc, d))
  BY <1>1, CatAssociates
<1> QED
  BY <1>2, <1>3, Zenon DEF ab, bc

(* Two and two of them.                                                    *)
LEMMA CatRegroup ==
    ASSUME NEW a \in Texts, NEW b \in Texts, NEW c \in Texts, NEW d \in Texts
    PROVE  Cat(a, Cat(Cat(b, c), d)) = Cat(Cat(a, b), Cat(c, d))
<1> DEFINE ab == Cat(a, b)
<1>1. ab \in Texts
  BY CatFacts
<1>2. Cat(Cat(ab, c), d) = Cat(a, Cat(Cat(b, c), d))
  BY CatSplit
<1> HIDE DEF ab
<1>3. Cat(Cat(ab, c), d) = Cat(ab, Cat(c, d))
  BY <1>1, CatAssociates
<1> QED
  BY <1>2, <1>3, Zenon DEF ab

(* A text of one character.                                                *)
LEMMA LetterFacts ==
    ASSUME NEW c \in Symbol
    PROVE  <<c>> \in Texts /\ Length(<<c>>) = 1 /\ <<c>>[1] = c /\ ToSet(<<c>>) = {c}
BY DEF Texts, Length, ToSet

(* The characters of a text.                                               *)
LEMMA MemberFacts ==
    ASSUME NEW a \in Texts
    PROVE  /\ ToSet(a) = {a[i] : i \in 1..Length(a)} /\ ToSet(a) \subseteq Symbol
           /\ Length(a) \in Nat /\ (Length(a) = 0 <=> a = <<>>) /\ <<>> \in Texts /\ ToSet(<<>>) = {}
<1>1. /\ Length(a) \in Nat /\ \A i \in 1..Length(a) : a[i] \in Symbol
      /\ (Length(a) = 0 <=> a = <<>>) /\ <<>> \in Texts
  BY LengthFacts, EmptyFacts DEF Texts
<1>2. DOMAIN a = 1..Length(a)
  BY DEF Texts, Length
<1>3. ToSet(<<>>) = {}
  BY DEF ToSet
<1> QED
  BY <1>1, <1>2, <1>3 DEF ToSet

(* The empty text has none.                                                *)
LEMMA EmptyText == <<>> \in Texts /\ ToSet(<<>>) = {}
<1>1. <<>> \in Texts
  BY EmptyFacts DEF Texts
<1> QED
  BY <1>1, MemberFacts

(* Two texts have the characters of both.                                  *)
LEMMA MembersJoined ==
    ASSUME NEW a \in Texts, NEW b \in Texts
    PROVE  ToSet(Cat(a, b)) = ToSet(a) \cup ToSet(b)
<1> DEFINE u == Cat(a, b)
           k == Length(a)
           m == Length(b)
<1>1. /\ u \in Texts /\ Length(u) = k + m /\ k \in Nat /\ m \in Nat
      /\ \A i \in 1..k : u[i] = a[i]
      /\ \A i \in 1..m : u[k + i] = b[i]
  BY CatFacts
<1>2. /\ ToSet(a) = {a[i] : i \in 1..k} /\ ToSet(b) = {b[i] : i \in 1..m}
  BY MemberFacts
<1> HIDE DEF u
<1>3. ToSet(u) = {u[i] : i \in 1..(k + m)}
  BY <1>1, MemberFacts
<1> HIDE DEF k, m
<1>4. ASSUME NEW i \in 1..(k + m) PROVE u[i] \in ToSet(a) \cup ToSet(b)
  <2>1. CASE i \in 1..k
    BY <1>1, <1>2, <2>1
  <2>2. CASE ~(i \in 1..k)
    <3>1. i - k \in 1..m /\ k + (i - k) = i
      BY <1>1, <2>2
    <3>2. u[i] = b[i - k]
      BY <1>1, <3>1
    <3> QED
      BY <1>2, <3>1, <3>2
  <2> QED
    BY <2>1, <2>2
<1>5. ASSUME NEW i \in 1..k PROVE a[i] \in ToSet(u)
  <2>1. i \in 1..(k + m) /\ u[i] = a[i]
    BY <1>1
  <2> QED
    BY <1>3, <2>1
<1>6. ASSUME NEW i \in 1..m PROVE b[i] \in ToSet(u)
  <2>1. k + i \in 1..(k + m) /\ u[k + i] = b[i]
    BY <1>1
  <2> QED
    BY <1>3, <2>1
<1> QED
  BY <1>2, <1>3, <1>4, <1>5, <1>6 DEF u

(* Two texts are one if they have the same characters at the same places.  *)
LEMMA SameText ==
    ASSUME NEW a \in Texts, NEW b \in Texts, Length(a) = Length(b), \A i \in 1..Length(b) : a[i] = b[i]
    PROVE  a = b
BY EqualFacts DEF Texts

(* Where a text falls apart at the first of a letter.                      *)
Parts(text, a, c, b) == text = Cat(Cat(a, <<c>>), b)

(* What stands where in its parts.                                         *)
LEMMA PartsFacts ==
    ASSUME NEW a \in Texts, NEW b \in Texts, NEW c \in Symbol, NEW text, Parts(text, a, c, b)
    PROVE  /\ text \in Texts /\ Length(text) = Length(a) + 1 + Length(b)
           /\ Length(a) \in Nat /\ Length(b) \in Nat
           /\ \A i \in 1..Length(a) : text[i] = a[i]
           /\ text[Length(a) + 1] = c
           /\ \A i \in 1..Length(b) : text[Length(a) + 1 + i] = b[i]
           /\ ToSet(text) = ToSet(a) \cup {c} \cup ToSet(b)
<1> DEFINE one == <<c>>
           ac == Cat(a, one)
<1>1. one \in Texts /\ Length(one) = 1 /\ one[1] = c /\ ToSet(one) = {c}
  BY LetterFacts
<1> HIDE DEF one
<1>2. /\ ac \in Texts /\ Length(ac) = Length(a) + Length(one) /\ Length(a) \in Nat
      /\ \A i \in 1..Length(a) : ac[i] = a[i]
      /\ \A i \in 1..Length(one) : ac[Length(a) + i] = one[i]
      /\ ToSet(ac) = ToSet(a) \cup ToSet(one)
  BY <1>1, CatFacts, MembersJoined
<1>3. text = Cat(ac, b)
  BY Zenon DEF Parts, one
<1> HIDE DEF ac
<1>4. /\ text \in Texts /\ Length(text) = Length(ac) + Length(b) /\ Length(b) \in Nat
      /\ \A i \in 1..Length(ac) : text[i] = ac[i]
      /\ \A i \in 1..Length(b) : text[Length(ac) + i] = b[i]
      /\ ToSet(text) = ToSet(ac) \cup ToSet(b)
  BY <1>2, <1>3, CatFacts, MembersJoined
<1>5. Length(ac) = Length(a) + 1 /\ ac[Length(a) + 1] = c
  BY <1>1, <1>2
<1>6. text[Length(a) + 1] = c
  BY <1>2, <1>4, <1>5
<1>7. \A i \in 1..Length(a) : text[i] = a[i]
  BY <1>2, <1>4, <1>5
<1> QED
  BY <1>1, <1>2, <1>4, <1>5, <1>6, <1>7

(* The first of a letter in a text that has one.                           *)
LEMMA FirstFacts ==
    ASSUME NEW text \in Texts, NEW c
    PROVE  IF c \in ToSet(text)
           THEN /\ First(text, c) \in 1..Length(text) /\ text[First(text, c)] = c
                /\ \A i \in 1..Length(text) : text[i] = c => First(text, c) <= i
           ELSE First(text, c) = 0
<1>1. CASE c \notin ToSet(text)
  BY <1>1 DEF First
<1>2. CASE c \in ToSet(text)
  <2> DEFINE places == {i \in 1..Length(text) : text[i] = c}
             least == CHOOSE i \in places : \A j \in places : i <= j
  <2>1. places \in SUBSET Nat /\ places # {}
    BY <1>2, MemberFacts
  <2>2. \E i \in places : \A j \in places : i <= j
    <3> HIDE DEF places
    <3> QED
      BY <2>1, LeastNat
  <2>3. First(text, c) = least
    <3>1. First(text, c) = Min(places)
      BY <1>2, Zenon DEF First, Length
    <3> HIDE DEF places
    <3> QED
      BY <3>1, Zenon DEF Min
  <2>4. least \in places /\ \A j \in places : least <= j
    BY <2>2
  <2> HIDE DEF least
  <2> QED
    BY <1>2, <2>3, <2>4
<1> QED
  BY <1>1, <1>2

(* A text with the letter falls apart there, into what Until and From say. *)
LEMMA FirstParts ==
    ASSUME NEW text \in Texts, NEW c \in ToSet(text)
    PROVE  LET a == Until(text, First(text, c))
               b == From(text, First(text, c))
           IN  /\ a \in Texts /\ b \in Texts /\ Parts(text, a, c, b) /\ c \notin ToSet(a)
               /\ First(text, c) = Length(a) + 1
<1> DEFINE k == Length(text)
           i == First(text, c)
           m == i - 1
           n == k - i
           a == Until(text, i)
           b == From(text, i)
           u == Cat(Cat(a, <<c>>), b)
           zero == 0
<1>1. k \in Nat /\ i \in 1..k /\ text[i] = c /\ \A j \in 1..k : text[j] = c => i <= j
  BY FirstFacts, MemberFacts
<1>2. m \in Nat /\ n \in Nat /\ zero \in Nat /\ zero + m <= k /\ i \in Nat /\ i + n <= k
  BY <1>1
<1>3. Stretch(a, text, zero, m) /\ Stretch(b, text, i, n)
  <2>1. zero + 1 = 1 /\ zero + m = i - 1 /\ i + n = k
    BY <1>1
  <2>2. a = SubSeq(text, zero + 1, zero + m)
    BY <2>1, Zenon DEF Until
  <2>3. b = SubSeq(text, i + 1, i + n)
    BY <2>1, Zenon DEF From, Length
  <2> QED
    BY <2>2, <2>3, Zenon DEF Stretch
<1>4. c \in Symbol
  BY MemberFacts
<1> HIDE DEF a, b, i, m, n, k, zero
<1>5. a \in Texts /\ Length(a) = m /\ \A j \in 1..m : a[j] = text[zero + j]
  BY <1>2, <1>3, StretchFacts DEF Texts, k
<1>6. b \in Texts /\ Length(b) = n /\ \A j \in 1..n : b[j] = text[i + j]
  BY <1>2, <1>3, StretchFacts DEF Texts, k
<1>7. Parts(u, a, c, b)
  BY Zenon DEF Parts
<1> HIDE DEF u
<1>8. /\ u \in Texts /\ Length(u) = m + 1 + n
      /\ \A j \in 1..m : u[j] = a[j]
      /\ u[m + 1] = c
      /\ \A j \in 1..n : u[m + 1 + j] = b[j]
  BY <1>4, <1>5, <1>6, <1>7, PartsFacts
<1>9. m + 1 = i /\ m + 1 + n = k /\ \A j \in 1..m : zero + j = j
  BY <1>1 DEF m, n, zero
<1>10. ASSUME NEW j \in 1..k PROVE u[j] = text[j]
  <2>1. CASE j \in 1..m
    BY <1>5, <1>8, <1>9, <2>1
  <2>2. CASE j = i
    BY <1>1, <1>8, <1>9, <2>2
  <2>3. CASE j > i
    <3>1. j - i \in 1..n /\ i + (j - i) = j
      BY <1>1, <1>2, <1>9, <2>3
    <3> QED
      BY <1>6, <1>8, <1>9, <3>1
  <2> QED
    BY <1>1, <1>2, <1>9, <2>1, <2>2, <2>3
<1>11. u = text
  BY <1>8, <1>9, <1>10, SameText DEF k
<1>12. c \notin ToSet(a)
  <2>1. ASSUME NEW j \in 1..m PROVE a[j] # c
    <3>1. j \in 1..k /\ ~(i <= j) /\ a[j] = text[j]
      BY <1>1, <1>2, <1>5, <1>9
    <3> QED
      BY <1>1, <3>1
  <2> QED
    BY <1>5, <2>1, MemberFacts
<1> QED
  BY <1>5, <1>6, <1>7, <1>9, <1>11, <1>12 DEF a, b, i

(* And nowhere else.                                                       *)
LEMMA PartsFirst ==
    ASSUME NEW a \in Texts, NEW b \in Texts, NEW c \in Symbol, NEW text, Parts(text, a, c, b), c \notin ToSet(a)
    PROVE  /\ text \in Texts /\ c \in ToSet(text) /\ First(text, c) = Length(a) + 1
           /\ Until(text, First(text, c)) = a /\ From(text, First(text, c)) = b
<1>1. /\ text \in Texts /\ Length(text) = Length(a) + 1 + Length(b)
      /\ Length(a) \in Nat /\ Length(b) \in Nat
      /\ \A i \in 1..Length(a) : text[i] = a[i]
      /\ text[Length(a) + 1] = c
      /\ \A i \in 1..Length(b) : text[Length(a) + 1 + i] = b[i]
      /\ ToSet(text) = ToSet(a) \cup {c} \cup ToSet(b)
  BY PartsFacts
<1> DEFINE i == First(text, c)
           d == Until(text, i)
           e == From(text, i)
<1>2. /\ i \in 1..Length(text) /\ text[i] = c /\ \A j \in 1..Length(text) : text[j] = c => i <= j
  BY <1>1, FirstFacts
<1>3. c \in ToSet(text)
  BY <1>1
<1>4. d \in Texts /\ e \in Texts /\ Parts(text, d, c, e) /\ i = Length(d) + 1
  BY <1>1, <1>3, FirstParts
<1>5. /\ Length(text) = Length(d) + 1 + Length(e)
      /\ Length(d) \in Nat /\ Length(e) \in Nat
      /\ \A j \in 1..Length(d) : text[j] = d[j]
      /\ \A j \in 1..Length(e) : text[Length(d) + 1 + j] = e[j]
  <2> HIDE DEF d, e
  <2> QED
    BY <1>4, PartsFacts
<1>6. i = Length(a) + 1
  <2>1. i <= Length(a) + 1
    BY <1>1, <1>2
  <2>2. ASSUME i \in 1..Length(a) PROVE FALSE
    <3>1. a[i] = c
      BY <1>1, <1>2, <2>2
    <3> QED
      BY <2>2, <3>1, MemberFacts
  <2> QED
    BY <1>1, <1>2, <2>1, <2>2
<1> HIDE DEF d, e, i
<1>7. Length(d) = Length(a) /\ Length(e) = Length(b)
  BY <1>1, <1>4, <1>5, <1>6
<1>8. d = a
  BY <1>1, <1>4, <1>5, <1>7, SameText
<1>9. e = b
  BY <1>1, <1>4, <1>5, <1>7, SameText
<1> QED
  BY <1>1, <1>3, <1>6, <1>8, <1>9 DEF d, e, i

----------------------------------------------------------------------------
(* All the numbers and all the decimals there are.                         *)
AllNumbers == {n \in Texts : n # <<>> /\ Digits(n)}
AllDecimals == {n \in Texts : ToSet(n) \subseteq DOMAIN Digit \cup {"."} /\ IsDecimal(n)}

(* The letters and the point are no digits.                                *)
LEMMA DigitFacts ==
    /\ DOMAIN Digit = {"0", "1"}
    /\ {"P", "D", "T", "H", "M", "S", "."} \subseteq Symbol \ DOMAIN Digit
    /\ DOMAIN Digit \subseteq Symbol
BY DEF Digit, Symbol, Char, Letter

(* A text and its last character.                                          *)
LEMMA LastFacts ==
    ASSUME NEW text \in Texts, text # <<>>
    PROVE  LET n == SubSeq(text, 1, Len(text) - 1)
               c == text[Len(text)]
           IN  n \in Texts /\ c \in Symbol /\ text = Cat(n, <<c>>)
<1> DEFINE k == Length(text)
           m == k - 1
           n == SubSeq(text, 1, Len(text) - 1)
           c == text[k]
           one == <<c>>
           u == Cat(n, one)
           zero == 0
<1>1. k \in Nat /\ k # 0
  BY MemberFacts
<1>2. c \in Symbol
  BY <1>1, LengthFacts DEF Texts
<1>3. one \in Texts /\ Length(one) = 1 /\ one[1] = c
  BY <1>2, LetterFacts
<1>4. m \in Nat /\ zero \in Nat /\ zero + m <= k
  BY <1>1
<1>5. Stretch(n, text, zero, m)
  <2>1. zero + 1 = 1 /\ zero + m = k - 1
    BY <1>1
  <2>2. n = SubSeq(text, zero + 1, zero + m)
    BY <2>1, Zenon DEF Length
  <2> QED
    BY <2>2, Zenon DEF Stretch
<1> HIDE DEF n, m, one, zero
<1>6. n \in Texts /\ Length(n) = m /\ \A j \in 1..m : n[j] = text[zero + j]
  BY <1>4, <1>5, StretchFacts DEF Texts
<1>7. /\ u \in Texts /\ Length(u) = Length(n) + Length(one)
      /\ \A i \in 1..Length(n) : u[i] = n[i]
      /\ \A i \in 1..Length(one) : u[Length(n) + i] = one[i]
  BY <1>3, <1>6, CatFacts
<1> HIDE DEF u, k
<1>8. m + 1 = k /\ \A j \in 1..m : zero + j = j
  BY <1>1 DEF m, zero
<1>9. Length(u) = k /\ \A j \in 1..m : u[j] = text[j]
  BY <1>3, <1>6, <1>7, <1>8
<1>10. u[k] = text[k]
  <2>1. 1 \in 1..Length(one)
    BY <1>3
  <2>2. u[m + 1] = c
    BY <1>3, <1>6, <1>7, <2>1
  <2> QED
    BY <1>8, <2>2
<1>11. \A j \in 1..k : u[j] = text[j]
  BY <1>1, <1>4, <1>8, <1>9, <1>10
<1>12. u = text
  BY <1>7, <1>9, <1>11, SameText DEF k
<1> QED
  BY <1>2, <1>6, <1>12, Zenon DEF n, u, one, k, Length

(* And a text that is put together so.                                     *)
LEMMA LastWritten ==
    ASSUME NEW n \in Texts, NEW c \in Symbol, NEW text, text = Cat(n, <<c>>)
    PROVE  /\ text \in Texts /\ text # <<>> /\ SubSeq(text, 1, Len(text) - 1) = n /\ text[Len(text)] = c
           /\ ToSet(text) = ToSet(n) \cup {c} /\ Length(text) = Length(n) + 1
           /\ c \notin ToSet(n) => First(text, c) = Len(text)
<1> DEFINE none == <<>>
<1>1. none \in Texts /\ Length(none) = 0 /\ ToSet(none) = {}
  BY MemberFacts
<1>2. Parts(text, n, c, none)
  <2>1. <<c>> \in Texts
    BY LetterFacts
  <2>2. Cat(n, <<c>>) \in Texts
    BY <2>1, CatFacts
  <2>3. Cat(Cat(n, <<c>>), <<>>) = Cat(n, <<c>>)
    <3> DEFINE nc == Cat(n, <<c>>)
    <3> HIDE DEF nc
    <3>1. nc \in Texts
      BY <2>2 DEF nc
    <3>2. Cat(nc, <<>>) = nc
      BY <3>1, CatFacts
    <3> QED
      BY <3>2 DEF nc
  <2> QED
    BY <2>3, Zenon DEF Parts
<1> HIDE DEF none
<1>3. /\ text \in Texts /\ Length(text) = Length(n) + 1 + Length(none)
      /\ Length(n) \in Nat
      /\ \A i \in 1..Length(n) : text[i] = n[i]
      /\ text[Length(n) + 1] = c
      /\ ToSet(text) = ToSet(n) \cup {c} \cup ToSet(none)
  BY <1>1, <1>2, PartsFacts
<1>4. Length(text) = Length(n) + 1 /\ text[Length(text)] = c /\ ToSet(text) = ToSet(n) \cup {c}
  BY <1>1, <1>3
<1>5. text # <<>>
  <2>1. Length(text) # 0
    BY <1>3, <1>4
  <2> QED
    BY <1>3, <2>1, MemberFacts
<1> DEFINE d == SubSeq(text, 1, Len(text) - 1)
           e == text[Len(text)]
           k == Length(n)
<1>6. e = c
  BY <1>4 DEF Length
<1>7. d \in Texts /\ text = Cat(d, <<c>>)
  <2>1. d \in Texts /\ text = Cat(d, <<e>>)
    BY <1>3, <1>5, LastFacts
  <2> QED
    BY <1>6, <2>1
<1>8. <<c>> \in Texts /\ Length(<<c>>) = 1
  BY LetterFacts
<1> DEFINE one == <<c>>
<1> HIDE DEF d, one
<1>9. /\ Length(text) = Length(d) + Length(one) /\ Length(d) \in Nat
      /\ \A i \in 1..Length(d) : text[i] = d[i]
  <2>1. one \in Texts /\ text = Cat(d, one)
    BY <1>7, <1>8 DEF one
  <2>2. d \in Texts
    BY <1>7
  <2>3. /\ Length(Cat(d, one)) = Length(d) + Length(one) /\ Length(d) \in Nat
        /\ \A i \in 1..Length(d) : Cat(d, one)[i] = d[i]
    BY <2>1, <2>2, CatFacts
  <2> QED
    BY <2>1, <2>3, Zenon
<1>10. Length(d) = Length(n)
  BY <1>3, <1>4, <1>8, <1>9 DEF one
<1>11. d = n
  BY <1>3, <1>7, <1>9, <1>10, SameText
<1>12. ASSUME c \notin ToSet(n) PROVE First(text, c) = Len(text)
  <2>1. First(text, c) = Length(n) + 1
    BY <1>1, <1>2, <1>12, PartsFirst
  <2>2. First(text, c) = Length(text)
    BY <1>4, <2>1
  <2> QED
    BY <2>2, Zenon DEF Length
<1> QED
  BY <1>3, <1>4, <1>5, <1>6, <1>11, <1>12 DEF d, e

----------------------------------------------------------------------------
(* A part is what it says it is, and has the characters of its kind.       *)
LEMMA PartFacts ==
    ASSUME NEW c \in Symbol, NEW unit \in Nat, NEW p \in Part(AllNumbers \cup {<<>>}, c, unit)
    PROVE  /\ p = <<p[1], p[2]>> /\ p[1] \in Texts /\ p[2] \in Nat
           /\ ToSet(p[1]) \subseteq DOMAIN Digit \cup {c}
           /\ \/ p[1] = <<>> /\ p[2] = 0
              \/ \E n \in Texts : Digits(n) /\ p[1] = Cat(n, <<c>>) /\ p[2] = Whole(n) * unit
<1>1. CASE p = <<<<>>, 0>>
  <2> DEFINE none == <<>>
  <2>1. none \in Texts /\ ToSet(none) = {}
    BY EmptyText
  <2> HIDE DEF none
  <2>2. p = <<none, 0>>
    BY <1>1 DEF none
  <2>3. p[1] = none /\ p[2] = 0
    BY <2>2
  <2> QED
    BY <2>1, <2>2, <2>3 DEF none
<1>2. CASE p # <<<<>>, 0>>
  <2>1. PICK n \in AllNumbers \cup {<<>>} : p = <<Cat(n, <<c>>), Whole(n) * unit>>
    BY <1>2, Zenon DEF Part, Cat
  <2>2. n \in Texts /\ Digits(n)
    <3>1. CASE n = <<>>
      BY <3>1, EmptyText DEF Digits
    <3>2. CASE n \in AllNumbers
      BY <3>2 DEF AllNumbers
    <3> QED
      BY <2>1, <3>1, <3>2
  <2> DEFINE t == Cat(n, <<c>>)
             v == Whole(n)
  <2>3. t \in Texts /\ ToSet(t) = ToSet(n) \cup {c}
    BY <2>2, LastWritten
  <2>4. v \in Nat
    BY <2>2, WholeIsNat
  <2> HIDE DEF t, v
  <2>5. p = <<t, v * unit>>
    BY <2>1 DEF t, v
  <2>6. p[1] = t /\ p[2] = v * unit /\ v * unit \in Nat
    BY <2>4, <2>5
  <2> QED
    BY <2>2, <2>3, <2>5, <2>6 DEF t, v, Digits
<1> QED
  BY <1>1, <1>2

(* Take takes a part, or nothing.                                          *)
LEMMA TakeReads ==
    ASSUME NEW rest \in Texts, NEW sum \in Nat, NEW c \in Symbol, NEW unit \in Nat
    PROVE  \E p \in Part(AllNumbers, c, unit), r \in Texts :
               rest = Cat(p[1], r) /\ Take(Unread(sum, rest), c, unit) = Unread(sum + p[2], r)
<1> DEFINE i == First(rest, c)
           n == Until(rest, i)
           r == From(rest, i)
           unread == Unread(sum, rest)
<1>0. unread.rest = rest /\ unread.sum = sum
  BY DEF Unread
<1>1. CASE i > 1 /\ Digits(n)
  <2>1. c \in ToSet(rest)
    BY <1>1, FirstFacts
  <2>2. n \in Texts /\ r \in Texts /\ Parts(rest, n, c, r) /\ i = Length(n) + 1
    BY <2>1, FirstParts
  <2>3. Take(unread, c, unit) = Unread(sum + Whole(n) * unit, r)
    <3> HIDE DEF unread
    <3> QED
      BY <1>0, <1>1, Zenon DEF Take
  <2> HIDE DEF n, r, i, unread
  <2>4. n # <<>>
    <3>1. Length(n) # 0
      BY <1>1, <2>2, MemberFacts
    <3> QED
      BY <2>2, <3>1, MemberFacts
  <2>5. n \in AllNumbers
    BY <1>1, <2>2, <2>4 DEF AllNumbers
  <2> DEFINE t == Cat(n, <<c>>)
             v == Whole(n) * unit
             p == <<t, v>>
  <2>6. p \in Part(AllNumbers, c, unit)
    BY <2>5, Zenon DEF Part, Cat
  <2>7. rest = Cat(t, r)
    BY <2>2, Zenon DEF Parts
  <2> HIDE DEF t, v
  <2>8. p[1] = t /\ p[2] = v
    OBVIOUS
  <2> HIDE DEF p
  <2>9. rest = Cat(p[1], r) /\ Take(unread, c, unit) = Unread(sum + p[2], r)
    BY <2>3, <2>7, <2>8, Zenon DEF v
  <2> QED
    BY <2>2, <2>6, <2>9 DEF unread
<1>2. CASE ~(i > 1 /\ Digits(n))
  <2>1. Take(unread, c, unit) = unread
    <3> HIDE DEF unread
    <3> QED
      BY <1>0, <1>2, Zenon DEF Take
  <2> DEFINE none == <<>>
             zero == 0
             p == <<none, zero>>
  <2>2. p \in Part(AllNumbers, c, unit)
    BY Zenon DEF Part
  <2>3. sum + zero = sum
    OBVIOUS
  <2>4. Cat(none, rest) = rest
    BY CatFacts
  <2> HIDE DEF none, zero
  <2>5. p[1] = none /\ p[2] = zero
    OBVIOUS
  <2> HIDE DEF p
  <2>6. rest = Cat(p[1], rest) /\ Take(unread, c, unit) = Unread(sum + p[2], rest)
    BY <2>1, <2>3, <2>4, <2>5, Zenon
  <2> QED
    BY <2>2, <2>6
<1> QED
  BY <1>1, <1>2

(* And it takes the part that is written.                                  *)
LEMMA TakeWritten ==
    ASSUME NEW r \in Texts, NEW sum \in Nat, NEW c \in Symbol \ DOMAIN Digit, NEW unit \in Nat,
           NEW p \in Part(AllNumbers, c, unit), c \notin ToSet(r)
    PROVE  Take(Unread(sum, Cat(p[1], r)), c, unit) = Unread(sum + p[2], r)
<1> DEFINE rest == Cat(p[1], r)
           unread == Unread(sum, rest)
           i == First(rest, c)
<1>1. unread.rest = rest /\ unread.sum = sum
  BY DEF Unread
<1>2. CASE p = <<<<>>, 0>>
  <2>1. p[1] = <<>> /\ p[2] = 0
    BY <1>2
  <2>2. rest = r
    BY <2>1, CatFacts
  <2>3. i = 0
    BY <2>2, FirstFacts
  <2>4. Take(unread, c, unit) = unread
    <3> HIDE DEF unread, i
    <3>1. ~(i > 1)
      BY <2>3
    <3> QED
      BY <1>1, <3>1, Zenon DEF Take, i
  <2>5. sum + p[2] = sum
    BY <2>1
  <2> QED
    BY <2>2, <2>4, <2>5, Zenon
<1>3. CASE p # <<<<>>, 0>>
  <2>1. PICK n \in AllNumbers : p = <<Cat(n, <<c>>), Whole(n) * unit>>
    BY <1>3, Zenon DEF Part, Cat
  <2>2. n \in Texts /\ n # <<>> /\ Digits(n) /\ c \notin ToSet(n)
    BY <2>1 DEF AllNumbers, Digits
  <2> DEFINE t == Cat(n, <<c>>)
             v == Whole(n) * unit
  <2>3. Parts(Cat(t, r), n, c, r)
    BY Zenon DEF Parts
  <2>4. First(Cat(t, r), c) = Length(n) + 1 /\ Until(Cat(t, r), First(Cat(t, r), c)) = n
        /\ From(Cat(t, r), First(Cat(t, r), c)) = r
    <3> DEFINE w == Cat(t, r)
    <3>1. Parts(w, n, c, r)
      BY <2>3
    <3> HIDE DEF w
    <3>2. First(w, c) = Length(n) + 1 /\ Until(w, First(w, c)) = n /\ From(w, First(w, c)) = r
      BY <2>2, <3>1, PartsFirst
    <3> QED
      BY <3>2 DEF w
  <2> HIDE DEF t, v
  <2>5. p = <<t, v>>
    BY <2>1 DEF t, v
  <2>6. p[1] = t /\ p[2] = v
    BY <2>5
  <2>7. i = Length(n) + 1 /\ Until(rest, i) = n /\ From(rest, i) = r
    BY <2>4, <2>6, Zenon
  <2>8. i > 1
    <3>1. Length(n) \in Nat /\ Length(n) # 0
      BY <2>2, MemberFacts
    <3> HIDE DEF i
    <3> QED
      BY <2>7, <3>1
  <2>9. Take(unread, c, unit) = Unread(sum + v, r)
    <3> HIDE DEF unread, rest, i
    <3> QED
      BY <1>1, <2>2, <2>7, <2>8, Zenon DEF Take, v, i
  <2> QED
    BY <2>6, <2>9, Zenon
<1> QED
  BY <1>2, <1>3

----------------------------------------------------------------------------
(* The seconds of a duration.                                              *)
SecondsPart == {<<<<>>, 0>>} \cup {<<n \o <<"S">>, Decimal(n)>> : n \in AllDecimals}

(* A decimal is a number.                                                  *)
LEMMA DecimalIsNat ==
    ASSUME NEW n \in AllDecimals
    PROVE  Decimal(n) \in Nat
<1> DEFINE point == First(n, ".")
           zeros == <<"0", "0">>
           Places == IF point = 0 THEN <<>> ELSE From(n, point)
           Units == IF point = 0 THEN n ELSE Until(n, point)
           padded == Cat(Places, zeros)
           cents == SubSeq(padded, 1, 2)
<1>1. n \in Texts /\ ToSet(n) \subseteq DOMAIN Digit \cup {"."}
      /\ \A i, j \in 1..Length(n) : (n[i] = "." /\ n[j] = ".") => i = j
  BY DEF AllDecimals, IsDecimal, Length
<1>2. Decimal(n) = 100 * Whole(Units) + Whole(cents)
  BY Zenon DEF Decimal, Cat
<1>3. Units \in Texts /\ Digits(Units) /\ Places \in Texts /\ Digits(Places)
  <2>1. CASE "." \notin ToSet(n)
    <3>1. point = 0
      BY <1>1, <2>1, FirstFacts
    <3>2. Digits(n) /\ Digits(<<>>) /\ <<>> \in Texts
      BY <1>1, <2>1, EmptyText DEF Digits
    <3>3. Units = n /\ Places = <<>>
      BY <3>1, Zenon
    <3> QED
      BY <1>1, <3>2, <3>3, Zenon
  <2>2. CASE "." \in ToSet(n)
    <3> DEFINE a == Until(n, point)
               b == From(n, point)
    <3>1. point \in 1..Length(n)
      BY <1>1, <2>2, FirstFacts
    <3>2. a \in Texts /\ b \in Texts /\ Parts(n, a, ".", b) /\ "." \notin ToSet(a)
      BY <1>1, <2>2, FirstParts
    <3>3. Units = a /\ Places = b
      BY <3>1
    <3> HIDE DEF a, b, point, Units, Places
    <3>4. /\ Length(n) = Length(a) + 1 + Length(b) /\ Length(a) \in Nat /\ Length(b) \in Nat
          /\ n[Length(a) + 1] = "."
          /\ \A i \in 1..Length(b) : n[Length(a) + 1 + i] = b[i]
          /\ ToSet(n) = ToSet(a) \cup {"."} \cup ToSet(b)
      BY <3>2, DigitFacts, PartsFacts
    <3>5. "." \notin ToSet(b)
      <4>1. ASSUME NEW i \in 1..Length(b) PROVE b[i] # "."
        <5>1. Length(a) + 1 + i \in 1..Length(n) /\ Length(a) + 1 \in 1..Length(n)
              /\ Length(a) + 1 + i # Length(a) + 1
          BY <3>4
        <5> QED
          BY <1>1, <3>4, <5>1
      <4> QED
        BY <3>2, <4>1, MemberFacts
    <3>6. Digits(a) /\ Digits(b)
      BY <1>1, <3>2, <3>4, <3>5 DEF Digits
    <3> QED
      BY <3>2, <3>3, <3>6
  <2> QED
    BY <2>1, <2>2
<1> HIDE DEF Units, Places
<1>4. zeros \in Texts /\ Length(zeros) = 2 /\ ToSet(zeros) = {"0"}
  BY DEF Texts, Symbol, Char, Digit, Length, ToSet
<1> HIDE DEF zeros
<1>5. /\ padded \in Texts /\ Length(padded) = Length(Places) + Length(zeros) /\ Length(Places) \in Nat
      /\ ToSet(padded) = ToSet(Places) \cup ToSet(zeros)
  BY <1>3, <1>4, CatFacts, MembersJoined
<1>6. Digits(padded)
  BY <1>3, <1>4, <1>5, DigitFacts DEF Digits
<1> HIDE DEF padded
<1> DEFINE zero == 0
           two == 2
<1>7. Stretch(cents, padded, zero, two)
  <2>1. zero + 1 = 1 /\ zero + two = 2
    OBVIOUS
  <2>2. cents = SubSeq(padded, zero + 1, zero + two)
    BY <2>1, Zenon
  <2> QED
    BY <2>2, Zenon DEF Stretch
<1>8. zero \in Nat /\ two \in Nat /\ zero + two <= Length(padded)
  BY <1>4, <1>5
<1>9. \A i \in 1..two : zero + i \in 1..Length(padded)
  BY <1>4, <1>5
<1> HIDE DEF cents, zero, two
<1>10. cents \in Texts /\ Length(cents) = two /\ \A i \in 1..two : cents[i] = padded[zero + i]
  BY <1>5, <1>7, <1>8, StretchFacts DEF Texts
<1>11. Digits(cents)
  <2>1. \A i \in 1..Length(cents) : cents[i] \in ToSet(padded)
    BY <1>5, <1>9, <1>10, MemberFacts
  <2>2. ToSet(cents) \subseteq ToSet(padded)
    BY <1>10, <2>1, MemberFacts
  <2> QED
    BY <1>6, <2>2 DEF Digits
<1> DEFINE x == Whole(Units)
           y == Whole(cents)
<1>12. x \in Nat /\ y \in Nat
  BY <1>3, <1>10, <1>11, WholeIsNat
<1> HIDE DEF x, y
<1>13. 100 * x + y \in Nat
  BY <1>12
<1> QED
  BY <1>2, <1>13 DEF x, y

(* What the seconds look like.                                             *)
LEMMA SecondsFacts ==
    ASSUME NEW s \in SecondsPart
    PROVE  /\ s = <<s[1], s[2]>> /\ s[1] \in Texts /\ s[2] \in Nat
           /\ ToSet(s[1]) \subseteq DOMAIN Digit \cup {".", "S"}
           /\ \/ s[1] = <<>> /\ s[2] = 0
              \/ \E n \in AllDecimals : s[1] = Cat(n, <<"S">>) /\ s[2] = Decimal(n)
<1>1. CASE s = <<<<>>, 0>>
  <2> DEFINE none == <<>>
  <2>1. none \in Texts /\ ToSet(none) = {}
    BY EmptyText
  <2> HIDE DEF none
  <2>2. s = <<none, 0>>
    BY <1>1 DEF none
  <2>3. s[1] = none /\ s[2] = 0
    BY <2>2
  <2> QED
    BY <2>1, <2>2, <2>3 DEF none
<1>2. CASE s # <<<<>>, 0>>
  <2>1. PICK n \in AllDecimals : s = <<Cat(n, <<"S">>), Decimal(n)>>
    BY <1>2, Zenon DEF SecondsPart, Cat
  <2> DEFINE t == Cat(n, <<"S">>)
             v == Decimal(n)
  <2>2. n \in Texts /\ ToSet(n) \subseteq DOMAIN Digit \cup {"."} /\ "S" \in Symbol
    BY DigitFacts DEF AllDecimals
  <2>3. t \in Texts /\ ToSet(t) = ToSet(n) \cup {"S"}
    BY <2>2, LastWritten
  <2>4. v \in Nat
    BY DecimalIsNat
  <2> HIDE DEF t, v
  <2>5. s = <<t, v>>
    BY <2>1 DEF t, v
  <2>6. s[1] = t /\ s[2] = v
    BY <2>5
  <2>7. s[1] = Cat(n, <<"S">>) /\ s[2] = Decimal(n)
    BY <2>6 DEF t, v
  <2> QED
    BY <2>2, <2>3, <2>4, <2>5, <2>6, <2>7
<1> QED
  BY <1>1, <1>2

(* What is read behind hours and minutes.                                  *)
SecondsToMs(sum, rest) ==
    LET n == SubSeq(rest, 1, Len(rest) - 1)
    IN IF rest = <<>> THEN sum
       ELSE IF First(rest, "S") = Len(rest) /\ ToSet(n) \subseteq DOMAIN Digit \cup {"."}
                 /\ IsDecimal(n)
       THEN sum + Decimal(n)
       ELSE NoBudget

(* Whatever is left is the seconds, or the text is turned away.            *)
LEMMA SecondsRead ==
    ASSUME NEW rest \in Texts, NEW sum \in Nat, SecondsToMs(sum, rest) # NoBudget
    PROVE  \E s \in SecondsPart : s[1] = rest /\ SecondsToMs(sum, rest) = sum + s[2]
<1>1. CASE rest = <<>>
  <2> DEFINE zero == 0
             s == <<rest, zero>>
  <2>1. SecondsToMs(sum, rest) = sum
    BY <1>1, Zenon DEF SecondsToMs
  <2>2. s \in SecondsPart
    BY <1>1, Zenon DEF SecondsPart
  <2>3. sum + zero = sum
    OBVIOUS
  <2> HIDE DEF zero
  <2>4. s[1] = rest /\ s[2] = zero
    OBVIOUS
  <2> HIDE DEF s
  <2> QED
    BY <2>1, <2>2, <2>3, <2>4
<1>2. CASE rest # <<>>
  <2> DEFINE n == SubSeq(rest, 1, Len(rest) - 1)
             c == rest[Len(rest)]
             v == Decimal(n)
             s == <<rest, v>>
  <2>1. n \in Texts /\ rest = Cat(n, <<c>>)
    BY <1>2, LastFacts
  <2>2. /\ First(rest, "S") = Len(rest) /\ ToSet(n) \subseteq DOMAIN Digit \cup {"."} /\ IsDecimal(n)
        /\ SecondsToMs(sum, rest) = sum + v
    BY <1>2, Zenon DEF SecondsToMs
  <2>3. c = "S"
    <3>1. Length(rest) # 0 /\ First(rest, "S") = Length(rest)
      BY <1>2, <2>2, MemberFacts DEF Length
    <3>2. rest[Length(rest)] = "S"
      BY <3>1, FirstFacts
    <3> QED
      BY <3>2 DEF Length
  <2> HIDE DEF n, c
  <2>4. n \in AllDecimals
    BY <2>1, <2>2 DEF AllDecimals
  <2>5. s \in SecondsPart
    BY <2>1, <2>3, <2>4, Zenon DEF SecondsPart, Cat
  <2> HIDE DEF v
  <2>6. s[1] = rest /\ s[2] = v
    OBVIOUS
  <2> HIDE DEF s
  <2> QED
    BY <2>2, <2>5, <2>6
<1> QED
  BY <1>1, <1>2

(* And the seconds that are written are read.                              *)
LEMMA SecondsWritten ==
    ASSUME NEW s \in SecondsPart, NEW sum \in Nat
    PROVE  SecondsToMs(sum, s[1]) = sum + s[2]
<1>1. CASE s[1] = <<>> /\ s[2] = 0
  BY <1>1 DEF SecondsToMs
<1>2. ASSUME NEW n \in AllDecimals, s[1] = Cat(n, <<"S">>), s[2] = Decimal(n)
      PROVE  SecondsToMs(sum, s[1]) = sum + s[2]
  <2> DEFINE rest == s[1]
  <2>1. n \in Texts /\ ToSet(n) \subseteq DOMAIN Digit \cup {"."} /\ IsDecimal(n) /\ "S" \in Symbol /\ "S" \notin ToSet(n)
    BY DigitFacts DEF AllDecimals
  <2>2. rest # <<>> /\ SubSeq(rest, 1, Len(rest) - 1) = n /\ First(rest, "S") = Len(rest)
    <3> HIDE DEF rest
    <3>1. rest = Cat(n, <<"S">>)
      BY <1>2 DEF rest
    <3> QED
      BY <2>1, <3>1, LastWritten
  <2> HIDE DEF rest
  <2>3. SecondsToMs(sum, rest) = sum + Decimal(n)
    BY <2>1, <2>2, Zenon DEF SecondsToMs
  <2> QED
    BY <1>2, <2>3 DEF rest
<1> QED
  BY <1>1, <1>2, SecondsFacts

(* The units are numbers.                                                  *)
LEMMA UnitFacts == Hour \in Nat /\ Minute \in Nat /\ Day \in Nat
<1>1. Second = 100
  BY DEF Second, Hundredth
<1>2. Minute = 6000
  BY <1>1 DEF Minute
<1>3. Hour = 360000
  BY <1>2 DEF Hour
<1>4. Day = 8640000
  BY <1>3 DEF Day
<1> QED
  BY <1>2, <1>3, <1>4

(* Hours, minutes and seconds, as they are read and as they are written.   *)
HourPart == Part(AllNumbers, "H", Hour)
MinutePart == Part(AllNumbers, "M", Minute)

(* Their parts are of the kind PartFacts is about.                         *)
LEMMA NumberPart ==
    ASSUME NEW c \in Symbol, NEW unit \in Nat, NEW p \in Part(AllNumbers, c, unit)
    PROVE  p \in Part(AllNumbers \cup {<<>>}, c, unit)
BY Zenon DEF Part

(* No part has the letter of one before it.                                *)
LEMMA TimeParts ==
    ASSUME NEW h \in HourPart, NEW m \in MinutePart, NEW s \in SecondsPart
    PROVE  /\ h[1] \in Texts /\ h[2] \in Nat
           /\ m[1] \in Texts /\ m[2] \in Nat /\ "H" \notin ToSet(m[1])
           /\ s[1] \in Texts /\ s[2] \in Nat /\ "H" \notin ToSet(s[1]) /\ "M" \notin ToSet(s[1])
           /\ h[2] + m[2] + s[2] \in Nat
<1>1. h \in Part(AllNumbers \cup {<<>>}, "H", Hour) /\ m \in Part(AllNumbers \cup {<<>>}, "M", Minute)
  BY UnitFacts, DigitFacts, NumberPart DEF HourPart, MinutePart
<1>2. h[1] \in Texts /\ h[2] \in Nat
  BY <1>1, UnitFacts, DigitFacts, PartFacts
<1>3. m[1] \in Texts /\ m[2] \in Nat /\ ToSet(m[1]) \subseteq DOMAIN Digit \cup {"M"}
  BY <1>1, UnitFacts, DigitFacts, PartFacts
<1>4. s[1] \in Texts /\ s[2] \in Nat /\ ToSet(s[1]) \subseteq DOMAIN Digit \cup {".", "S"}
  BY SecondsFacts
<1>5. "H" \notin ToSet(m[1]) /\ "H" \notin ToSet(s[1]) /\ "M" \notin ToSet(s[1])
  BY <1>3, <1>4, DigitFacts
<1>6. h[2] + m[2] + s[2] \in Nat
  BY <1>2, <1>3, <1>4
<1> QED
  BY <1>2, <1>3, <1>4, <1>5, <1>6

(* What is left after hours and minutes is read as seconds.               *)
LEMMA TimeIsSeconds ==
    ASSUME NEW time, NEW sum, NEW rest, TakeHoursAndMinutes(time) = Unread(sum, rest)
    PROVE  TimeToMs(time) = SecondsToMs(sum, rest)
<1> DEFINE left == Unread(sum, rest)
<1>1. left.sum = sum /\ left.rest = rest
  BY DEF Unread
<1>2. TakeHoursAndMinutes(time) = left
  OBVIOUS
<1> HIDE DEF left
<1> QED
  BY <1>1, <1>2, Zenon DEF TimeToMs, SecondsToMs

(* A time that is accepted has an hour, a minute and a second part.       *)
LEMMA TimeRead ==
    ASSUME NEW time \in Texts, TimeToMs(time) # NoBudget
    PROVE  \E h \in HourPart, m \in MinutePart, s \in SecondsPart :
               time = Cat(Cat(h[1], m[1]), s[1]) /\ TimeToMs(time) = h[2] + m[2] + s[2]
<1>1. PICK h \in HourPart, r \in Texts :
          time = Cat(h[1], r) /\ Take(Unread(0, time), "H", Hour) = Unread(0 + h[2], r)
  <2>1. "H" \in Symbol /\ Hour \in Nat /\ 0 \in Nat
    BY UnitFacts, DigitFacts
  <2> QED
    BY <2>1, TakeReads, Zenon DEF HourPart
<1>2. h[2] \in Nat /\ h[1] \in Texts
  <2>1. h \in Part(AllNumbers \cup {<<>>}, "H", Hour)
    BY UnitFacts, DigitFacts, NumberPart DEF HourPart
  <2> QED
    BY <2>1, UnitFacts, DigitFacts, PartFacts
<1>3. PICK m \in MinutePart, q \in Texts :
          r = Cat(m[1], q) /\ Take(Unread(h[2], r), "M", Minute) = Unread(h[2] + m[2], q)
  <2>1. "M" \in Symbol /\ Minute \in Nat
    BY UnitFacts, DigitFacts
  <2> QED
    BY <1>2, <2>1, TakeReads, Zenon DEF MinutePart
<1>4. m[2] \in Nat /\ m[1] \in Texts
  <2>1. m \in Part(AllNumbers \cup {<<>>}, "M", Minute)
    BY UnitFacts, DigitFacts, NumberPart DEF MinutePart
  <2> QED
    BY <2>1, UnitFacts, DigitFacts, PartFacts
<1>5. TakeHoursAndMinutes(time) = Unread(h[2] + m[2], q)
  <2>1. 0 + h[2] = h[2]
    BY <1>2
  <2> QED
    BY <1>1, <1>3, <2>1, Zenon DEF TakeHoursAndMinutes
<1> DEFINE sum == h[2] + m[2]
<1>6. sum \in Nat
  BY <1>2, <1>4
<1> HIDE DEF sum
<1>7. TakeHoursAndMinutes(time) = Unread(sum, q)
  BY <1>5 DEF sum
<1>8. TimeToMs(time) = SecondsToMs(sum, q)
  BY <1>7, TimeIsSeconds
<1>9. PICK s \in SecondsPart : s[1] = q /\ SecondsToMs(sum, q) = sum + s[2]
  BY <1>6, <1>8, SecondsRead
<1>10. Cat(Cat(h[1], m[1]), s[1]) = time
  <2>1. Cat(Cat(h[1], m[1]), q) = Cat(h[1], Cat(m[1], q))
    BY <1>2, <1>3, <1>4, CatAssociates
  <2> QED
    BY <1>1, <1>3, <1>9, <2>1, Zenon
<1> QED
  BY <1>8, <1>9, <1>10 DEF sum

(* And each time of such parts is read as their sum.                       *)
LEMMA TimeWritten ==
    ASSUME NEW h \in HourPart, NEW m \in MinutePart, NEW s \in SecondsPart
    PROVE  TimeToMs(Cat(Cat(h[1], m[1]), s[1])) = h[2] + m[2] + s[2]
<1> DEFINE q == s[1]
           r == Cat(m[1], q)
           time == Cat(h[1], r)
           sum == h[2] + m[2]
<1>1. /\ h[1] \in Texts /\ h[2] \in Nat
      /\ m[1] \in Texts /\ m[2] \in Nat /\ "H" \notin ToSet(m[1])
      /\ q \in Texts /\ s[2] \in Nat /\ "H" \notin ToSet(q) /\ "M" \notin ToSet(q)
  BY TimeParts
<1> HIDE DEF q
<1>2. r \in Texts /\ "H" \notin ToSet(r)
  <2>1. r \in Texts
    BY <1>1, CatFacts, Zenon
  <2>2. ToSet(r) = ToSet(m[1]) \cup ToSet(q)
    BY <1>1, MembersJoined, Zenon
  <2> HIDE DEF r
  <2> QED
    BY <1>1, <2>1, <2>2
<1> HIDE DEF r
<1>3. {"H", "M"} \subseteq Symbol \ DOMAIN Digit
  BY DigitFacts
<1>4. Take(Unread(0, time), "H", Hour) = Unread(0 + h[2], r)
  BY <1>2, <1>3, UnitFacts, TakeWritten DEF HourPart
<1>5. Take(Unread(h[2], Cat(m[1], q)), "M", Minute) = Unread(h[2] + m[2], q)
  BY <1>1, <1>3, UnitFacts, TakeWritten DEF MinutePart
<1> HIDE DEF time
<1>6. TakeHoursAndMinutes(time) = Unread(sum, q)
  <2>1. 0 + h[2] = h[2]
    BY <1>1
  <2> QED
    BY <1>4, <1>5, <2>1, Zenon DEF TakeHoursAndMinutes, r
<1>7. sum \in Nat
  BY <1>1
<1> HIDE DEF sum
<1>8. TimeToMs(time) = SecondsToMs(sum, q)
  BY <1>6, TimeIsSeconds
<1>9. SecondsToMs(sum, q) = sum + s[2]
  BY <1>7, SecondsWritten DEF q
<1>10. Cat(Cat(h[1], m[1]), q) = time
  BY <1>1, CatAssociates DEF time, r
<1> QED
  BY <1>8, <1>9, <1>10 DEF q, sum

----------------------------------------------------------------------------
(* Days, as they are read and as they are written.                         *)
DayPart == Part(AllNumbers \cup {<<>>}, "D", Day)

(* Days that are accepted are a day part.                                  *)
LEMMA DaysRead ==
    ASSUME NEW days \in Texts, DaysToMs(days) # NoBudget
    PROVE  <<days, DaysToMs(days)>> \in DayPart
<1>1. CASE days = <<>>
  BY <1>1, Zenon DEF DaysToMs, DayPart, Part
<1>2. CASE days # <<>>
  <2> DEFINE n == SubSeq(days, 1, Len(days) - 1)
             c == days[Len(days)]
  <2>1. c = "D" /\ Digits(n) /\ DaysToMs(days) = Whole(n) * Day
    BY <1>2, Zenon DEF DaysToMs
  <2>2. n \in Texts /\ days = Cat(n, <<c>>)
    BY <1>2, LastFacts
  <2> HIDE DEF n, c
  <2>3. n \in AllNumbers \cup {<<>>}
    BY <2>1, <2>2 DEF AllNumbers
  <2> QED
    BY <2>1, <2>2, <2>3, Zenon DEF DayPart, Part, Cat
<1> QED
  BY <1>1, <1>2

(* And a day part is read as it is written.                                *)
LEMMA DaysWritten ==
    ASSUME NEW d \in DayPart
    PROVE  /\ d[1] \in Texts /\ d[2] \in Nat /\ "T" \notin ToSet(d[1])
           /\ DaysToMs(d[1]) = d[2] /\ (d[1] = <<>> => d[2] = 0)
<1>1. /\ d[1] \in Texts /\ d[2] \in Nat /\ ToSet(d[1]) \subseteq DOMAIN Digit \cup {"D"}
      /\ \/ d[1] = <<>> /\ d[2] = 0
         \/ \E n \in Texts : Digits(n) /\ d[1] = Cat(n, <<"D">>) /\ d[2] = Whole(n) * Day
  <2>1. "D" \in Symbol /\ Day \in Nat
    BY UnitFacts, DigitFacts
  <2> QED
    BY <2>1, PartFacts, Zenon DEF DayPart
<1>2. "T" \notin ToSet(d[1])
  BY <1>1, DigitFacts
<1>3. CASE d[1] = <<>> /\ d[2] = 0
  BY <1>1, <1>2, <1>3, Zenon DEF DaysToMs
<1>4. ASSUME NEW n \in Texts, Digits(n), d[1] = Cat(n, <<"D">>), d[2] = Whole(n) * Day
      PROVE  DaysToMs(d[1]) = d[2] /\ d[1] # <<>>
  <2> DEFINE days == d[1]
  <2>1. days = Cat(n, <<"D">>)
    BY <1>4
  <2> HIDE DEF days
  <2>2. days # <<>> /\ SubSeq(days, 1, Len(days) - 1) = n /\ days[Len(days)] = "D"
    BY <2>1, DigitFacts, LastWritten
  <2>3. DaysToMs(days) = Whole(n) * Day
    BY <1>4, <2>2, Zenon DEF DaysToMs
  <2> QED
    BY <1>4, <2>2, <2>3 DEF days
<1> QED
  BY <1>1, <1>2, <1>3, <1>4

----------------------------------------------------------------------------
(* The time of a duration, with its T.                                     *)
TimePart ==
    {<<Cat(Cat(Cat(<<"T">>, h[1]), m[1]), s[1]), h[2] + m[2] + s[2]>> :
        h \in HourPart, m \in MinutePart, s \in SecondsPart}

(* The grammar of Duration, in these parts.                                *)
LEMMA SpelledParts ==
    ASSUME NEW pair
    PROVE  pair \in Spelled(AllNumbers, AllDecimals)
           <=> /\ \E d \in DayPart, q \in TimePart \cup {<<<<>>, 0>>} :
                     pair = <<Cat(Cat(<<"P">>, d[1]), q[1]), d[2] + q[2]>>
               /\ pair # <<<<"P">>, 0>>
<1>1. TimePart = {<<<<"T">> \o h[1] \o m[1] \o s[1], h[2] + m[2] + s[2]>> :
                     h \in HourPart, m \in MinutePart, s \in SecondsPart}
  BY SMT DEF TimePart, Cat
<1>2. Spelled(AllNumbers, AllDecimals)
      = {<<<<"P">> \o d[1] \o t[1], d[2] + t[2]>> : d \in DayPart, t \in TimePart \cup {<<<<>>, 0>>}}
             \ {<<<<"P">>, 0>>}
  BY <1>1, SMT DEF Spelled, HourPart, MinutePart, SecondsPart, DayPart
<1> DEFINE p == <<"P">>
           All == TimePart \cup {<<<<>>, 0>>}
           Written == {<<p \o d[1] \o t[1], d[2] + t[2]>> : d \in DayPart, t \in All}
           Values == {<<Cat(Cat(p, d[1]), t[1]), d[2] + t[2]>> : d \in DayPart, t \in All}
           bare == <<p, 0>>
<1>3. Spelled(AllNumbers, AllDecimals) = Written \ {bare}
  BY <1>2, SMT
<1>4. Written = Values
  <2> HIDE DEF p, All
  <2> QED
    BY SMT DEF Cat
<1>5. pair \in Values <=> \E d \in DayPart, q \in All : pair = <<Cat(Cat(p, d[1]), q[1]), d[2] + q[2]>>
  <2> HIDE DEF p, All
  <2> QED
    BY SMT
<1>6. pair \in Spelled(AllNumbers, AllDecimals) <=> pair \in Values /\ pair # bare
  <2> HIDE DEF Values, Written, bare
  <2> QED
    BY <1>3, <1>4
<1> HIDE DEF Values, Written
<1> QED
  BY <1>5, <1>6, Zenon

(* A text that begins with P.                                              *)
LEMMA Prefixed ==
    ASSUME NEW body \in Texts, NEW text, text = Cat(<<"P">>, body)
    PROVE  /\ text \in Texts /\ text # <<>> /\ text[1] = "P" /\ Tail(text) = body
           /\ (text = <<"P">> <=> body = <<>>)
<1> DEFINE one == <<"P">>
<1>1. "P" \in Symbol /\ one \in Texts /\ Length(one) = 1 /\ one[1] = "P"
  BY DigitFacts, LetterFacts
<1>2. Tail(text) = body
  <2>1. Tail(<<"P">> \o body) = body
    BY <1>1, TailOfPrefixed DEF Texts
  <2> QED
    BY <2>1, Zenon DEF Cat
<1> HIDE DEF one
<1>3. /\ text \in Texts /\ Length(text) = Length(one) + Length(body) /\ Length(body) \in Nat
      /\ \A i \in 1..Length(one) : text[i] = one[i]
  <2>1. text = Cat(one, body)
    BY DEF one
  <2>2. /\ Cat(one, body) \in Texts /\ Length(Cat(one, body)) = Length(one) + Length(body) /\ Length(body) \in Nat
        /\ \A i \in 1..Length(one) : Cat(one, body)[i] = one[i]
    BY <1>1, CatFacts
  <2> QED
    BY <2>1, <2>2, Zenon
<1>4. text[1] = "P"
  BY <1>1, <1>3
<1>5. Length(text) # 0
  BY <1>1, <1>3
<1>6. text # <<>>
  BY <1>3, <1>5, MemberFacts
<1>7. text = one => body = <<>>
  <2>1. text = one => Length(body) = 0
    BY <1>1, <1>3
  <2> QED
    BY <2>1, MemberFacts
<1>8. body = <<>> => text = one
  BY <1>1, CatFacts DEF one
<1> QED
  BY <1>2, <1>3, <1>4, <1>6, <1>7, <1>8 DEF one

(* And every text that begins with it.                                     *)
LEMMA BeginsWithP ==
    ASSUME NEW text \in Texts, text # <<>>, text[1] = "P"
    PROVE  Tail(text) \in Texts /\ text = Cat(<<"P">>, Tail(text))
<1> DEFINE body == Tail(text)
           u == Cat(<<"P">>, body)
           one == <<"P">>
           k == Length(text)
<1>1. k \in Nat /\ k # 0
  BY MemberFacts
<1>2. body \in Texts /\ Length(body) = k - 1 /\ \A i \in 1..Length(body) : body[i] = text[i + 1]
  <2>1. body \in Seq(Symbol) /\ Len(body) = Len(text) - 1 /\ \A i \in 1..Len(body) : body[i] = text[i + 1]
    BY HeadTailProperties DEF Texts
  <2> HIDE DEF body
  <2> QED
    BY <2>1, Zenon DEF Length, Texts
<1>3. one \in Texts /\ Length(one) = 1 /\ one[1] = "P"
  BY DigitFacts, LetterFacts
<1> HIDE DEF body, one, k
<1>4. /\ u \in Texts /\ Length(u) = Length(one) + Length(body)
      /\ \A i \in 1..Length(one) : u[i] = one[i]
      /\ \A i \in 1..Length(body) : u[Length(one) + i] = body[i]
  <2>1. u = Cat(one, body)
    BY DEF one
  <2> HIDE DEF u
  <2> QED
    BY <1>2, <1>3, <2>1, CatFacts
<1> HIDE DEF u
<1>5. Length(u) = k
  BY <1>1, <1>2, <1>3, <1>4
<1>6. ASSUME NEW i \in 1..k PROVE u[i] = text[i]
  <2>1. CASE i = 1
    BY <1>3, <1>4, <2>1
  <2>2. CASE i # 1
    <3>1. i - 1 \in 1..Length(body) /\ 1 + (i - 1) = i /\ (i - 1) + 1 = i
      BY <1>1, <1>2, <2>2
    <3>2. u[i] = body[i - 1] /\ body[i - 1] = text[i]
      BY <1>2, <1>3, <1>4, <3>1
    <3> QED
      BY <3>2
  <2> QED
    BY <2>1, <2>2
<1>7. u = text
  BY <1>4, <1>5, <1>6, SameText DEF k
<1> QED
  BY <1>2, <1>7 DEF u, body

(* What DurationToMs looks at.                                             *)
LEMMA DurationParts ==
    ASSUME NEW text, NEW body, text # <<>>, body = Tail(text), text[1] = "P"
    PROVE  LET t == First(body, "T")
               days == DaysToMs(IF t = 0 THEN body ELSE Until(body, t))
               time == IF t = 0 THEN 0 ELSE TimeToMs(From(body, t))
           IN DurationToMs(text) = IF body = <<>> \/ days = NoBudget \/ time = NoBudget
                                   THEN NoBudget ELSE days + time
<1> DEFINE t == First(body, "T")
           days == DaysToMs(IF t = 0 THEN body ELSE Until(body, t))
           time == IF t = 0 THEN 0 ELSE TimeToMs(From(body, t))
<1>1. DurationToMs(text) = IF text = <<>> \/ text[1] # "P" \/ body = <<>> \/ NoBudget \in {days, time}
                           THEN NoBudget ELSE days + time
  BY Zenon DEF DurationToMs
<1> HIDE DEF days, time
<1>2. NoBudget \in {days, time} <=> days = NoBudget \/ time = NoBudget
  BY Zenon
<1>3. DurationToMs(text) = IF body = <<>> \/ days = NoBudget \/ time = NoBudget
                           THEN NoBudget ELSE days + time
  BY <1>1, <1>2, Zenon
<1> QED
  BY <1>3 DEF days, time

(* verdict.rs:107-157: what is accepted is spelled, and means what it says. *)
LEMMA AcceptedIsSpelled ==
    ASSUME NEW text \in Texts, DurationToMs(text) # NoBudget
    PROVE  <<text, DurationToMs(text)>> \in Spelled(AllNumbers, AllDecimals)
<1> DEFINE body == Tail(text)
           t == First(body, "T")
           days == DaysToMs(IF t = 0 THEN body ELSE Until(body, t))
           time == IF t = 0 THEN 0 ELSE TimeToMs(From(body, t))
           p == <<"P">>
           none == <<>>
           ms == DurationToMs(text)
<1>1. text # <<>> /\ text[1] = "P"
  BY Zenon DEF DurationToMs
<1>2. body \in Texts /\ text = Cat(p, body)
  BY <1>1, BeginsWithP
<1>3. ms = IF body = <<>> \/ days = NoBudget \/ time = NoBudget THEN NoBudget ELSE days + time
  BY <1>1, DurationParts
<1>4. body # <<>> /\ days # NoBudget /\ time # NoBudget /\ ms = days + time
  <2> HIDE DEF days, time, body, ms
  <2>1. ms # NoBudget
    BY DEF ms
  <2> QED
    BY <1>3, <2>1, Zenon
<1>5. text # p
  BY <1>2, <1>4, Prefixed
<1>6. p \in Texts /\ none \in Texts /\ "T" \in Symbol
  BY DigitFacts, LetterFacts, EmptyText
<1> HIDE DEF body, p, ms
<1>7. ASSUME NEW d \in DayPart, NEW q \in TimePart \cup {<<<<>>, 0>>},
             text = Cat(Cat(p, d[1]), q[1]), ms = d[2] + q[2]
      PROVE  <<text, ms>> \in Spelled(AllNumbers, AllDecimals)
  <2> DEFINE pair == <<text, ms>>
             zero == 0
             bare == <<p, zero>>
  <2>1. pair # bare
    BY <1>5
  <2>2. pair = <<Cat(Cat(<<"P">>, d[1]), q[1]), d[2] + q[2]>>
    BY <1>7, Zenon DEF p
  <2>3. bare = <<<<"P">>, 0>>
    BY Zenon DEF p
  <2> HIDE DEF pair, bare
  <2>4. pair \in Spelled(AllNumbers, AllDecimals)
    BY <2>1, <2>2, <2>3, SpelledParts, Zenon
  <2> QED
    BY <2>4 DEF pair
<1>8. CASE t = 0
  <2> DEFINE d == <<body, days>>
             zero == 0
             q == <<none, zero>>
  <2>1. days = DaysToMs(body) /\ time = zero
    BY <1>8, Zenon
  <2>2. d \in DayPart
    <3> HIDE DEF days, time
    <3>1. DaysToMs(body) # NoBudget
      BY <1>4, <2>1, Zenon
    <3>2. <<body, DaysToMs(body)>> \in DayPart
      BY <1>2, <3>1, DaysRead
    <3> QED
      BY <2>1, <3>2, Zenon
  <2>3. q \in TimePart \cup {<<<<>>, 0>>}
    BY Zenon
  <2>4. Cat(p, body) \in Texts
    BY <1>2, <1>6, CatFacts
  <2>5. Cat(Cat(p, body), none) = Cat(p, body)
    <3> DEFINE pb == Cat(p, body)
    <3> HIDE DEF pb
    <3>1. pb \in Texts
      BY <2>4 DEF pb
    <3>2. Cat(pb, <<>>) = pb
      BY <3>1, CatFacts
    <3> QED
      BY <3>2 DEF pb
  <2> HIDE DEF days, time, none, zero
  <2>6. d[1] = body /\ d[2] = days /\ q[1] = none /\ q[2] = zero
    OBVIOUS
  <2>7. text = Cat(Cat(p, d[1]), q[1])
    BY <1>2, <2>5, <2>6, Zenon
  <2>8. ms = d[2] + q[2]
    BY <1>4, <2>1, <2>6, Zenon
  <2> HIDE DEF d, q
  <2> QED
    BY <1>7, <2>2, <2>3, <2>7, <2>8 DEF ms
<1>9. CASE t # 0
  <2> DEFINE a == Until(body, t)
             b == From(body, t)
             d == <<a, days>>
  <2>1. "T" \in ToSet(body)
    BY <1>2, <1>9, FirstFacts
  <2>2. a \in Texts /\ b \in Texts /\ Parts(body, a, "T", b)
    BY <1>2, <2>1, FirstParts
  <2>3. days = DaysToMs(a) /\ time = TimeToMs(b)
    BY <1>9, Zenon
  <2> HIDE DEF a, b, days, time, t
  <2>4. d \in DayPart
    <3>1. DaysToMs(a) # NoBudget
      BY <1>4, <2>3, Zenon
    <3>2. <<a, DaysToMs(a)>> \in DayPart
      BY <2>2, <3>1, DaysRead
    <3> QED
      BY <2>3, <3>2, Zenon
  <2>5. PICK h \in HourPart, m \in MinutePart, s \in SecondsPart :
            b = Cat(Cat(h[1], m[1]), s[1]) /\ TimeToMs(b) = h[2] + m[2] + s[2]
    <3>1. TimeToMs(b) # NoBudget
      BY <1>4, <2>3, Zenon
    <3> QED
      BY <2>2, <3>1, TimeRead
  <2> DEFINE tt == <<"T">>
             w == Cat(Cat(Cat(tt, h[1]), m[1]), s[1])
             v == h[2] + m[2] + s[2]
             q == <<w, v>>
  <2>6. q \in TimePart \cup {<<<<>>, 0>>}
    <3>1. <<Cat(Cat(Cat(<<"T">>, h[1]), m[1]), s[1]), h[2] + m[2] + s[2]>> \in TimePart
      BY SMT DEF TimePart
    <3>2. q \in TimePart
      BY <3>1, Zenon
    <3> QED
      BY <3>2, Zenon
  <2>7. tt \in Texts
    BY <1>6, LetterFacts
  <2> HIDE DEF tt
  <2>8. w = Cat(tt, b)
    BY <2>5, <2>7, TimeParts, CatSplit
  <2>9. text = Cat(Cat(p, a), Cat(tt, b))
    <3>1. body = Cat(Cat(a, tt), b)
      BY <2>2, Zenon DEF Parts, tt
    <3>2. text = Cat(p, Cat(Cat(a, tt), b))
      BY <1>2, <3>1, Zenon
    <3> QED
      BY <1>6, <2>2, <2>7, <3>2, CatRegroup
  <2> HIDE DEF w, v
  <2>10. d[1] = a /\ d[2] = days /\ q[1] = w /\ q[2] = v
    OBVIOUS
  <2>11. text = Cat(Cat(p, d[1]), q[1])
    BY <2>8, <2>9, <2>10, Zenon
  <2>12. ms = d[2] + q[2]
    BY <1>4, <2>3, <2>5, <2>10, Zenon DEF v
  <2> HIDE DEF d, q
  <2> QED
    BY <1>7, <2>4, <2>6, <2>11, <2>12 DEF ms
<1> QED
  BY <1>8, <1>9

(* And what is spelled is accepted, with the length it says.               *)
LEMMA SpelledIsAccepted ==
    ASSUME NEW pair \in Spelled(AllNumbers, AllDecimals)
    PROVE  pair = <<pair[1], pair[2]>> /\ DurationToMs(pair[1]) = pair[2] /\ DurationToMs(pair[1]) # NoBudget
<1> DEFINE p == <<"P">>
<1>0. \E d \in DayPart, q \in TimePart \cup {<<<<>>, 0>>} : pair = <<Cat(Cat(p, d[1]), q[1]), d[2] + q[2]>>
  BY SpelledParts, SMT
<1>1. PICK d \in DayPart, q \in TimePart \cup {<<<<>>, 0>>} : pair = <<Cat(Cat(p, d[1]), q[1]), d[2] + q[2]>>
  BY <1>0
<1>2. pair # <<p, 0>>
  BY SpelledParts, Zenon
<1>3. /\ d[1] \in Texts /\ d[2] \in Nat /\ "T" \notin ToSet(d[1])
      /\ DaysToMs(d[1]) = d[2] /\ (d[1] = <<>> => d[2] = 0)
  BY DaysWritten
<1>4. p \in Texts /\ "T" \in Symbol /\ <<"T">> \in Texts
  BY DigitFacts, LetterFacts
<1> HIDE DEF p
<1>5. CASE q = <<<<>>, 0>>
  <2> DEFINE none == <<>>
             zero == 0
             body == d[1]
             text == Cat(p, body)
             ms == d[2]
  <2>1. q[1] = none /\ q[2] = zero
    BY <1>5
  <2>2. text \in Texts /\ ms + zero = ms
    BY <1>3, <1>4, CatFacts
  <2>3. Cat(text, none) = text
    <3> HIDE DEF text
    <3> QED
      BY <2>2, CatFacts
  <2>4. text = Cat(<<"P">>, body)
    BY Zenon DEF p
  <2> HIDE DEF none, zero, body, text, ms
  <2>5. pair = <<text, ms>>
    BY <1>1, <2>1, <2>2, <2>3, Zenon DEF text, body, ms
  <2>6. body \in Texts /\ body # <<>>
    <3>1. body \in Texts
      BY <1>3 DEF body
    <3>2. ASSUME body = <<>> PROVE FALSE
      <4>1. ms = 0
        BY <1>3, <3>2 DEF body, ms
      <4>2. text = p
        BY <2>4, <3>1, <3>2, Prefixed DEF p
      <4> QED
        BY <1>2, <2>5, <4>1, <4>2, Zenon
    <3> QED
      BY <3>1, <3>2
  <2>7. text # <<>> /\ text[1] = "P" /\ Tail(text) = body
    BY <2>4, <2>6, Prefixed
  <2>8. First(body, "T") = 0
    BY <1>3, <2>6, FirstFacts DEF body
  <2>9. DurationToMs(text) = IF body = <<>> \/ DaysToMs(body) = NoBudget \/ 0 = NoBudget
                             THEN NoBudget ELSE DaysToMs(body) + 0
    BY <2>7, <2>8, DurationParts
  <2>10. DaysToMs(body) = ms /\ ms \in Nat
    BY <1>3 DEF body, ms
  <2>11. DurationToMs(text) = ms
    BY <2>6, <2>9, <2>10 DEF NoBudget
  <2>12. pair[1] = text /\ pair[2] = ms
    BY <2>5
  <2>13. ms # NoBudget
    BY <2>10 DEF NoBudget
  <2> QED
    BY <2>5, <2>11, <2>12, <2>13, Zenon
<1>6. CASE q \in TimePart
  <2>1. PICK h \in HourPart, m \in MinutePart, s \in SecondsPart :
            q = <<Cat(Cat(Cat(<<"T">>, h[1]), m[1]), s[1]), h[2] + m[2] + s[2]>>
    BY <1>6, SMT DEF TimePart
  <2> DEFINE tt == <<"T">>
             b == Cat(Cat(h[1], m[1]), s[1])
             w == Cat(Cat(Cat(tt, h[1]), m[1]), s[1])
             v == h[2] + m[2] + s[2]
             a == d[1]
             body == Cat(Cat(a, tt), b)
             text == Cat(p, body)
             ms == d[2] + v
  <2>2. h[1] \in Texts /\ m[1] \in Texts /\ s[1] \in Texts /\ v \in Nat
    BY TimeParts
  <2>3. tt \in Texts
    BY <1>4
  <2>4. Parts(body, a, "T", b)
    BY Zenon DEF Parts
  <2>5. TimeToMs(b) = v
    BY TimeWritten
  <2>6. q = <<w, v>>
    BY <2>1, Zenon
  <2> HIDE DEF tt, v
  <2>7. w = Cat(tt, b)
    BY <2>2, <2>3, CatSplit
  <2>8. b \in Texts
    <3> DEFINE hm == Cat(h[1], m[1])
    <3>1. hm \in Texts
      BY <2>2, CatFacts
    <3> HIDE DEF hm
    <3>2. Cat(hm, s[1]) \in Texts
      BY <2>2, <3>1, CatFacts
    <3> QED
      BY <3>2 DEF hm
  <2> HIDE DEF b, w
  <2>9. q[1] = w /\ q[2] = v
    BY <2>6
  <2>10. a \in Texts /\ "T" \notin ToSet(a)
    BY <1>3
  <2> HIDE DEF a
  <2>11. Cat(Cat(p, a), Cat(tt, b)) = text
    BY <1>4, <2>3, <2>8, <2>10, CatRegroup
  <2> HIDE DEF body
  <2>12. /\ body \in Texts /\ First(body, "T") = Length(a) + 1
         /\ Until(body, First(body, "T")) = a /\ From(body, First(body, "T")) = b
    BY <1>4, <2>4, <2>8, <2>10, PartsFirst
  <2>13. First(body, "T") # 0 /\ body # <<>>
    <3>1. Length(a) \in Nat
      BY <2>10, MemberFacts
    <3>2. Length(body) = Length(a) + 1 + Length(b) /\ Length(b) \in Nat
      BY <1>4, <2>4, <2>8, <2>10, PartsFacts
    <3>3. First(body, "T") # 0 /\ Length(body) # 0
      BY <2>12, <3>1, <3>2
    <3> QED
      BY <2>12, <3>3, MemberFacts
  <2>14. text = Cat(<<"P">>, body)
    BY Zenon DEF p
  <2> HIDE DEF text, ms
  <2>15. text # <<>> /\ text[1] = "P" /\ Tail(text) = body
    BY <2>12, <2>14, Prefixed
  <2>16. DurationToMs(text) = IF body = <<>> \/ DaysToMs(a) = NoBudget \/ TimeToMs(b) = NoBudget
                              THEN NoBudget ELSE DaysToMs(a) + TimeToMs(b)
    <3>1. LET t == First(body, "T")
              days == DaysToMs(IF t = 0 THEN body ELSE Until(body, t))
              time == IF t = 0 THEN 0 ELSE TimeToMs(From(body, t))
          IN DurationToMs(text) = IF body = <<>> \/ days = NoBudget \/ time = NoBudget
                                  THEN NoBudget ELSE days + time
      BY <2>15, DurationParts, Zenon
    <3> QED
      BY <2>12, <2>13, <3>1, Zenon
  <2>17. DaysToMs(a) = d[2] /\ d[2] \in Nat
    BY <1>3 DEF a
  <2>18. DurationToMs(text) = ms /\ ms # NoBudget
    BY <2>2, <2>5, <2>13, <2>16, <2>17 DEF NoBudget, ms, v
  <2>19. pair = <<text, ms>>
    BY <1>1, <2>7, <2>9, <2>11, Zenon DEF a, ms
  <2>20. pair[1] = text /\ pair[2] = ms
    BY <2>19
  <2> QED
    BY <2>18, <2>19, <2>20, Zenon
<1> QED
  BY <1>5, <1>6

(* verdict.rs:104-157, api.rs:518-526: over all numbers, a budget is taken *)
(* if and only if it is spelled PnDTnHnMnS, and it is the length that is   *)
(* written.                                                                *)
THEOREM BudgetsAreAsWritten ==
    ASSUME Numbers = AllNumbers, Decimals = AllDecimals
    PROVE  PagesSpec => []BudgetAsWritten
<1>1. Spelling = Spelled(AllNumbers, AllDecimals)
  BY Zenon DEF Spelling
<1>2. ASSUME PagesInv, request.route = "untp", request.param # <<>>
      PROVE  /\ page.status = "400" => request.param \notin SpelledTexts
             /\ page.status = "200" => <<request.param, page.budget[1]>> \in Spelling
  <2> DEFINE text == request.param
             ms == DurationToMs(text)
  <2>1. text \in Texts
    BY <1>2 DEF PagesInv, RequestType, Texts, Symbol
  <2>2. page = NoPage \/ page = UntpAnswer(request)
    BY <1>2 DEF PagesInv
  <2>3. CASE page = NoPage
    BY <2>3 DEF NoPage
  <2>4. CASE page = UntpAnswer(request) /\ ms = NoBudget
    <3>1. page.status = "400"
      BY <1>2, <2>4 DEF UntpAnswer, BadRequest
    <3>2. ASSUME text \in SpelledTexts PROVE FALSE
      <4>1. PICK pair \in Spelling : pair[1] = text
        BY <3>2 DEF SpelledTexts
      <4> QED
        BY <1>1, <2>4, <4>1, SpelledIsAccepted
    <3> QED
      BY <3>1, <3>2
  <2>5. CASE page = UntpAnswer(request) /\ ms # NoBudget
    <3>1. page.status = "200" /\ page.budget = <<RequiredFreshness(text)>>
      BY <1>2, <2>5 DEF UntpAnswer
    <3>2. page.budget[1] = ms
      BY <1>2, <3>1 DEF RequiredFreshness
    <3>3. <<text, ms>> \in Spelling
      BY <1>1, <2>1, <2>5, AcceptedIsSpelled
    <3> QED
      BY <3>1, <3>2, <3>3
  <2> QED
    BY <2>2, <2>3, <2>4, <2>5
<1>3. PagesInv => BudgetAsWritten
  BY <1>2, Zenon DEF BudgetAsWritten
<1> QED
  BY <1>3, PagesSafety, PTL
==============================================================================
