------------------------------- MODULE RenderPages -------------------------------
(***************************************************************************)
(* What the render routes answer once the passport is there (api.rs,       *)
(* untp_product and en18222_dpps): the parameter is read, or the request   *)
(* is turned away, and the page is rendered.  A request is one step; the   *)
(* two conversions of a passport (Untp, En18222) and the two ways to read  *)
(* the UNTP page back were written apart and are meant to agree.           *)
(***************************************************************************)
EXTENDS En18222, Duration

CONSTANTS
    Request,            \* the requests, see RequestType
    Numbers, Decimals   \* the numbers of the durations that are spelled

(* param is the freshness asked for or the representation; <<>> is none.   *)
RequestType == [route : {"untp", "en18222"}, param : Seq(Char \cup {"full", "compressed"}), core : Core]

ASSUME RequestAssumption == Request \subseteq RequestType

VARIABLES
    request,
    page        \* the answer

pageVars == <<request, page>>

NoPage == [status |-> "none"]
BadRequest == [status |-> "400"]

PagesInit == request \in Request /\ page = NoPage

(* The UNTP projection reads of a document what Untp's Passport is.        *)
Projected(c) ==
    LET places == StampPlaces(c)
    IN [id |-> c.id, product |-> c.product, from |-> c.from, profiles |-> c.profiles,
        stamps |-> [n \in 1..Len(places) |->
                      [standard |-> c.log[places[n]].stamp.lens, from |-> c.log[places[n]].at]]]

(* Empty is the default of either route.                                   *)
Representation(param) ==
    CASE param = <<>> -> "compressed"
      [] param \in {<<"full">>, <<"compressed">>} -> param[1]
      [] OTHER -> "unknown"

RequiredFreshness(param) == IF param = <<>> THEN "undeclared" ELSE DurationToMs(param)

UntpPage ==
    /\ page = NoPage /\ request.route = "untp"
    /\ page' = IF request.param # <<>> /\ DurationToMs(request.param) = NoBudget THEN BadRequest
               ELSE [status |-> "200", budget |-> <<RequiredFreshness(request.param)>>,
                     triad |-> RenderTriad(Projected(request.core))]
    /\ UNCHANGED request

EnPage ==
    /\ page = NoPage /\ request.route = "en18222"
    /\ LET form == Representation(request.param)
       IN page' = IF form = "unknown" THEN BadRequest
                  ELSE [status |-> "200", form |-> form, body |-> RenderEn(request.core, form)]
    /\ UNCHANGED request

PagesNext == UntpPage \/ EnPage

PagesSpec == PagesInit /\ [][PagesNext]_pageVars

----------------------------------------------------------------------------
Served(route) == request.route = route /\ page.status = "200"

(* A budget is taken if and only if it is spelled as the answer to a bad   *)
(* one says, PnDTnHnMnS, and it is the length that is written: however the *)
(* parser comes to its letters, nothing is dropped, counted twice or read  *)
(* as another unit.  (verdict.rs:104-157, api.rs:518-526.)                 *)
Spelling == Spelled(Numbers, Decimals)
SpelledTexts == {s[1] : s \in Spelling}

BudgetAsWritten ==
    (request.route = "untp" /\ request.param # <<>>) =>
        /\ page.status = "400" => request.param \notin SpelledTexts
        /\ page.status = "200" => <<request.param, page.budget[1]>> \in Spelling

(* The two forms of one passport agree: every leaf of the full form is in  *)
(* the compressed one, under its name and with the value that was printed, *)
(* and nothing else is; only a profile may be missing, where a later one   *)
(* has the tail of its id.  (en18222.rs:92-168, :256-268, :310-334.)       *)
KeptBy(c, leaf) ==
    \E n \in 1..Len(c.profiles) :
        /\ leaf.name = <<"Profile", Slug[c.profiles[n].standard]>>
        /\ leaf.value[2] = c.profiles[n].standard
        /\ \E m \in (n + 1)..Len(c.profiles) :
               Slug[c.profiles[m].standard] = Slug[c.profiles[n].standard]

FormsAgree(full, compressed) ==
    /\ [full EXCEPT !.elements = {}] = [compressed EXCEPT !.elements = {}, !.fraction = FALSE]
    /\ DOMAIN full.elements = DOMAIN compressed.elements
    /\ \A coll \in DOMAIN full.elements :
           LET leaves == full.elements[coll]
               flat == compressed.elements[coll]
           IN /\ DOMAIN flat = {leaves[n].name : n \in 1..Len(leaves)}
              /\ \A n \in 1..Len(leaves) :
                     \/ flat[leaves[n].name] = <<leaves[n].type, leaves[n].value[2]>>
                     \/ coll = "cb" /\ KeptBy(request.core, leaves[n])

EnFormsAgree ==
    (Served("en18222") /\ page.form = "compressed") =>
        FormsAgree(RenderEn(request.core, "full"), page.body)

(* The views of a passport are about the same subject and name the same    *)
(* profiles in one order.  Subject: the triad and the stub read back, and  *)
(* of the EN page the leaf that has all of it; the EN header stands for    *)
(* the product without lot and serial.  Profiles: the triad's standards,   *)
(* the stub, the EN header, and the credentials read back, in which the    *)
(* lenses of the stamps follow in the order of the log.  (untp.rs:125-207, *)
(* :249-353; ingest.rs:201-288; en18222.rs:103-108, :128-135, :190-194.)   *)
Names(bindings) == [n \in 1..Len(bindings) |-> bindings[n].standard]

Unqualified(i) == [kind |-> i.kind, key |-> i.key, lot |-> None, serial |-> None]

LeafValues(form, leaves, name) ==
    IF form = "full" THEN {leaves[n].value[2] : n \in {m \in 1..Len(leaves) : leaves[m].name = name}}
    ELSE {leaves[name][2]}

ViewsNameTheProfiles ==
    LET c == request.core
        places == StampPlaces(c)
        profiles == Names(c.profiles)
        lenses == [n \in 1..Len(places) |-> c.log[places[n]].stamp.lens]
    IN /\ Served("untp") =>
             LET stub == ParseStub(page.triad)
             IN /\ ParseIdentity(page.triad.ids) = c.product /\ stub.subject = c.product
                /\ page.triad.standards = profiles /\ Names(stub.profiles) = profiles
                /\ Names(ConformityBindings(page.triad.conformity)) = profiles \o lenses
       /\ Served("en18222") =>
             LET header == <<[scheme |-> SchemeUri(c.product), value |-> page.body.product]>>
                 subjects == LeafValues(page.form, page.body.elements.c0, <<"UniqueProductIdentifier">>)
             IN /\ ParseIdentity(header) = Unqualified(c.product)
                /\ {ParseDisplay(t) : t \in subjects} = {c.product}
                /\ Tail(page.body.specifications) = profiles
=============================================================================
