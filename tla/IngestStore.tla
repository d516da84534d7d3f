------------------------------- MODULE IngestStore -------------------------------
(***************************************************************************)
(* The ingested passports of a gateway (ingest.rs, IngestStore) behind its *)
(* POST /untp/ingest: a passport VC mints a passport whose id is a digest  *)
(* of the subject alone, so that the subject, however it is written and    *)
(* whenever it is imported, has one passport.  The store is in memory.     *)
(***************************************************************************)
EXTENDS Untp

CONSTANTS
    Digest,         \* the derived passport id, 12 digits of a SHA-256, by what is hashed
    Today,          \* the date a passport gets that is imported without one
    Posted          \* the bodies that may be posted

ASSUME IngestAssumption ==
    /\ Digest \in [Text -> PassportId]
    /\ Today \in Instant
    /\ Posted \subseteq Body

(* No two subjects in play share the 12 digits.                            *)
NoCollision ==
    \A i, j \in Identity : Digest[Display(i)] = Digest[Display(j)] => i = j

ASSUME CollisionAssumption == NoCollision

VARIABLES
    entries,        \* ingested passports by id
    receipts,       \* their import receipts by id
    reply,          \* the answer to the last call
    minted          \* every passport id any run of the gateway has given to a subject

ingestVars == <<entries, receipts, reply, minted>>

Receipt == [body : Body, bindings : Nat]

Reply ==
    [status : {"none", "degraded"}]
        \cup [status : {"imported", "matched"}, subject : Identity, passport : Passport, receipt : Receipt]

IngestTypeOK ==
    /\ DOMAIN entries \subseteq PassportId /\ \A id \in DOMAIN entries : entries[id] \in Passport
    /\ DOMAIN receipts = DOMAIN entries /\ \A id \in DOMAIN receipts : receipts[id] \in Receipt
    /\ reply \in Reply
    /\ minted \subseteq Identity \X PassportId

NothingIngested == entries = <<>> /\ receipts = <<>>

IngestInit == NothingIngested /\ reply = [status |-> "none"] /\ minted = {}

----------------------------------------------------------------------------
DerivedPassportIdOfText(ids) == Digest[ids[1].value]
DerivedPassportIdOfModel(ids) == Digest[[Display(ParseIdentity(ids)) EXCEPT !.serial = None]]

DerivedPassportId(ids) == Digest[Display(ParseIdentity(ids))]

(* Nothing is minted for a body without a passport VC, without a subject   *)
(* or whose subject the core does not mint.                                *)
Readable(body) == body.shape # "none" /\ ParseIdentity(body.ids) # NoIdentity

(* What minting gives; the log of an import is empty, so are its stamps.   *)
Mint(body) ==
    [id |-> DerivedPassportId(body.ids), product |-> ParseIdentity(body.ids),
     from |-> IF body.from = None THEN Today ELSE body.from,
     profiles |-> ConformityBindings(body.conformity), stamps |-> <<>>]

Put(f, id, v) == [x \in DOMAIN f \cup {id} |-> IF x = id THEN v ELSE f[x]]

Answer(status, body, passport, receipt) ==
    /\ reply' = [status |-> status, subject |-> ParseIdentity(body.ids),
                 passport |-> passport, receipt |-> receipt]
    /\ minted' = minted \cup {<<ParseIdentity(body.ids), passport.id>>}

Degrade(body) ==
    /\ ~Readable(body)
    /\ reply' = [status |-> "degraded"]
    /\ UNCHANGED <<entries, receipts, minted>>

MintFails(body) ==
    /\ Readable(body)
    /\ ~body.mints
    /\ DerivedPassportId(body.ids) \notin DOMAIN entries
    /\ reply' = [status |-> "degraded"]
    /\ UNCHANGED <<entries, receipts, minted>>

(* The subject was imported before: what that gave is given again.         *)
Match(body) ==
    /\ Readable(body)
    /\ LET id == DerivedPassportId(body.ids)
       IN /\ id \in DOMAIN entries
          /\ Answer("matched", body, entries[id], receipts[id])
    /\ UNCHANGED <<entries, receipts>>

ImportOver(body) ==
    /\ Readable(body)
    /\ body.mints
    /\ LET p == Mint(body)
           r == [body |-> body, bindings |-> Len(p.profiles)]
       IN /\ entries' = Put(entries, p.id, p)
          /\ receipts' = Put(receipts, p.id, r)
          /\ Answer("imported", body, p, r)

Import(body) ==
    /\ Readable(body)
    /\ body.mints
    /\ DerivedPassportId(body.ids) \notin DOMAIN entries
    /\ LET p == Mint(body)
           r == [body |-> body, bindings |-> Len(p.profiles)]
       IN /\ entries' = Put(entries, p.id, p)
          /\ receipts' = Put(receipts, p.id, r)
          /\ Answer("imported", body, p, r)

Ingest(body) == Degrade(body) \/ MintFails(body) \/ Match(body) \/ Import(body)

(* The triad of an ingested passport, fetched and posted back.             *)
Reingest == \E id \in DOMAIN entries : Ingest(RenderTriad(entries[id]))

IngestRestart ==
    /\ entries' = <<>> /\ receipts' = <<>>
    /\ reply' = [status |-> "none"]
    /\ UNCHANGED minted

IngestNext == (\E body \in Posted : Ingest(body)) \/ Reingest \/ IngestRestart

IngestSpec == IngestInit /\ [][IngestNext]_ingestVars

----------------------------------------------------------------------------
(* The keys an ingested passport answers to.                               *)
IngestedKeys(p) == {<<"passport", p.id>>, <<"product", p.product>>}

Resolved(key) == {entries[id] : id \in {x \in DOMAIN entries : key \in IngestedKeys(entries[x])}}

(* One subject, one identity (I1), over every restart and every way to     *)
(* write the subject.  (ingest.rs:4-9, :245-254.)                          *)
SubjectKeepsItsPassport == \A m, n \in minted : m[1] = n[1] <=> m[2] = n[2]

(* What an import answers is what the store then has for its subject: the  *)
(* one passport, under its id and under its identity, with the receipt of  *)
(* its own import.  Whether a route asks the store is another matter:      *)
(* fixtures and issuer come first, and the EN route never asks.            *)
(* (ingest.rs:79-90, :146-166.)                                            *)
ReplyIsResolved ==
    reply.status \in {"imported", "matched"} =>
        /\ reply.passport.product = reply.subject
        /\ \A key \in IngestedKeys(reply.passport) : Resolved(key) = {reply.passport}
        /\ reply.receipt = receipts[reply.passport.id]
        /\ reply.receipt.bindings = Len(reply.passport.profiles)
        /\ ParseIdentity(reply.receipt.body.ids) = reply.subject

(* A later stub of the same subject changes neither the passport nor the   *)
(* receipt of the first import.  (ingest.rs:51-53, :79-90.)                *)
FirstImportStays ==
    [][\A id \in DOMAIN entries \cap DOMAIN entries' :
          entries'[id] = entries[id] /\ receipts'[id] = receipts[id]]_ingestVars

(* "re-ingesting the same triad matches instead of duplicating": what the  *)
(* gateway renders of an import is read back as that import.               *)
(* (ingest.rs:7-9; untp.rs:43-96.)                                         *)
ReingestMatches == [][Reingest => reply'.status = "matched"]_ingestVars

----------------------------------------------------------------------------
(* "every standardsConformance entry lands as a bound profile"             *)
(* (README.md:66-67).                                                      *)
StandardsAreBound ==
    reply.status = "imported" =>
        \A n \in 1..Len(reply.receipt.body.standards) :
            \E m \in 1..Len(reply.passport.profiles) :
                reply.passport.profiles[m].standard = reply.receipt.body.standards[n]
=============================================================================
