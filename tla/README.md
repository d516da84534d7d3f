# Verification of unidpp-gateway

TLA+ models of the interop gateway, model-checked with TLC and proved with TLAPS:
every invariant that a run finds to hold is also a theorem. The reference is the Rust code under `src/`; a
line such as `feedback.rs:163` is in `src/src/feedback.rs`.

## 1. The system

One process: an axum router on a multi-threaded tokio runtime over one
`AppState` (`api.rs:150-200`). Handlers share four pieces of mutable state, each
behind a `std::sync::Mutex` of its own, and none holds two of them, or one across
an await. The process keeps everything in memory except the report journal.

| Component | State | Operations | Interacts with | What makes it correct |
|---|---|---|---|---|
| report journal (`feedback.rs`) | `records`, the open file; the file itself | `open` (replay), `submit`, `get`, `list_json` | the feedback routes; the file system | receipts are cited in their lifetime; replay invents nothing; without faulty writes nothing is lost that was on file; damage is bounded |
| admission window (`feedback.rs`) | `seen`: identifier to deque of instants | `admit` | the feedback route, before the journal | a flood bound; no gratuitous refusal |
| feedback routes (`api.rs`) | what a handler holds between the two locks | `POST /feedback`, `GET /feedback/{seq}`, `GET /admin/feedback` | window, clock, journal, in that order | only admitted reports are filed, none stamped before its admission; every report is answered |
| scan-token gate (`scan.rs`) | `tokens`, `issued_per_source`, `seq`, the policy | `issue`, `admit` | in front of the two render routes | exact throttle; live tokens bounded; honest answers |
| verdict (`verdict.rs`) | local: findings, outcomes, counters, marker | `verify_passport` | called by every UNTP render | the outcome says what the evidence is; counters add up |
| UNTP render and parse (`untp.rs`) | none | `render_triad`, `parse_stub`, identifier conversions | render route, ingest | the two directions are inverse on subjects and profiles |
| ingest store (`ingest.rs`) | `entries`, `receipts` | `ingest`, `resolve` | `POST /untp/ingest`, third source of the render | one subject, one passport; the first import stays |
| passport source (`source.rs`) | fixtures, issuer URL (constant); a request's progress | `resolve`, `resolve_gtin` | the issuer, in two HTTP calls, behind the scan gate | order of the sources; failures; key rotation between the calls; how long a token is outlived |
| HTTP client (`http.rs`) | a response read in pieces | `request` | the issuer | the body is what was sent; a whole response is answered; a call ends in time |
| EN 18222 render (`en18222.rs`) | none | `render` | render route | full and compressed agree; the profiles are those of the UNTP page |
| canonical commitment (`canonical.rs`), fixtures (`fixtures.rs`), entry points | none or constant | | | |

What is hard here: handlers that interleave between the read of a clock and a
lock, or between two locks; a file that a crash or a failing write leaves in the
middle of a line, replayed and appended to by the next process; limits that bite
at exactly one minute or one lifetime; two issuer calls between which the issuer
changes; a response that comes in pieces and may stop at any byte; conversions
written separately that are meant to agree; and a verdict assembled from findings,
outcomes and counters kept side by side.
`PROJECT.json` lists these hazards line by line.

## 2. Modules

| Module | Models | Uses |
|---|---|---|
| `RateWindow` | `RateLimited::admit` by several handlers | |
| `FeedbackStore` | the journal: memory, file, lifetimes | `ReportLedger` (as its abstraction) |
| `ReportLedger` | what the journal promises: a numbered ledger that only grows and is shown whole; a process without it files aside | |
| `FeedbackChannel` | `submit_feedback` and the read routes | `RateWindow`, `FeedbackStore` |
| `ScanGate` | `ScanGate` and `issue_scan_token` | |
| `Verdict` | `verify_passport` | |
| `Selection` | the loops that pass over some entries and push the others | |
| `Untp` | identifiers, body shapes, triad, bindings, `parse_stub`: pure operators | `Selection` |
| `IngestStore` | the ingest store behind its route | `Untp` |
| `Gateway` | requests over fixtures, issuer and ingested store | `IngestStore` |
| `RenderRoutes` | the two render routes: scan gate, parameters, resolution | `Gateway`, `ScanGate` |
| `HttpClient` | `request`, piece by piece | `UpstreamCall` (as its abstraction) |
| `UpstreamCall` | what the source counts on: a call finds the whole document or misses, in time | |
| `Duration` | `duration_to_ms`, and the grammar it is meant to read | |
| `En18222` | the EN 18222 render: pure operators | `Untp` |
| `RenderPages` | what the two render routes answer once a passport is there | `En18222`, `Duration` |
| `MC...` | the instances TLC checks | |
| `...Proofs`, `SequenceFacts` | theorems; `FeedbackChannelProofs` also holds those of the window, `RenderRoutesProofs` those of the ingest store | |

### How state and actions correspond to the code

**RateWindow.** `call[w]` is what a handler holds inside `admit`. `Begin` is
`Instant::now()` (`feedback.rs:255`), *before* the mutex; `Grant` and `Refuse`
are the critical section. `ExpiredPrefix` is the `while` loop that drops the
front: as stamps may be out of order, it stops at the first entry that is not
old, not at the last. `duration_since` saturates at zero in the code; the model
subtracts, which agrees because the window is positive. `granted` is history.

**FeedbackStore.** The file is a sequence of lines and a flag that says whether
it ends in a newline. A write leaves the whole line, or an unterminated line, or
a proper prefix (`torn`), or a prefix that ends inside a multi-byte character
(`cut`), or nothing; whatever is appended to an unfinished line makes one line
that no longer parses (`Glue`). `Submit` is the whole of `submit` under its
mutex, with the write's error swallowed as at `feedback.rs:185-187`;
`CrashInSubmit` ends the process in the middle of it. `Open` is `open`, line by
line: `ReplayLine` reads one, skipping it if it is not JSON (`:155-159`), `OpenDone`
opens the file for appending (`:163`). Every error of `open` ends in `InMemoryOnly`:
`AppState::new` goes on with an empty store and no file (`api.rs:181-185`), whatever
was replayed before. The error is a line that is not UTF-8 (`OpenGivesUp`, `:146`), or
the file system's at any call, from `create_dir_all` to the last `open` (`OpenFails`,
`:140`, `:144`, `:146`, `:163`). `OpenUnseen` is `exists()` answering false for a file
it cannot look at (`:143`): nothing is replayed and the file is appended to all the
same. `OpenErrors` says which of the two a run has; they are no `faults`, and need
none. A category is `Structured` or a free text of which only the number of leading
`other:` counts. `nonce` tells reports apart; `filed` (with `kept`: the process had
the file), `life`, `faults` and `unread` (some process took a file for absent) are
history.

**FeedbackChannel.** `job[w]` is the handler's place in `submit_feedback`:
admission (in `RateWindow`), stamp (`api.rs:289`), journal (`:290-296`). Soundness
of a report is found out by `submit`, after it was admitted. `limiting` is the
configuration, chosen at every start. A crash ends everything but the file.

**ScanGate.** Issuance and admission hold the mutex from the read of the clock to
the last write, so each is one step. `IssuePanics` is the overflow of
`now + Duration` at `scan.rs:96`, after the deque and `seq` have changed; the
mutex is poisoned and every later request panics (`RequestPanics`).

**Verdict.** One action per check and per outcome of a framing, in the order of
the code. `Freshness` is reduced to the age of the last event against the
requirement; a requirement that does not parse gives `unknown`.

**Untp, IngestStore.** A text is a record of its form and its parts. `Display`
and `ParseDisplay` stand for `ProductIdentifier` of the core (external).
`ParseStub` reads the subject and the profiles of `parse_stub`, as far as the stub is
well formed. `DerivedPassportId` is the digest of the displayed identity; `Digest` is a
parameter. A body has a shape, may or may not mint, and carries identifiers,
standards and conformity credentials; `ingest` binds the credentials only, see
section 5.

**Gateway.** `req[h]` is a request's place: fixtures (in `Ask`), first issuer
call, second issuer call, ingested store. Every failure of a call, whatever its
cause, is `CallFails`; a call that hangs is ended by `TimesOut` after
`UpstreamTimeout` ticks of its timer. Time passes for all calls at once (`Waits`)
and for none beyond its timeout: a timer that is due fires, and a step that waits
for nothing is taken, before the clock moves on. `FixtureKeys` differ by route: the
EN route knows fixtures by GTIN only (`source.rs:149-152`). The issuer mints, appends events signed
with its current key and rotates keys between any two steps. The verdict is
reduced to what differs between the sources: whether all signers are among the
anchors.

**RenderRoutes.** `RequestAdmitted` is the head of `untp_product` and
`en18222_dpps`: the gate (`api.rs:515`, `:542`), then the parameters (a request
with bad ones is `TurnAway`), then the sources. Everything after it is `Resume`,
where the token plays no part any more. Gate, store and requests share the clock
and the lifetime of the process; `visit` is history.

**HttpClient.** `raw` is all that was read; `ResultOf` is what the code would do
with it without reading on, `ResultAtEnd` what it does when `read` returns 0. The
code keeps its place in one of four read loops; the model looks at all it has
after every read, which is the same since each loop does nothing but extend the
buffer and test it again. A byte is one of those the decoder tells apart; "start"
stands for the status line and headers, whose content (`parses`, `chunked`,
`length`) is a record. `DecodeChunk` is one round of the decoder's loop, from the place
it has reached and with the data it has; `DecodeChunkedBody` is as many rounds as the
body has bytes and one more, which are enough as each reads one at least. What the
issuer sends as a chunk (`IsFramed`) is a size and an extension on one line, then data
of that size; a size that is not a number is allowed, and an error.

**Duration.** A text is a sequence of characters, lengths are in hundredths of a
second. `Spelled` is the other side: the texts of `PnDTnHnMnS` with the length each
one says, put together from its parts and not by the parser's rules.

**En18222, RenderPages.** `Core` is what both renders read of a document. A leaf's
name is a tuple, its second part the slug or the number that makes it unique, or
not. `RenderEn` is `render` in both representations. In `RenderPages` a request is
one step, as a render touches no state.

## 3. Runs

| Run | Checks | Bounds, and why they are enough |
|---|---|---|
| `rate_race` (violation) | `AtMostLimitPerWindow` | two handlers, limit 2, window 2: one handler is overtaken across a whole window |
| `store_clean` | `DurableWithoutFaults`, `ImplementsLedger` | four submissions, two restarts, structured and free categories, no faulty write, opens that may fail at any call: a process without the file between two that have it |
| `store_damage` | `FreshReceiptsCited`, `ReplayNeverInvents`, `DamageBounded`, `FinishedLinesStay`, `OpeningEnds` | five submissions, two faults of any kind, two restarts, opens that may fail or take the file for absent: a tear, a report glued to it, a replay over it, a second tear |
| `store_torn_line` (violation) | `TornFinalLineTolerated` | one tear, two restarts |
| `channel` | `FloodBound`, `RefusalJustified`, `FiledWasAdmitted`, `StampedAfterAdmission`, `ReportsAnswered` | two handlers, limit 1, window 1, clock to 2, one tear, one restart, opens that may fail: both handlers are inside, one is overtaken across a window and finds it emptied, the process dies inside a write |
| `scan` | `IssuanceSpaced`, `LiveTokensBounded`, `AnswersHonest` | two sources, lifetimes off, shorter and longer than a minute of 2, five tokens, overflow reachable |
| `verdict_all` | `CountersAddUp`, `VerdictMeaning`, `FindingsExplainOutcome`, `MarkerEarned` | all combinations of the checks with up to one framing; all lists of up to three framings out of eight kinds |
| `ingest_store` | `SubjectKeepsItsPassport`, `ReplyIsResolved`, `FirstImportStays`, `ReingestMatches` | four subjects in all written forms, every way to be refused |
| `ingest_standards` (violation) | `StandardsAreBound` | the same |
| `routes` | `FixturesAnswerFirst`, `ImportsStayServed`, `PassRestsOnLiveKeys`, `FailureHasCause`, `TokenOutlivedBriefly`, `RequestsAnswered` | a fixture that is also imported, a subject only imported, a passport of the issuer asked for on both routes; gate off or tokens of one tick, an overflowing expiry, calls of one tick each, one rotation, clock to 3: a token dies in the first call, the second, or not at all. Handlers do not touch each other's state, so one is enough |
| `http_client` | `BodyIsWhatWasSent`, `WholeResponsesAreAnswered`, `ImplementsCall` | twelve responses: chunked, with a length (right, short, too long, on an error status) or to the end of the stream; payload that looks like a last chunk, leading zeros, extensions, a line that is no size, a status line that does not parse. Pieces of up to twelve bytes, an end at every byte, timer of 2 |
| `renders` | `BudgetAsWritten`, `EnFormsAgree`, `ViewsNameTheProfiles` | every text of up to four characters behind a `P`, and up to five parts: each unit missing, doubled, out of order; passports with up to three profiles, two of which share the tail of their ids, and logs of up to three events |

The runs `channel`, `scan`, `verdict_all`, `routes` and `http_client` also check a
type invariant. `verdict_all`, `http_client` and `renders` do not check deadlock: a
verification, a call and a request end. Symmetry is used where no liveness is
checked (handlers of the window, sources of the gate).

What the properties say is stated beside each of them. In short:
`FloodBound` is the bound the window really keeps: the admission that comes
`Limit` places later *enters the critical section* at least a window after the
instant *recorded* for the earlier one. `FreshReceiptsCited` holds after any
damage because numbering and citation agree within a lifetime.
`DurableWithoutFaults` and `DamageBounded` speak of the receipts of processes that had
the file: a process whose open failed gives receipts that end with it, as many as it
likes, although every write completed. It must not cost the others anything: after the next start with
the file they are all there, and `ImplementsLedger` says the same of the ledger
(`FileAside`, `StartAside`). `DamageBounded` says a faulty write costs two receipts at
most, its own and its neighbour's. `ReplyIsResolved` is about the ingest store; that a
route asks it only after fixtures and issuer, and the EN route never, is in `Gateway`
(`FixturesAnswerFirst`). `ViewsNameTheProfiles` compares what each view says of the
subject, read back, of the profiles and of the stamps, one by one; the EN header gives
the product without lot and serial (`en18222.rs:103-108`), and its page has the whole
identifier as a leaf. `PassRestsOnLiveKeys` and `FailureHasCause` bracket the two issuer
calls: no pass on a key given up before the request came, no fail without a lost
keyring or a rotated key. `TokenOutlivedBriefly` bounds how stale the gate's word
can be: whoever is told about a passport came with a living token and is answered
before the token is dead for the time of two calls. `BodyIsWhatWasSent` admits one
exception, a short body of an unchunked response whose issuer closed early;
`ImplementsCall` shows that it does no harm, as no proper prefix of a JSON object
is JSON. `EnFormsAgree` admits one too, a profile whose name a later one takes.

### Fairness

* `StoreFairness`: weak fairness of `ReplayLine`, `OpenDone`, `OpenGivesUp`. `open`
  is a loop over the lines of a file that nobody else writes. No error of the file
  system is bound to happen.
* `FairChannelSpec`: weak fairness of each handler's steps. Each handler is a
  task on a multi-threaded runtime, no handler waits while it holds a lock, and a
  lock here is always free between two steps. Nothing is assumed of crashes,
  restarts or new reports.
* `FairHttpSpec`: the clock runs and the timer fires (`tokio::time::timeout`).
  Nothing is asked of the issuer, which may stop at any byte.
* `FairRoutesSpec`: weak fairness of the clock and, for each request, of its expired
  timer and its look-up in the store. The issuer is never obliged to answer, and
  `RequestsAnswered` does not need it to.

The clock of `RenderRoutes` and `Gateway` is urgent, as said above. It is what makes
`TokenOutlivedBriefly` exact; a loaded machine adds its scheduling delay to it.

## 4. Theorems

For every value of the constants, under the assumptions of the modules:

* `FeedbackChannelProofs`, on the window alone: `RateTypeCorrect`, `RateFloodBound`,
  `RateRefusalJustified`.
  `FloodBound` is not inductive: it speaks of past admissions, the guard of `Grant`
  of the deque. `WindowInv` adds that no handler holds an instant of the future, that
  the deque of an identifier is the tail of its admissions, and that every admission
  that is no longer in the deque is a window old. A refusal is justified because the
  `Limit` entries left in the deque were all *admitted* later than a window before the
  handler's instant: the first by its stamp, the others because they came after it
  (`RateOrdered`).
* `FeedbackStoreProofs`: `StoreTypeCorrect`, `ReceiptsCited`, `ReplaySound`,
  `StoreDurable`, `DamageContained`, `LinesStay`, `LedgerImplemented`. `StoreInv` adds
  that nonces are unique in the file and in memory, that memory is what the lines
  read so far give (and after that what was filed), and counts the receipts given with
  the file that are not on it against the faults, with the last line's risk. That a
  process without the file costs the others nothing needs that it leaves the lines alone.
  The refinement needs that no write can be faulty and that no file is taken for absent
  (its sequences would start again in the middle of the ledger): `NoDamage` is this
  condition on the constants. Opens may fail, at any call.
* `FeedbackChannelProofs`, on the route: `ChannelRunsWindow` and `ChannelRunsJournal` show that the
  route implements both parts' specifications, so their theorems hold of it
  (`ChannelKeepsWindow`, `ChannelKeepsJournal`). `EveryReportAdmitted` and
  `ReportsStampedAfterAdmission` relate the two: for every instant, the reports filed
  by then and those a handler has claimed by then are no more than the admissions by
  then. The claims are needed because an admission and its report are two steps apart.
* `ScanGateProofs`: `ScanTypeCorrect`, `ScanIssuanceSpaced`, `ScanAnswersHonest`,
  `ScanLiveTokensBounded`. `ScanInv` ties the deque to the tail of the issuances, as in
  the window (until a panic leaves an instant in it that no token has), and the map to
  them: a token handed out and alive is in the map, with its end, and nothing else is.
  The bound on live tokens follows from the spacing: `IssueLimit` places are a minute.
* `VerdictProofs`: `VerdictTypeCorrect`, `VerdictCounts`, `VerdictMeans`,
  `FindingsExplain`, `MarkersAreEarned`. `VerdictInv` says what findings,
  outcomes, counters and marker are after the checks made and the framings seen.
* `RenderRoutesProofs`, on the store alone: `OneSubjectOneIdentity`, `RepliesAreResolved`,
  `ReingestsMatch`, `FirstImportsStay`, `IngestTypeCorrect`. `IngestInv` says that every
  entry stands at the digest of its own subject with the receipt of its own import;
  `ReadsBack` is the lemma that what is rendered of an identity is parsed as that identity.
* `RenderRoutesProofs`, on the routes: `RoutesRunGateway`, `GatewayRunsStore` and
  `RoutesRunGate` show that the routes implement their parts, so that what is proved of
  the store and of the gate holds of them (`RoutesKeepStore`, `RoutesKeepGate`).
  `FixturesFirst`, `ImportsServed`, `PassesOnLiveKeys` and
  `FailuresHaveCause` follow from `GatewayInv`: a request that is under way has not met
  a fixture, an import it was owed is still there, and its signers and its first key
  lie at or below the issuer's current one. `TokensOutlivedBriefly` needs the time each
  request has spent (`TimesInv`, `TimesSafety`): one call's timeout for each call before
  the one it is in, and its timer. `RoutesTypeCorrect` needs both and `TypedInv`: the
  type of an answer depends on the signers and keys a request collects on its way.
* `HttpClientProofs`: `HttpInvariant`, `HttpTypeCorrect`, `BodyIsWhole`, `WholeAnswered`,
  `HttpImplementsCall`, for every response, piece size and timeout. None of the properties
  is inductive, as they do not say what the client would do with the bytes it has.
  `HttpInv` does: while the call is open the bytes read give no result yet, and a result
  is the one these bytes, the end of the stream, a failure or the timer give. What
  remains is what the bytes of a response give. Its chunks are laid out on the
  wire one after the other; one round of the decoder, begun where a chunk begins, ends
  where the next one does, with that chunk's data added (`DecodeOne`: the first CRLF is
  the one that ends the size line, whatever the data look like), or finds the piece too
  short; by induction the decoder has the payload when it meets the last chunk, and not
  before. `HttpImplementsCall` is the safety half of `ImplementsCall`.
* `RenderPagesProofs`: `PagesSafety`, `EveryViewNamesTheProfiles`, `TheFormsAgree`,
  `BudgetsAreAsWritten`. `PagesInv` says that a page is a function of its request; the
  rest is about these functions, for every document and every text.
  *Views*: the parser reads the rendered subject back (`SubjectReadsBack`), and the
  conformity credentials are bound all and in their order (`ClaimsAreBound`).
  *Forms*: the leaves of each collection are found again, under their names, in what the
  compressed form makes of it, unless a later leaf has the name; two profiles
  are the one case in which it does.
  *Budgets*: `TimeToMs` and `DaysToMs` cut at the first of each letter, `Spelled` puts parts
  together; as no number has a letter, a text falls apart in one way only (`FirstParts`,
  `PartsFirst`), and it is accepted exactly if it is spelled, with the length it says.
  The hypothesis `Numbers = AllNumbers`, `Decimals = AllDecimals` asks for all digit texts and
  all decimals, where TLC's run takes finitely many: the theorem is about the
  whole grammar, the run about a part of it.
* `SequenceFacts`: prefixes, tails, joins and stretches of sequences, least numbers, and
  what `Selected` keeps. Induction is by `NatInductionOnSet`, over a set of numbers instead of a
  predicate, and `RecursiveFunction` says that a recursive function exists and obeys its
  equations, for a step that is a function.

Assumptions: the named `ASSUME`s only. Those with content are
`CollisionAssumption`, that no two subjects in play share the 12 hex digits kept of
their digest (`ingest.rs:253`), and `ClientAssumption`, that an issuer's chunk is
framed as chunked encoding has it. `RoutesAssumption` includes that of the gate, which the
routes run by `INSTANCE`.

Only model-checked is liveness: `OpeningEnds`, `ReportsAnswered`, `RequestsAnswered`,
and of `ImplementsCall` the part that a call ends, which its abstraction states. The prover does
not reach `ENABLED`, on which fairness rests.

## 5. Where code and documentation disagree

Checked, each by a run that TLC finds violated:

* `rate_race`: "at most `limit` reports per identifier per `window`"
  (`feedback.rs:234-235`). The clock is read before the lock (`:255-256`); an
  overtaken handler finds room that a later instant has made.
* `store_torn_line`: "A torn final line (crash mid-write) is tolerated"
  (`feedback.rs:156-157`). The next record continues the unfinished line
  (`:163`, `:185`) and is lost at the start after that.
* `ingest_standards`: "every `standardsConformance` entry lands as a bound
  profile" (`README.md:66-67`). Only `conformity` credentials are read
  (`ingest.rs:194-199`, `:256-288`).

Met while modelling, in the models as the code has them, without a run:

* "Stale/offline data degrades explicitly, never silently passes"
  (`verdict.rs:438-439`): a passport without events passes under a declared freshness
  requirement (`:170-172`), and every import is one. `verdict.rs:75-77` calls unknown
  freshness informational, if for another reason.
* "The day component is `nD`" (`verdict.rs:116`): `PD`, `PDT` and `PT` are budgets of
  zero. `Spelled` has a day without a number and a `T` without a time for this reason.
* `full_and_compressed_agree_on_every_leaf` (`en18222.rs:523`) holds of its fixture:
  two profiles whose ids share a tail, or two versions of one profile, are two leaves
  of the full form and one of the compressed (`:157-163`, `:255`). The ids of their
  conformity credentials are the same as well (`untp.rs:154-158`).
* `parse_stub` takes the profiles from `standardsConformance` (`untp.rs:301-321`),
  `ingest` from the credentials; they agree on what the gateway renders, not on what
  others post. Its id is a slug without parentheses (`:329-332`, `:385`), so that
  `(10)1(21)x` and `(10)121x` would get one.
* "every admitted report is journaled and acknowledged" (`api.rs:251-253`): a
  failed write is only logged (`feedback.rs:184-188`).
* Sequences are given again after a replay that skipped a line (`feedback.rs:180`).
* A free category grows by `other:` at every restart (`feedback.rs:47`, `:106`).
* Any error of `open`, a tear inside a character among them, makes the process serve
  from memory only (`feedback.rs:140-163`, `api.rs:181-185`): its receipts are not
  journaled, and the reports on file are not cited, until a start succeeds.
* `path.exists()` (`feedback.rs:143`) swallows errors: a file that cannot be looked at is
  not replayed, and is appended to from sequence 1 if it then opens.
* "newest first" (`feedback.rs:200`) is the order of the lock, not of the stamps,
  which are taken before it (`api.rs:289`).
* "A token with TTL 0 is born expired" (`scan.rs:91-92`), but a lifetime of 0
  switches the gate off (`:31-35`).
* "the map holds only live sessions" (`scan.rs:87-88`): a token that is not
  presented again is never removed.
* An expired token is "expired" once and "unknown" afterwards (`scan.rs:126-128`).
* A lifetime that overflows the clock poisons the gate (`scan.rs:96`).
* Token names start again with the process (`scan.rs:89-90`).
* "nothing is minted under a guessed scheme" (`ingest.rs:13-14`, `:230`): a value in the `(01)`
  form is read as a GTIN under any scheme (`untp.rs:84-96`).
* Credentials are rendered with the passport's date, not the profile's
  (`untp.rs:141-207`), so effective dates do not survive a round trip.
* An import does not answer to its bare GTIN, as a fixture does
  (`ingest.rs:160-166`, `source.rs:128-134`).
* `UNIDPP_GATEWAY_TIMEOUT_MS` is read and not used (`source.rs:102`).

## 6. What is left out

* `Instant` and the wall clock are one clock. `Timestamp::now` may step back in
  reality; `StampedAfterAdmission` would not survive that.
* The operating system's page cache: a completed write is on file. The code
  never calls `fsync`, so a crash of the machine, unlike one of the process, may
  lose more.
* GLN, GSRN and the other identity families: `Untp` has GS1 products and ISO
  15459, the two the render tells apart.
* The layout of rendered documents, cryptography, the ids of `parse_stub` and
  `mint_slug`, the canonical commitment (a serialisation and a hash), the fixtures'
  content, headers, discovery and health routes, the entry points.
* Inside the HTTP client: URL parsing and the request's bytes; header lines beyond what
  they say of framing; chunk sizes that overflow `pos + size`; bytes that are not UTF-8
  in a chunk's line. `http_client` has the outcomes of a call, `Gateway` takes them as
  `PassportArrives`, `KeyringArrives` and `CallFails`; the two are not one model.
* In `Duration`: the digits 2 to 9, decimals beyond two places, rounding of `f64`.
* In `RenderPages`: the trimming of parameters, granularity, and that the two renders of
  a passport may come at different instants.

## 7. Plan

What is left, in order of worth: the client inside `Gateway`, which needs a coarser
stream than `HttpClient`'s to stay within reach of TLC; the ids of `mint_slug` and
`parse_stub` as a bounded functional check; the canonical commitment, if only for the
order of members.
