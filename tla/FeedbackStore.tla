----------------------------- MODULE FeedbackStore -----------------------------
(***************************************************************************)
(* The report journal (feedback.rs, FeedbackStore): records in memory, one *)
(* line per record in an append-only file, replayed line by line when the  *)
(* process starts.  The store is behind a mutex, so a submission is one    *)
(* step; what may interrupt it is a failing write (logged and ignored by   *)
(* the code) or the end of the process.  Opening the file may fail too, at *)
(* any of its calls; the process then serves from memory alone.            *)
(*                                                                         *)
(* A line is written in pieces, newline last.  What a write can leave in   *)
(* the file is therefore                                                   *)
(*   whole         the line and its newline                                *)
(*   unterminated  the line, its newline missing                           *)
(*   torn          a proper prefix of the line                             *)
(*   cut           a prefix that ends inside a multi-byte character        *)
(*   nothing                                                               *)
(* and whatever is written next continues an unfinished line.              *)
(***************************************************************************)
EXTENDS Integers, Sequences, FiniteSets

CONSTANTS
    Subject,         \* identifiers reports are about
    StatedCategory,  \* categories consumers state, see Structured
    ReportInstant,   \* instants reports may carry
    WriteErrors,     \* what a failing writeln! may leave in the file
    CrashTears,      \* what a crash inside writeln! may leave, besides "whole" and "nothing"
    OpenErrors,      \* what the file system may do to open(), see OpenFails and OpenUnseen
    MaxFiled,        \* bound: submissions
    MaxFaults,       \* bound: failing writes and tears
    MaxLives         \* bound: process lifetimes

Damage == {"unterminated", "torn", "cut", "nothing"}

ASSUME StoreAssumption ==
    /\ StatedCategory \subseteq Int /\ \A c \in StatedCategory : c >= -1
    /\ ReportInstant \subseteq Nat
    /\ WriteErrors \subseteq Damage
    /\ CrashTears \subseteq Damage \ {"nothing"}
    /\ OpenErrors \subseteq {"fails", "unseen"}
    /\ MaxFiled \in Nat /\ MaxFaults \in Nat /\ MaxLives \in Nat

VARIABLES
    records,   \* FeedbackStore.records
    journal,   \* the file: its lines, the last one possibly unfinished
    ended,     \* the file is empty or ends with a newline
    attached,  \* FeedbackStore.journal is Some
    phase,     \* "opening" while open() replays, then "serving"
    cursor,    \* next line open() reads
    filed,     \* history: every submission that passed validation
    life,      \* history: number of the process lifetime
    faults,    \* history: failing writes and tears so far
    unread     \* history: some lifetime has served on a file it had not read

storeVars == <<records, journal, ended, attached, phase, cursor, filed, life, faults, unread>>

----------------------------------------------------------------------------
(* A category is Structured (one of the two typed ones) or a free text, of *)
(* which all that matters is how many times it starts with "other:".       *)
(* as_str puts one such prefix in front of a free text; parse strips none. *)
Structured == -1
AsStr(c) == IF c = Structured THEN c ELSE c + 1
Parse(text) == text

Category == {c \in Int : c >= -1}
Record == [seq : Nat \ {0}, at : ReportInstant, id : Subject, category : Category, nonce : Nat \ {0}]

(* to_json: the form a record takes in the journal, a receipt, a citation. *)
Wire(r) == [r EXCEPT !.category = AsStr(@)]

(* from_json of a wire form.                                               *)
FromWireRenumbered(d) == [d EXCEPT !.category = Parse(@), !.seq = Len(records) + 1]
FromWire(d) == [d EXCEPT !.category = Parse(@)]

(* FeedbackStore::get: by position, whatever sequence the record carries.  *)
HasCitation(seq) == seq \in 1..Len(records)
Citation(seq) == Wire(records[seq])

Intact(d) == [kind |-> "intact", rec |-> d]
Torn == [kind |-> "torn"]
Cut == [kind |-> "cut"]
Line == [kind : {"intact"}, rec : Record] \cup {Torn, Cut}

Piece(r, left) ==
    CASE left \in {"whole", "unterminated"} -> Intact(Wire(r))
      [] left = "torn" -> Torn
      [] left = "cut" -> Cut

(* An unfinished line followed by more text is one line that no longer     *)
(* parses, and is not UTF-8 if either part is not.                         *)
Glue(line, piece) == IF Cut \in {line, piece} THEN Cut ELSE Torn

ExtendOverLast(piece) ==
    IF journal = <<>> THEN <<piece>> ELSE [journal EXCEPT ![Len(journal)] = piece]

Extend(piece) ==
    IF ended THEN Append(journal, piece)
    ELSE [journal EXCEPT ![Len(journal)] = Glue(@, piece)]

StoreTypeOK ==
    /\ records \in Seq(Record)
    /\ journal \in Seq(Line)
    /\ ended \in BOOLEAN
    /\ ~ended => Len(journal) > 0
    /\ attached \in BOOLEAN
    /\ phase \in {"opening", "serving"}
    /\ cursor \in Nat \ {0}
    /\ filed \in Seq([doc : Record, life : Nat, kept : BOOLEAN, acked : BOOLEAN])
    /\ life \in Nat
    /\ faults \in Nat
    /\ unread \in BOOLEAN

StoreInit ==
    /\ records = <<>>
    /\ journal = <<>>
    /\ ended = TRUE
    /\ attached = FALSE
    /\ phase = "opening"
    /\ cursor = 1
    /\ filed = <<>>
    /\ life = 0
    /\ faults = 0
    /\ unread = FALSE

----------------------------------------------------------------------------
NextSeqFromLast == IF records = <<>> THEN 1 ELSE records[Len(records)].seq + 1
NextSeq == Len(records) + 1

NewRecord(s, c, now) ==
    [seq |-> NextSeq, at |-> now, id |-> s, category |-> Parse(c), nonce |-> Len(filed) + 1]

WriteLineUnended(r, left) ==
    IF attached /\ left # "nothing"
    THEN journal' = Extend(Piece(r, left)) /\ ended' = FALSE
    ELSE UNCHANGED <<journal, ended>>

WriteLine(r, left) ==
    IF attached /\ left # "nothing"
    THEN journal' = Extend(Piece(r, left)) /\ ended' = (left = "whole")
    ELSE UNCHANGED <<journal, ended>>

Faulty(isFault) ==
    /\ isFault => faults < MaxFaults
    /\ faults' = IF isFault THEN faults + 1 ELSE faults

CanSubmit == phase = "serving" /\ Len(filed) < MaxFiled

Filed(r, isAcked) == [doc |-> Wire(r), life |-> life, kept |-> attached, acked |-> isAcked]

(* submit: a write that fails is reported on stderr and otherwise ignored: *)
(* the record is kept in memory and the receipt is given.  A store without *)
(* a file writes nothing.                                                  *)
Submit(s, c, now, left) ==
    /\ CanSubmit
    /\ left \in {"whole"} \cup (IF attached THEN WriteErrors ELSE {})
    /\ LET r == NewRecord(s, c, now)
       IN /\ WriteLine(r, left)
          /\ records' = Append(records, r)
          /\ filed' = Append(filed, Filed(r, TRUE))
    /\ Faulty(left # "whole")
    /\ UNCHANGED <<attached, phase, cursor, life, unread>>

Down ==
    /\ life < MaxLives
    /\ life' = life + 1
    /\ records' = <<>>
    /\ attached' = FALSE
    /\ phase' = "opening"
    /\ cursor' = 1
    /\ UNCHANGED unread

(* The process ends inside submit, anywhere in the write.                  *)
CrashInSubmit(s, c, now, left) ==
    /\ CanSubmit
    /\ left \in {"whole", "nothing"} \cup (IF attached THEN CrashTears ELSE {})
    /\ LET r == NewRecord(s, c, now)
       IN /\ WriteLine(r, left)
          /\ filed' = Append(filed, Filed(r, FALSE))
    /\ Faulty(left \notin {"whole", "nothing"})
    /\ Down

Crash ==
    /\ Down
    /\ UNCHANGED <<journal, ended, filed, faults>>

----------------------------------------------------------------------------
(* open: one line of the replay.  A line that does not parse is reported   *)
(* and skipped.                                                            *)
ReplayLineStuck ==
    /\ phase = "opening"
    /\ cursor <= Len(journal)
    /\ journal[cursor] # Cut
    /\ records' = IF journal[cursor].kind = "intact"
                  THEN Append(records, FromWire(journal[cursor].rec))
                  ELSE records
    /\ cursor' = IF journal[cursor].kind = "intact" THEN cursor + 1 ELSE cursor
    /\ UNCHANGED <<journal, ended, attached, phase, filed, life, faults, unread>>

ReplayLine ==
    /\ phase = "opening"
    /\ cursor <= Len(journal)
    /\ journal[cursor] # Cut
    /\ records' = IF journal[cursor].kind = "intact"
                  THEN Append(records, FromWire(journal[cursor].rec))
                  ELSE records
    /\ cursor' = cursor + 1
    /\ UNCHANGED <<journal, ended, attached, phase, filed, life, faults, unread>>

(* The file is opened for appending, as it is.                             *)
OpenDoneEarly ==
    /\ phase = "opening"
    /\ cursor >= Len(journal)
    /\ attached' = TRUE
    /\ phase' = "serving"
    /\ UNCHANGED <<records, journal, ended, cursor, filed, life, faults, unread>>

OpenDone ==
    /\ phase = "opening"
    /\ cursor > Len(journal)
    /\ attached' = TRUE
    /\ phase' = "serving"
    /\ UNCHANGED <<records, journal, ended, cursor, filed, life, faults, unread>>

(* Every error of open ends in AppState::new with an empty store that has  *)
(* no file, whatever was replayed before it.                               *)
InMemoryOnly ==
    /\ phase = "opening"
    /\ records' = <<>>
    /\ attached' = FALSE
    /\ phase' = "serving"
    /\ UNCHANGED <<journal, ended, cursor, filed, life, faults, unread>>

(* A line that is not UTF-8 is an error of the iterator.                   *)
OpenGivesUp ==
    /\ cursor <= Len(journal)
    /\ journal[cursor] = Cut
    /\ InMemoryOnly

(* The directory cannot be made, the file cannot be opened, a read fails   *)
(* at any line, or the replay is over and the file does not open for       *)
(* appending.  A deployment without a journal file starts like this too.   *)
OpenFails ==
    /\ "fails" \in OpenErrors
    /\ InMemoryOnly

(* exists() answers false as well when it cannot tell: nothing is replayed *)
(* and the file is opened for appending all the same.                      *)
OpenUnseen ==
    /\ "unseen" \in OpenErrors
    /\ phase = "opening"
    /\ cursor = 1
    /\ attached' = TRUE
    /\ phase' = "serving"
    /\ unread' = (unread \/ journal # <<>>)
    /\ UNCHANGED <<records, journal, ended, cursor, filed, life, faults>>

Open == ReplayLine \/ OpenDone \/ OpenGivesUp \/ OpenFails \/ OpenUnseen

(* get and list_json read under the same mutex and change nothing.         *)
Read ==
    /\ phase = "serving"
    /\ UNCHANGED storeVars

StoreNext ==
    \/ \E s \in Subject, c \in StatedCategory, now \in ReportInstant :
         \/ \E left \in {"whole"} \cup WriteErrors : Submit(s, c, now, left)
         \/ \E left \in {"whole", "nothing"} \cup CrashTears : CrashInSubmit(s, c, now, left)
    \/ Crash
    \/ Open
    \/ Read

StoreSpec == StoreInit /\ [][StoreNext]_storeVars

(* open() runs to its end once the process is started.  No error of the    *)
(* file system is bound to happen.                                         *)
StoreFairness == WF_storeVars(ReplayLine) /\ WF_storeVars(OpenDone) /\ WF_storeVars(OpenGivesUp)

FairStoreSpec == StoreSpec /\ StoreFairness

----------------------------------------------------------------------------
SameReport(d, e) == [d EXCEPT !.category = Structured] = [e EXCEPT !.category = Structured]

OnFile(d) == \E k \in 1..Len(journal) : journal[k] = Intact(d)

Receipts == {n \in 1..Len(filed) : filed[n].acked}

(* In the lifetime that issued it, a receipt's sequence cites exactly the  *)
(* report it was issued for, also after a damaged replay has left gaps.    *)
(* (feedback.rs:193-198, get is by position, submit by length.)            *)
FreshReceiptsCited ==
    \A n \in Receipts : filed[n].life = life =>
        /\ HasCitation(filed[n].doc.seq)
        /\ Citation(filed[n].doc.seq) = filed[n].doc

(* Replay never invents or alters a report, whatever a tear has left on    *)
(* file: a record in memory is, but for its category, a submission some    *)
(* consumer made, and no submission is held twice.  (feedback.rs:143-162.) *)
ReplayNeverInvents ==
    /\ \A k \in 1..Len(records) : \E n \in 1..Len(filed) : SameReport(records[k], filed[n].doc)
    /\ \A j, k \in 1..Len(records) : j # k => records[j].nonce # records[k].nonce

(* While every write has completed and no process has taken the file for   *)
(* absent, restarts lose nothing: a process that has the file cites, at    *)
(* its sequence, every receipt ever issued by a process that had it.  What *)
(* a failed open costs is its own lifetime: the receipts given then, and   *)
(* the citations of the others until the next start.                       *)
(* (feedback.rs:124-125, "replayed on open"; api.rs:181-185, "in-memory    *)
(* only".)                                                                 *)
DurableWithoutFaults ==
    (faults = 0 /\ ~unread /\ phase = "serving" /\ attached) =>
        \A n \in Receipts : filed[n].kept =>
            /\ HasCitation(filed[n].doc.seq)
            /\ SameReport(Citation(filed[n].doc.seq), filed[n].doc)

(* A faulty write costs two receipts at most, its own and the one of the   *)
(* line it is glued to or that is glued to it: damage does not spread.     *)
(* Receipts of a process that had no file are not on file by design and    *)
(* are not counted.  (feedback.rs:155-158, :184-188.)                      *)
AtRisk ==
    IF ended THEN 0 ELSE IF journal[Len(journal)].kind = "intact" THEN 2 ELSE 1

DamageBounded ==
    Cardinality({n \in Receipts : filed[n].kept /\ ~OnFile(filed[n].doc)}) + AtRisk <= 2 * faults

(* Once a report is on a finished line it stays on file: nothing the store *)
(* does later takes it away.  (feedback.rs:163, append only.)              *)
FinishedLinesStay ==
    [][\A k \in 1..Len(journal) : (k < Len(journal) \/ ended) =>
           k <= Len(journal') /\ journal'[k] = journal[k]]_storeVars

(* A started process gets to serve, whatever the file holds, unless it     *)
(* ends again.  (api.rs:181-185.)                                          *)
OpeningEnds == \A n \in 0..MaxLives : (phase = "opening" /\ life = n) ~> (phase = "serving" \/ life > n)

(* Without faults the store is a ledger: the file holds every submission   *)
(* made while a process had it, numbered from 1, and readers are shown all *)
(* of it as soon as the replay is over.  A process whose open failed shows *)
(* its own reports only, numbered from 1 as well, and the ledger stays as  *)
(* it is.  Categories are left aside, they do change.                      *)
(* (feedback.rs:5-9, "journaled (append-only JSONL), sequenced".)          *)
Entry(d) == [seq |-> d.seq, at |-> d.at, id |-> d.id, nonce |-> d.nonce]

Ledger == INSTANCE ReportLedger WITH
    ledger <- [k \in 1..Len(journal) |-> Entry(journal[k].rec)],
    shown <- IF phase = "serving" THEN [k \in 1..Len(records) |-> Entry(records[k])] ELSE <<>>,
    up <- phase = "serving",
    kept <- attached

ImplementsLedger == Ledger!LedgerSpec

----------------------------------------------------------------------------
(* "A torn final line (crash mid-write) is tolerated" (feedback.rs:156):   *)
(* after the restart no receipt is lost.                                   *)
TornFinalLineTolerated ==
    phase = "serving" =>
        \A n \in Receipts : \E k \in 1..Len(records) : SameReport(records[k], filed[n].doc)
=============================================================================
