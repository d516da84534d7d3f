-------------------------- MODULE FeedbackStoreProofs --------------------------
(***************************************************************************)
(* What the report journal guarantees for every number of submissions,     *)
(* crashes and faults.  The invariant is a conjunction of parts that are   *)
(* proved one after the other, each from the ones before it.               *)
(***************************************************************************)
EXTENDS FeedbackStore, SequenceFacts, FiniteSetTheorems

Filing == [doc : Record, life : Nat, kept : BOOLEAN, acked : BOOLEAN]

(* A receipt of this lifetime is at its position in memory.                *)
FreshInv ==
    \A n \in 1..Len(filed) :
        /\ filed[n].life <= life
        /\ (filed[n].acked /\ filed[n].life = life) =>
              /\ phase = "serving"
              /\ filed[n].doc.seq \in 1..Len(records)
              /\ Wire(records[filed[n].doc.seq]) = filed[n].doc

(* As long as no write has failed and no process has missed the file, the  *)
(* lines are the ledger, memory is what they give wherever it comes from   *)
(* the file, and every receipt of a process that had the file is on file   *)
(* at its own number.                                                      *)
CleanInv ==
    (faults = 0 /\ ~unread) =>
        /\ ended
        /\ \A k \in 1..Len(journal) : journal[k].kind = "intact" /\ journal[k].rec.seq = k
        /\ attached => Len(records) = Len(journal)
        /\ phase = "opening" => ~attached /\ cursor = Len(records) + 1 /\ Len(records) <= Len(journal)
        /\ (phase = "opening" \/ attached) =>
              \A k \in 1..Len(records) : SameReport(records[k], journal[k].rec)
        /\ \A n \in 1..Len(filed) : (filed[n].acked /\ filed[n].kept) =>
              /\ filed[n].doc.seq \in 1..Len(journal)
              /\ journal[filed[n].doc.seq] = Intact(filed[n].doc)

(* Where lines and records come from: the nonce of a report is its place   *)
(* in the history.                                                         *)
NonceInv == \A n \in 1..Len(filed) : filed[n].doc.nonce = n

LinesInv ==
    /\ \A k \in 1..Len(journal) : journal[k].kind = "intact" =>
          /\ journal[k].rec.nonce \in 1..Len(filed)
          /\ journal[k].rec = filed[journal[k].rec.nonce].doc
    /\ \A j, k \in 1..Len(journal) :
          (journal[j].kind = "intact" /\ journal[k].kind = "intact" /\ j # k) =>
              journal[j].rec.nonce # journal[k].rec.nonce

RecordsInv ==
    /\ \A k \in 1..Len(records) :
          /\ records[k].nonce \in 1..Len(filed)
          /\ SameReport(records[k], filed[records[k].nonce].doc)
    /\ \A j, k \in 1..Len(records) : j # k => records[j].nonce # records[k].nonce
    /\ phase = "opening" =>
          \A k \in 1..Len(records), j \in cursor..Len(journal) :
              journal[j].kind = "intact" => records[k].nonce # journal[j].rec.nonce

(* The receipts that should be on file and are not, weighed against the    *)
(* faults.                                                                 *)
Lost == {n \in Receipts : filed[n].kept /\ ~OnFile(filed[n].doc)}

DamageInv == Cardinality(Lost) + AtRisk <= 2 * faults

----------------------------------------------------------------------------
(* Records, lines and forms.                                               *)

LEMMA WireFacts ==
    ASSUME NEW r \in Record
    PROVE  /\ Wire(r) \in Record /\ FromWire(r) \in Record
           /\ Wire(r).seq = r.seq /\ Wire(r).nonce = r.nonce
           /\ FromWire(r) = r
<1>1. r.category \in Int /\ r.category >= -1
  BY DEF Record, Category
<1>2. AsStr(r.category) \in Category
  BY <1>1 DEF AsStr, Category, Structured
<1> QED
  BY <1>2 DEF Wire, FromWire, Parse, Record

(* Two documents state the same report when they agree on everything but   *)
(* the category.                                                           *)
LEMMA SameReportFacts ==
    ASSUME NEW d \in Record, NEW e \in Record
    PROVE  /\ SameReport(d, e) <=> d.seq = e.seq /\ d.at = e.at /\ d.id = e.id /\ d.nonce = e.nonce
           /\ SameReport(d, d)
           /\ SameReport(d, Wire(d)) /\ SameReport(Wire(d), d)
           /\ SameReport(d, e) => SameReport(Wire(d), e)
<1> DEFINE plain(r) == [seq |-> r.seq, at |-> r.at, id |-> r.id, category |-> Structured, nonce |-> r.nonce]
<1>1. \A r \in Record : [r EXCEPT !.category = Structured] = plain(r)
  BY DEF Record
<1>2. ASSUME NEW r \in Record, NEW s \in Record
      PROVE  SameReport(r, s) <=> r.seq = s.seq /\ r.at = s.at /\ r.id = s.id /\ r.nonce = s.nonce
  BY <1>1 DEF SameReport
<1>3. \A r \in Record : Wire(r) \in Record /\ Wire(r).seq = r.seq /\ Wire(r).at = r.at
                        /\ Wire(r).id = r.id /\ Wire(r).nonce = r.nonce
  BY WireFacts DEF Wire, Record
<1> QED BY <1>2, <1>3

LEMMA PieceFacts ==
    ASSUME NEW r \in Record, NEW left \in {"whole", "unterminated", "torn", "cut"}
    PROVE  /\ Piece(r, left) \in Line
           /\ left \in {"whole", "unterminated"} => Piece(r, left) = Intact(Wire(r))
           /\ left \in {"torn", "cut"} => Piece(r, left).kind # "intact"
  BY WireFacts DEF Piece, Line, Intact, Torn, Cut

(* What one write does to the file.                                        *)
LEMMA WriteFacts ==
    ASSUME StoreTypeOK, NEW r \in Record, NEW left \in {"whole"} \cup Damage, WriteLine(r, left)
    PROVE  /\ journal' \in Seq(Line) /\ ended' \in BOOLEAN /\ (~ended' => Len(journal') > 0)
           /\ Len(journal) \in Nat
           /\ \A k \in 1..Len(journal) : (k < Len(journal) \/ ended) => journal'[k] = journal[k]
           /\ Len(journal') \in {Len(journal), Len(journal) + 1}
           /\ (attached /\ left # "nothing") =>
                /\ ended' = (left = "whole")
                /\ ended => /\ Len(journal') = Len(journal) + 1
                            /\ journal'[Len(journal) + 1] = Piece(r, left)
                /\ ~ended => /\ Len(journal') = Len(journal)
                             /\ journal'[Len(journal)].kind # "intact"
                             /\ journal'[Len(journal)] = Glue(journal[Len(journal)], Piece(r, left))
           /\ (~attached \/ left = "nothing") => journal' = journal /\ ended' = ended
<1>1. journal \in Seq(Line) /\ Len(journal) \in Nat /\ ended \in BOOLEAN /\ (~ended => Len(journal) > 0)
  BY LenProperties DEF StoreTypeOK
<1>2. CASE ~attached \/ left = "nothing"
  BY <1>1, <1>2 DEF WriteLine
<1>3. CASE attached /\ left # "nothing" /\ ended
  <2> DEFINE p == Piece(r, left)
  <2>1. p \in Line
    BY <1>3, PieceFacts DEF Damage
  <2>2. journal' = Append(journal, p) /\ ended' = (left = "whole")
    BY <1>3 DEF WriteLine, Extend
  <2> HIDE DEF p
  <2>3. /\ journal' \in Seq(Line) /\ Len(journal') = Len(journal) + 1
        /\ \A k \in 1..Len(journal) : journal'[k] = journal[k]
        /\ journal'[Len(journal) + 1] = p
    BY <1>1, <2>1, <2>2, AppendLast
  <2>4. Len(journal') > 0
    BY <1>1, <2>3
  <2> QED BY <1>1, <1>3, <2>2, <2>3, <2>4 DEF p
<1>4. CASE attached /\ left # "nothing" /\ ~ended
  <2> DEFINE p == Piece(r, left)
             l == Len(journal)
  <2>1. journal' = [journal EXCEPT ![l] = Glue(journal[l], p)] /\ ended' = (left = "whole")
    BY <1>4 DEF WriteLine, Extend
  <2>2. Glue(journal[l], p) \in Line /\ Glue(journal[l], p).kind # "intact"
    BY DEF Glue, Line, Torn, Cut
  <2>3. l \in 1..Len(journal) /\ l \in Nat
    BY <1>1, <1>4
  <2> DEFINE x == Glue(journal[l], p)
  <2> HIDE DEF x, p
  <2>4. /\ journal' \in Seq(Line) /\ Len(journal') = Len(journal)
        /\ \A k \in 1..Len(journal) : journal'[k] = IF k = l THEN x ELSE journal[k]
    BY <1>1, <2>1, <2>2, <2>3, ExceptSeq DEF x
  <2>5. journal'[l] = x /\ \A k \in 1..Len(journal) : k < l => journal'[k] = journal[k]
    BY <2>3, <2>4
  <2> QED BY <1>1, <1>4, <2>1, <2>2, <2>3, <2>4, <2>5 DEF x, p
<1> QED BY <1>2, <1>3, <1>4, <1>1

(* A new record is well formed, and numbered by the length of the store.   *)
LEMMA NewRecordFacts ==
    ASSUME StoreTypeOK, NEW s \in Subject, NEW c \in StatedCategory, NEW now \in ReportInstant
    PROVE  /\ NewRecord(s, c, now) \in Record
           /\ NewRecord(s, c, now).seq = Len(records) + 1
           /\ NewRecord(s, c, now).nonce = Len(filed) + 1
<1>1. Len(records) \in Nat /\ Len(filed) \in Nat
  BY LenProperties DEF StoreTypeOK
<1>2. c \in Category
  BY StoreAssumption DEF Category
<1> QED BY <1>1, <1>2 DEF NewRecord, NextSeq, Parse, Record

----------------------------------------------------------------------------
(* Type correctness.                                                       *)

(* What the history takes down of a submission.                            *)
LEMMA FiledFacts ==
    ASSUME StoreTypeOK, NEW r, Wire(r) \in Record, NEW b \in BOOLEAN
    PROVE  /\ Filed(r, b) \in Filing
           /\ Filed(r, b).doc = Wire(r) /\ Filed(r, b).life = life
           /\ Filed(r, b).kept = attached /\ Filed(r, b).acked = b
<1>1. life \in Nat /\ attached \in BOOLEAN
  BY DEF StoreTypeOK
<1> QED BY <1>1 DEF Filed, Filing

(* What both submissions share: the history grows by the new report, the   *)
(* file by what the write leaves.                                          *)
LEMMA SubmissionFacts ==
    ASSUME StoreTypeOK, NEW s \in Subject, NEW c \in StatedCategory, NEW now \in ReportInstant,
           NEW left, Submit(s, c, now, left) \/ CrashInSubmit(s, c, now, left)
    PROVE  LET r == NewRecord(s, c, now)
           IN  /\ r \in Record /\ r.seq = Len(records) + 1 /\ r.nonce = Len(filed) + 1
               /\ Wire(r) \in Record /\ Wire(r).seq = r.seq /\ Wire(r).nonce = r.nonce
               /\ left \in {"whole"} \cup Damage
               /\ WriteLine(r, left)
               /\ phase = "serving"
               /\ Len(filed) \in Nat /\ Len(records) \in Nat
               /\ filed' \in Seq(Filing) /\ Len(filed') = Len(filed) + 1
               /\ \A n \in 1..Len(filed) : filed'[n] = filed[n]
               /\ filed'[Len(filed) + 1].doc = Wire(r)
               /\ filed'[Len(filed) + 1].life = life
               /\ filed'[Len(filed) + 1].kept = attached
               /\ \A n \in 1..Len(filed') : n \in 1..Len(filed) \/ n = Len(filed) + 1
               /\ unread' = unread
<1> DEFINE r == NewRecord(s, c, now)
<1>1. r \in Record /\ r.seq = Len(records) + 1 /\ r.nonce = Len(filed) + 1
  BY NewRecordFacts
<1>2. Wire(r) \in Record /\ Wire(r).seq = r.seq /\ Wire(r).nonce = r.nonce
  BY <1>1, WireFacts
<1>3. left \in {"whole"} \cup Damage /\ WriteLine(r, left) /\ phase = "serving"
  BY StoreAssumption DEF Submit, CrashInSubmit, CanSubmit, Damage
<1>4. PICK b \in BOOLEAN : filed' = Append(filed, Filed(r, b))
  BY DEF Submit, CrashInSubmit
<1> DEFINE x == Filed(r, b)
<1>5. x \in Filing /\ x.doc = Wire(r) /\ x.life = life /\ x.kept = attached
  <2> HIDE DEF r
  <2> QED BY <1>2, FiledFacts DEF Filing
<1>a. unread' = unread
  BY DEF Submit, CrashInSubmit, Down
<1>6. filed \in Seq(Filing) /\ records \in Seq(Record)
  BY DEF StoreTypeOK, Filing
<1>7. Len(records) \in Nat
  BY <1>6, LenProperties
<1> HIDE DEF x, r
<1>8. filed' = Append(filed, x)
  BY <1>4 DEF x
<1>9. /\ filed' \in Seq(Filing) /\ Len(filed) \in Nat /\ Len(filed') = Len(filed) + 1
      /\ \A n \in 1..Len(filed) : filed'[n] = filed[n]
      /\ filed'[Len(filed) + 1] = x
      /\ \A n \in 1..Len(filed') : n \in 1..Len(filed) \/ n = Len(filed) + 1
  BY <1>5, <1>6, <1>8, AppendLast
<1> QED BY <1>1, <1>2, <1>3, <1>5, <1>7, <1>9, <1>a DEF r

(* A receipt is given by Submit and never by a crash.                      *)
LEMMA AckedFacts ==
    ASSUME StoreTypeOK, NEW s \in Subject, NEW c \in StatedCategory, NEW now \in ReportInstant, NEW left
    PROVE  /\ Submit(s, c, now, left) => filed'[Len(filed) + 1].acked = TRUE
           /\ CrashInSubmit(s, c, now, left) => filed'[Len(filed) + 1].acked = FALSE
<1>1. filed \in Seq(Filing)
  BY DEF StoreTypeOK, Filing
<1>2. ASSUME NEW b \in BOOLEAN, filed' = Append(filed, Filed(NewRecord(s, c, now), b))
      PROVE  filed'[Len(filed) + 1].acked = b
  <2> DEFINE x == Filed(NewRecord(s, c, now), b)
  <2>1. x \in Filing /\ x.acked = b
    BY NewRecordFacts, WireFacts, FiledFacts
  <2>2. filed' = Append(filed, x)
    BY <1>2
  <2> HIDE DEF x
  <2>3. filed'[Len(filed) + 1] = x
    BY <1>1, <2>1, <2>2, AppendLast
  <2> QED BY <2>1, <2>3
<1> QED BY <1>2 DEF Submit, CrashInSubmit

LEMMA FaultyFacts ==
    ASSUME StoreTypeOK, NEW b \in BOOLEAN, Faulty(b)
    PROVE  /\ faults' \in Nat /\ (faults' = 0 => faults = 0 /\ ~b)
           /\ b => faults' = faults + 1
           /\ ~b => faults' = faults
  BY DEF Faulty, StoreTypeOK

LEMMA DownFacts ==
    ASSUME StoreTypeOK, Down
    PROVE  /\ life' = life + 1 /\ life' \in Nat /\ records' = <<>> /\ records' \in Seq(Record)
           /\ Len(records') = 0 /\ attached' \in BOOLEAN /\ ~attached'
           /\ phase' = "opening" /\ cursor' = 1 /\ unread' = unread
<1>1. <<>> \in Seq(Record) /\ Len(<<>>) = 0
  BY EmptySeq
<1>2. attached' \in BOOLEAN /\ ~attached'
  BY Zenon DEF Down
<1> QED BY <1>1, <1>2 DEF Down, StoreTypeOK

(* A failing open, whatever fails: an empty memory and no file.            *)
LEMMA InMemoryFacts ==
    ASSUME OpenGivesUp \/ OpenFails
    PROVE  /\ phase = "opening" /\ phase' = "serving"
           /\ records' = <<>> /\ records' \in Seq(Record) /\ Len(records') = 0
           /\ attached' \in BOOLEAN /\ ~attached'
           /\ journal' = journal /\ ended' = ended /\ cursor' = cursor /\ filed' = filed
           /\ life' = life /\ faults' = faults /\ unread' = unread
<1>1. InMemoryOnly
  BY DEF OpenGivesUp, OpenFails
<1>2. <<>> \in Seq(Record) /\ Len(<<>>) = 0
  BY EmptySeq
<1>3. attached' \in BOOLEAN /\ ~attached'
  BY <1>1, Zenon DEF InMemoryOnly
<1> QED BY <1>1, <1>2, <1>3 DEF InMemoryOnly

(* A file taken for absent: nothing is read, and the store has the file.   *)
LEMMA UnseenFacts ==
    ASSUME OpenUnseen
    PROVE  /\ phase = "opening" /\ phase' = "serving" /\ cursor = 1
           /\ attached' \in BOOLEAN /\ attached'
           /\ unread' \in BOOLEAN /\ (~unread' => ~unread /\ journal = <<>>)
           /\ records' = records /\ journal' = journal /\ ended' = ended /\ cursor' = cursor
           /\ filed' = filed /\ life' = life /\ faults' = faults
<1>1. attached' \in BOOLEAN /\ attached'
  BY Zenon DEF OpenUnseen
<1>2. unread' = (unread \/ journal # <<>>)
  BY DEF OpenUnseen
<1>3. unread' \in BOOLEAN
  BY <1>2, Zenon
<1>4. ~unread' => ~unread /\ journal = <<>>
  BY <1>2, Zenon
<1> QED BY <1>1, <1>3, <1>4 DEF OpenUnseen

(* Only a submission touches the file, the history or the faults.          *)
LEMMA OtherSteps ==
    ASSUME [StoreNext]_storeVars
    PROVE  \/ \E s \in Subject, c \in StatedCategory, now \in ReportInstant :
                \E left : Submit(s, c, now, left) \/ CrashInSubmit(s, c, now, left)
           \/ /\ journal' = journal /\ ended' = ended /\ filed' = filed /\ faults' = faults
              /\ \/ Crash \/ ReplayLine \/ OpenDone \/ OpenGivesUp \/ OpenFails \/ OpenUnseen
                 \/ UNCHANGED storeVars
<1>1. CASE Crash
  BY <1>1 DEF Crash
<1>2. CASE ReplayLine \/ OpenDone
  BY <1>2 DEF ReplayLine, OpenDone
<1>3. CASE OpenGivesUp \/ OpenFails
  BY <1>3, InMemoryFacts
<1>4. CASE OpenUnseen
  BY <1>4, UnseenFacts
<1>5. CASE UNCHANGED storeVars
  BY <1>5 DEF storeVars
<1>6. ASSUME NEW s \in Subject, NEW c \in StatedCategory, NEW now \in ReportInstant,
             \/ \E left \in {"whole"} \cup WriteErrors : Submit(s, c, now, left)
             \/ \E left \in {"whole", "nothing"} \cup CrashTears : CrashInSubmit(s, c, now, left)
      PROVE  \E left : Submit(s, c, now, left) \/ CrashInSubmit(s, c, now, left)
  BY <1>6, Zenon
<1> QED
  BY <1>1, <1>2, <1>3, <1>4, <1>5, <1>6, Zenon DEF StoreNext, Open, Read

LEMMA TypeStep == ASSUME StoreTypeOK, [StoreNext]_storeVars PROVE StoreTypeOK'
<1>1. ASSUME NEW s \in Subject, NEW c \in StatedCategory, NEW now \in ReportInstant, NEW left,
             Submit(s, c, now, left)
      PROVE  StoreTypeOK'
  <2> DEFINE r == NewRecord(s, c, now)
  <2>1. r \in Record /\ left \in {"whole"} \cup Damage /\ WriteLine(r, left) /\ filed' \in Seq(Filing)
    BY <1>1, SubmissionFacts
  <2>2. records' = Append(records, r)
    BY <1>1 DEF Submit
  <2> HIDE DEF r
  <2>3. records' \in Seq(Record)
    BY <2>1, <2>2, AppendLast DEF StoreTypeOK
  <2>4. journal' \in Seq(Line) /\ ended' \in BOOLEAN /\ (~ended' => Len(journal') > 0)
    BY <2>1, WriteFacts
  <2>5. faults' \in Nat
    BY <1>1, FaultyFacts DEF Submit
  <2>6. unread' = unread
    BY <1>1, SubmissionFacts
  <2> QED BY <1>1, <2>1, <2>3, <2>4, <2>5, <2>6 DEF Submit, StoreTypeOK, Filing
<1>2. ASSUME NEW s \in Subject, NEW c \in StatedCategory, NEW now \in ReportInstant, NEW left,
             CrashInSubmit(s, c, now, left)
      PROVE  StoreTypeOK'
  <2> DEFINE r == NewRecord(s, c, now)
  <2>1. r \in Record /\ left \in {"whole"} \cup Damage /\ WriteLine(r, left) /\ filed' \in Seq(Filing)
    BY <1>2, SubmissionFacts
  <2> HIDE DEF r
  <2>2. journal' \in Seq(Line) /\ ended' \in BOOLEAN /\ (~ended' => Len(journal') > 0)
    BY <2>1, WriteFacts
  <2>3. faults' \in Nat
    BY <1>2, FaultyFacts DEF CrashInSubmit
  <2>4. /\ life' \in Nat /\ records' \in Seq(Record)
        /\ attached' \in BOOLEAN /\ phase' = "opening" /\ cursor' = 1 /\ unread' = unread
    BY <1>2, DownFacts DEF CrashInSubmit
  <2> QED BY <2>1, <2>2, <2>3, <2>4 DEF StoreTypeOK, Filing
<1>3. CASE Crash
  BY <1>3, DownFacts DEF Crash, StoreTypeOK
<1>4. CASE ReplayLine
  <2>1. Len(journal) \in Nat /\ cursor \in 1..Len(journal)
    BY <1>4, LenProperties DEF ReplayLine, StoreTypeOK
  <2>2. journal[cursor] \in Line
    BY <2>1, ElementOfSeq DEF StoreTypeOK
  <2>3. journal[cursor].kind = "intact" => journal[cursor].rec \in Record
    BY <2>2 DEF Line, Torn, Cut
  <2>4. records' \in Seq(Record)
    BY <1>4, <2>3, WireFacts, AppendLast DEF ReplayLine, StoreTypeOK
  <2> QED BY <1>4, <2>1, <2>4 DEF ReplayLine, StoreTypeOK
<1>5. CASE OpenDone
  BY <1>5 DEF OpenDone, StoreTypeOK
<1>6. CASE OpenGivesUp \/ OpenFails
  BY <1>6, InMemoryFacts DEF StoreTypeOK
<1>7. CASE OpenUnseen
  BY <1>7, UnseenFacts DEF StoreTypeOK
<1>8. CASE UNCHANGED storeVars
  BY <1>8 DEF storeVars, StoreTypeOK
<1> QED
  BY <1>1, <1>2, <1>3, <1>4, <1>5, <1>6, <1>7, <1>8, OtherSteps

LEMMA TypeInit == ASSUME StoreInit PROVE StoreTypeOK
<1>1. records \in Seq(Record) /\ journal \in Seq(Line) /\ filed \in Seq(Filing)
  BY EmptySeq DEF StoreInit
<1>2. ended \in BOOLEAN /\ ended /\ attached \in BOOLEAN /\ unread \in BOOLEAN
  BY Zenon DEF StoreInit
<1> QED BY <1>1, <1>2 DEF StoreInit, StoreTypeOK, Filing

(* The store's variables keep their types through every fault and crash.   *)
THEOREM StoreTypeCorrect == StoreSpec => []StoreTypeOK
<1>1. StoreTypeOK /\ [StoreNext]_storeVars => StoreTypeOK'
  BY TypeStep
<1> QED
  BY <1>1, TypeInit, PTL DEF StoreSpec

----------------------------------------------------------------------------
(* Receipts of this lifetime.                                              *)

LEMMA FilingFacts ==
    ASSUME StoreTypeOK, NEW n \in 1..Len(filed)
    PROVE  filed[n].doc \in Record /\ filed[n].life \in Nat /\ filed[n].kept \in BOOLEAN
<1>1. filed[n] \in Filing
  BY ElementOfSeq DEF StoreTypeOK, Filing
<1> QED BY <1>1 DEF Filing

LEMMA FreshStep ==
    ASSUME StoreTypeOK, FreshInv, [StoreNext]_storeVars
    PROVE  FreshInv'
<1> USE DEF FreshInv
<1>0. life \in Nat
  BY DEF StoreTypeOK
<1>1. ASSUME NEW s \in Subject, NEW c \in StatedCategory, NEW now \in ReportInstant, NEW left,
             Submit(s, c, now, left)
      PROVE  FreshInv'
  <2> DEFINE r == NewRecord(s, c, now)
  <2>1. /\ r \in Record /\ r.seq = Len(records) + 1 /\ Wire(r).seq = r.seq /\ phase = "serving"
        /\ Len(records) \in Nat
        /\ \A n \in 1..Len(filed) : filed'[n] = filed[n]
        /\ filed'[Len(filed) + 1].doc = Wire(r)
        /\ filed'[Len(filed) + 1].life = life
        /\ \A n \in 1..Len(filed') : n \in 1..Len(filed) \/ n = Len(filed) + 1
    BY <1>1, SubmissionFacts
  <2>2. records' = Append(records, r) /\ phase' = phase /\ life' = life
    BY <1>1 DEF Submit
  <2> HIDE DEF r
  <2>3. /\ Len(records') = Len(records) + 1 /\ records'[Len(records) + 1] = r
        /\ \A k \in 1..Len(records) : records'[k] = records[k]
    BY <2>1, <2>2, AppendLast DEF StoreTypeOK
  <2>4. ASSUME NEW n \in 1..Len(filed)
        PROVE  /\ filed'[n].life <= life'
               /\ (filed'[n].acked /\ filed'[n].life = life') =>
                    /\ phase' = "serving"
                    /\ filed'[n].doc.seq \in 1..Len(records')
                    /\ Wire(records'[filed'[n].doc.seq]) = filed'[n].doc
    <3>1. filed'[n] = filed[n]
      BY <2>1
    <3>2. filed[n].doc.seq \in 1..Len(records) => filed[n].doc.seq \in 1..Len(records')
      BY <2>1, <2>3
    <3> QED BY <2>2, <2>3, <3>1, <3>2
  <2>5. LET n == Len(filed) + 1
        IN  /\ filed'[n].life <= life'
            /\ phase' = "serving"
            /\ filed'[n].doc.seq \in 1..Len(records')
            /\ Wire(records'[filed'[n].doc.seq]) = filed'[n].doc
    BY <1>0, <2>1, <2>2, <2>3
  <2> QED BY <2>1, <2>4, <2>5
<1>2. ASSUME NEW s \in Subject, NEW c \in StatedCategory, NEW now \in ReportInstant, NEW left,
             CrashInSubmit(s, c, now, left)
      PROVE  FreshInv'
  <2>1. /\ \A n \in 1..Len(filed) : filed'[n] = filed[n]
        /\ filed'[Len(filed) + 1].life = life
        /\ \A n \in 1..Len(filed') : n \in 1..Len(filed) \/ n = Len(filed) + 1
    BY <1>2, SubmissionFacts
  <2>2. life' = life + 1
    BY <1>2, DownFacts DEF CrashInSubmit
  <2>3. \A n \in 1..Len(filed) : filed[n].life \in Nat
    BY FilingFacts
  <2>4. \A n \in 1..Len(filed') : filed'[n].life <= life /\ filed'[n].life \in Nat
    BY <1>0, <2>1, <2>3
  <2>5. \A n \in 1..Len(filed') : filed'[n].life <= life' /\ filed'[n].life # life'
    BY <1>0, <2>2, <2>4
  <2> QED BY <2>5
<1>3. CASE Crash
  <2>1. life' = life + 1 /\ filed' = filed
    BY <1>3, DownFacts DEF Crash
  <2>2. \A n \in 1..Len(filed) : filed[n].life \in Nat
    BY FilingFacts
  <2>3. \A n \in 1..Len(filed) : filed[n].life <= life' /\ filed[n].life # life'
    BY <1>0, <2>1, <2>2
  <2> QED BY <2>1, <2>3
<1>4. ASSUME ReplayLine \/ OpenDone \/ OpenGivesUp \/ OpenFails \/ OpenUnseen
      PROVE  FreshInv'
  <2>1. phase = "opening" /\ filed' = filed /\ life' = life
    BY <1>4, InMemoryFacts, UnseenFacts DEF ReplayLine, OpenDone
  <2>2. \A n \in 1..Len(filed) : ~(filed[n].acked /\ filed[n].life = life)
    BY <2>1
  <2> QED BY <2>1, <2>2
<1>5. CASE UNCHANGED storeVars
  BY <1>5 DEF storeVars
<1> QED
  BY <1>1, <1>2, <1>3, <1>4, <1>5, OtherSteps

----------------------------------------------------------------------------
(* The origin of lines and records.                                        *)

LEMMA NonceStep ==
    ASSUME StoreTypeOK, NonceInv, [StoreNext]_storeVars
    PROVE  NonceInv'
<1>1. ASSUME NEW s \in Subject, NEW c \in StatedCategory, NEW now \in ReportInstant, NEW left,
             Submit(s, c, now, left) \/ CrashInSubmit(s, c, now, left)
      PROVE  NonceInv'
  <2> DEFINE r == NewRecord(s, c, now)
  <2>1. /\ r.nonce = Len(filed) + 1 /\ Wire(r).nonce = r.nonce
        /\ \A n \in 1..Len(filed) : filed'[n] = filed[n]
        /\ filed'[Len(filed) + 1].doc = Wire(r)
        /\ \A n \in 1..Len(filed') : n \in 1..Len(filed) \/ n = Len(filed) + 1
    BY <1>1, SubmissionFacts
  <2> QED BY <2>1 DEF NonceInv
<1>2. ASSUME filed' = filed PROVE NonceInv'
  BY <1>2 DEF NonceInv
<1> QED
  BY <1>1, <1>2, OtherSteps

(* A write leaves the other lines alone and, when it leaves an intact line,*)
(* it is the new report's.                                                 *)
LEMMA LinesAfterWrite ==
    ASSUME StoreTypeOK, NonceInv, LinesInv,
           NEW s \in Subject, NEW c \in StatedCategory, NEW now \in ReportInstant, NEW left,
           Submit(s, c, now, left) \/ CrashInSubmit(s, c, now, left),
           NEW k \in 1..Len(journal'), journal'[k].kind = "intact"
    PROVE  \/ k \in 1..Len(journal) /\ journal'[k] = journal[k]
           \/ /\ k = Len(journal) + 1 /\ Len(journal') = Len(journal) + 1
              /\ journal'[k].rec = Wire(NewRecord(s, c, now))
<1> DEFINE r == NewRecord(s, c, now)
<1>1. r \in Record /\ left \in {"whole"} \cup Damage /\ WriteLine(r, left)
  BY SubmissionFacts
<1> HIDE DEF r
<1>2. CASE ~attached \/ left = "nothing"
  BY <1>1, <1>2, WriteFacts
<1>3. CASE attached /\ left # "nothing" /\ ended
  <2>1. /\ Len(journal') = Len(journal) + 1 /\ Len(journal) \in Nat
        /\ journal'[Len(journal) + 1] = Piece(r, left)
        /\ \A j \in 1..Len(journal) : journal'[j] = journal[j]
    BY <1>1, <1>3, WriteFacts
  <2>2. left \in {"whole", "unterminated", "torn", "cut"}
    BY <1>1, <1>3 DEF Damage
  <2>3. k \in 1..Len(journal) \/ k = Len(journal) + 1
    BY <2>1
  <2>4. Piece(r, left).kind = "intact" => Piece(r, left).rec = Wire(r)
    BY <1>1, <2>2, PieceFacts DEF Intact
  <2> QED BY <2>1, <2>3, <2>4 DEF r
<1>4. CASE attached /\ left # "nothing" /\ ~ended
  <2>1. /\ Len(journal') = Len(journal) /\ Len(journal) \in Nat
        /\ journal'[Len(journal)].kind # "intact"
        /\ \A j \in 1..Len(journal) : j < Len(journal) => journal'[j] = journal[j]
    BY <1>1, <1>4, WriteFacts
  <2>2. k # Len(journal)
    BY <2>1
  <2>3. k \in 1..Len(journal) /\ k < Len(journal)
    BY <2>1, <2>2
  <2> QED BY <2>1, <2>3
<1> QED BY <1>2, <1>3, <1>4

LEMMA LinesStep ==
    ASSUME StoreTypeOK, NonceInv, LinesInv, [StoreNext]_storeVars
    PROVE  LinesInv'
<1>1. ASSUME NEW s \in Subject, NEW c \in StatedCategory, NEW now \in ReportInstant, NEW left,
             Submit(s, c, now, left) \/ CrashInSubmit(s, c, now, left)
      PROVE  LinesInv'
  <2> DEFINE r == NewRecord(s, c, now)
             f == Len(filed) + 1
  <2>1. /\ r.nonce = f /\ Wire(r).nonce = f
        /\ Len(filed) \in Nat /\ Len(filed') = f
        /\ \A n \in 1..Len(filed) : filed'[n] = filed[n]
        /\ filed'[f].doc = Wire(r)
    BY <1>1, SubmissionFacts
  <2>2. ASSUME NEW k \in 1..Len(journal'), journal'[k].kind = "intact"
        PROVE  \/ /\ k \in 1..Len(journal) /\ journal'[k] = journal[k]
                  /\ journal[k].rec.nonce \in 1..Len(filed)
                  /\ journal[k].rec = filed[journal[k].rec.nonce].doc
               \/ /\ k = Len(journal) + 1 /\ journal'[k].rec = Wire(r)
    BY <1>1, <2>2, LinesAfterWrite DEF LinesInv
  <2> HIDE DEF r
  <2>3. ASSUME NEW k \in 1..Len(journal'), journal'[k].kind = "intact"
        PROVE  /\ journal'[k].rec.nonce \in 1..Len(filed')
               /\ journal'[k].rec = filed'[journal'[k].rec.nonce].doc
    <3>1. CASE k = Len(journal) + 1 /\ journal'[k].rec = Wire(r)
      BY <2>1, <3>1
    <3>2. CASE /\ journal'[k] = journal[k]
               /\ journal[k].rec.nonce \in 1..Len(filed)
               /\ journal[k].rec = filed[journal[k].rec.nonce].doc
      BY <2>1, <3>2
    <3> QED BY <2>2, <2>3, <3>1, <3>2
  <2>4. ASSUME NEW j \in 1..Len(journal'), NEW k \in 1..Len(journal'), j # k,
               journal'[j].kind = "intact", journal'[k].kind = "intact"
        PROVE  journal'[j].rec.nonce # journal'[k].rec.nonce
    <3>1. \A n \in 1..Len(filed) : n # f
      BY <2>1
    <3>2. CASE j = Len(journal) + 1 /\ journal'[j].rec = Wire(r)
      BY <2>1, <2>2, <2>4, <3>1, <3>2
    <3>3. CASE k = Len(journal) + 1 /\ journal'[k].rec = Wire(r)
      BY <2>1, <2>2, <2>4, <3>1, <3>3
    <3>4. CASE /\ j \in 1..Len(journal) /\ journal'[j] = journal[j]
               /\ k \in 1..Len(journal) /\ journal'[k] = journal[k]
      BY <2>4, <3>4 DEF LinesInv
    <3> QED BY <2>2, <2>4, <3>2, <3>3, <3>4
  <2> QED BY <2>3, <2>4 DEF LinesInv
<1>2. ASSUME filed' = filed, journal' = journal PROVE LinesInv'
  BY <1>2 DEF LinesInv
<1> QED
  BY <1>1, <1>2, OtherSteps

LEMMA RecordsStep ==
    ASSUME StoreTypeOK, NonceInv, LinesInv, RecordsInv, [StoreNext]_storeVars
    PROVE  RecordsInv'
<1>0. \A k \in 1..Len(records) : records[k] \in Record
  BY ElementOfSeq DEF StoreTypeOK
<1>1. ASSUME NEW s \in Subject, NEW c \in StatedCategory, NEW now \in ReportInstant, NEW left,
             Submit(s, c, now, left)
      PROVE  RecordsInv'
  <2> DEFINE r == NewRecord(s, c, now)
             f == Len(filed) + 1
             m == Len(records) + 1
  <2>1. /\ r \in Record /\ r.nonce = f /\ phase = "serving"
        /\ Len(filed) \in Nat /\ Len(filed') = f /\ Len(records) \in Nat
        /\ \A n \in 1..Len(filed) : filed'[n] = filed[n]
        /\ filed'[f].doc = Wire(r)
    BY <1>1, SubmissionFacts
  <2>2. records' = Append(records, r) /\ phase' = "serving"
    BY <1>1, <2>1 DEF Submit
  <2> HIDE DEF r
  <2>3. /\ Len(records') = m /\ records'[m] = r
        /\ \A k \in 1..Len(records) : records'[k] = records[k]
        /\ \A k \in 1..Len(records') : k \in 1..Len(records) \/ k = m
    BY <2>1, <2>2, AppendLast DEF StoreTypeOK
  <2>4. \A n \in 1..Len(filed) : n # f /\ n \in 1..Len(filed')
    BY <2>1
  <2>5. SameReport(r, Wire(r))
    BY <2>1, SameReportFacts
  <2>6. ASSUME NEW k \in 1..Len(records')
        PROVE  /\ records'[k].nonce \in 1..Len(filed')
               /\ SameReport(records'[k], filed'[records'[k].nonce].doc)
    <3>1. CASE k \in 1..Len(records)
      BY <2>1, <2>3, <2>4, <3>1 DEF RecordsInv
    <3>2. CASE k = m
      BY <2>1, <2>3, <2>5, <3>2
    <3> QED BY <2>3, <3>1, <3>2
  <2>7. ASSUME NEW j \in 1..Len(records'), NEW k \in 1..Len(records'), j # k
        PROVE  records'[j].nonce # records'[k].nonce
    <3>1. CASE j \in 1..Len(records) /\ k \in 1..Len(records)
      BY <2>3, <2>7, <3>1 DEF RecordsInv
    <3>2. CASE j = m
      BY <2>1, <2>3, <2>4, <2>7, <3>2 DEF RecordsInv
    <3>3. CASE k = m
      BY <2>1, <2>3, <2>4, <2>7, <3>3 DEF RecordsInv
    <3> QED BY <2>3, <3>1, <3>2, <3>3
  <2> QED BY <2>2, <2>6, <2>7 DEF RecordsInv
<1>2. ASSUME records' = <<>> PROVE RecordsInv'
  <2>1. Len(records') = 0 /\ 1..Len(records') = {}
    BY <1>2
  <2> QED BY <2>1 DEF RecordsInv
<1>3. CASE ReplayLine
  <2> DEFINE l == journal[cursor]
  <2>1. /\ phase = "opening" /\ phase' = "opening" /\ cursor \in 1..Len(journal) /\ cursor \in Nat
        /\ cursor' = cursor + 1 /\ journal' = journal /\ filed' = filed /\ Len(journal) \in Nat
        /\ records' = IF l.kind = "intact" THEN Append(records, FromWire(l.rec)) ELSE records
    BY <1>3, LenProperties DEF ReplayLine, StoreTypeOK
  <2>2. \A j \in cursor'..Len(journal) : j \in cursor..Len(journal) /\ j # cursor /\ j \in 1..Len(journal)
    BY <2>1
  <2>3. CASE l.kind # "intact"
    BY <2>1, <2>2, <2>3 DEF RecordsInv
  <2>4. CASE l.kind = "intact"
    <3> DEFINE d == l.rec
               m == Len(records) + 1
    <3>1. d \in Record /\ FromWire(d) = d
      <4>1. l \in Line
        BY <2>1, ElementOfSeq DEF StoreTypeOK
      <4>2. d \in Record
        BY <2>4, <4>1 DEF Line, Torn, Cut
      <4> QED BY <4>2, WireFacts
    <3>2. d.nonce \in 1..Len(filed) /\ d = filed[d.nonce].doc
      BY <2>1, <2>4 DEF LinesInv
    <3>3. \A k \in 1..Len(records) : records[k].nonce # d.nonce
      BY <2>1, <2>4 DEF RecordsInv
    <3>4. \A j \in cursor'..Len(journal) : journal[j].kind = "intact" => d.nonce # journal[j].rec.nonce
      BY <2>1, <2>2, <2>4 DEF LinesInv
    <3>5. records' = Append(records, d)
      BY <2>1, <2>4, <3>1
    <3> HIDE DEF d, l
    <3>6. /\ Len(records') = m /\ records'[m] = d
          /\ \A k \in 1..Len(records) : records'[k] = records[k]
          /\ \A k \in 1..Len(records') : k \in 1..Len(records) \/ k = m
      BY <3>1, <3>5, AppendLast DEF StoreTypeOK
    <3>7. SameReport(d, filed[d.nonce].doc)
      BY <3>1, <3>2, SameReportFacts
    <3>8. ASSUME NEW k \in 1..Len(records')
          PROVE  /\ records'[k].nonce \in 1..Len(filed')
                 /\ SameReport(records'[k], filed'[records'[k].nonce].doc)
                 /\ \A j \in cursor'..Len(journal') : journal'[j].kind = "intact" => records'[k].nonce # journal'[j].rec.nonce
      <4>1. CASE k \in 1..Len(records)
        BY <2>1, <2>2, <3>6, <4>1 DEF RecordsInv
      <4>2. CASE k = m
        BY <2>1, <3>2, <3>4, <3>6, <3>7, <4>2
      <4> QED BY <3>6, <4>1, <4>2
    <3>9. ASSUME NEW j \in 1..Len(records'), NEW k \in 1..Len(records'), j # k
          PROVE  records'[j].nonce # records'[k].nonce
      BY <3>3, <3>6, <3>9 DEF RecordsInv
    <3> QED BY <3>8, <3>9 DEF RecordsInv
  <2> QED BY <2>3, <2>4
<1>4. CASE OpenDone
  <2>1. phase' = "serving" /\ records' = records /\ filed' = filed
    BY <1>4 DEF OpenDone
  <2> QED BY <2>1 DEF RecordsInv
<1>5. CASE OpenUnseen
  <2>1. phase' = "serving" /\ records' = records /\ filed' = filed
    BY <1>5, UnseenFacts
  <2> QED BY <2>1 DEF RecordsInv
<1>6. CASE UNCHANGED storeVars
  BY <1>6 DEF storeVars, RecordsInv
<1>7. ASSUME \/ Crash \/ OpenGivesUp \/ OpenFails
             \/ \E s \in Subject, c \in StatedCategory, now \in ReportInstant :
                   \E left : CrashInSubmit(s, c, now, left)
      PROVE  RecordsInv'
  BY <1>2, <1>7, InMemoryFacts DEF CrashInSubmit, Crash, Down
<1> QED
  BY <1>1, <1>3, <1>4, <1>5, <1>6, <1>7, OtherSteps, Zenon

----------------------------------------------------------------------------
(* No fault: file and memory agree.                                        *)

(* A process without a file leaves it as it is, and its receipts are not   *)
(* kept.                                                                   *)
LEMMA NothingOnFile ==
    ASSUME StoreTypeOK, CleanInv, faults = 0, ~unread, ~attached,
           NEW s \in Subject, NEW c \in StatedCategory, NEW now \in ReportInstant, NEW left,
           Submit(s, c, now, left) \/ CrashInSubmit(s, c, now, left)
    PROVE  /\ journal' = journal /\ ended' = ended
           /\ \A n \in 1..Len(filed') : (filed'[n].acked /\ filed'[n].kept) =>
                 /\ filed'[n].doc.seq \in 1..Len(journal)
                 /\ journal[filed'[n].doc.seq] = Intact(filed'[n].doc)
<1> DEFINE r == NewRecord(s, c, now)
           f == Len(filed) + 1
<1>1. /\ r \in Record /\ WriteLine(r, left) /\ left \in {"whole"} \cup Damage
      /\ \A n \in 1..Len(filed) : filed'[n] = filed[n]
      /\ filed'[f].kept = attached
      /\ \A n \in 1..Len(filed') : n \in 1..Len(filed) \/ n = f
  BY SubmissionFacts
<1>2. journal' = journal /\ ended' = ended
  BY <1>1 DEF WriteLine
<1>3. \A n \in 1..Len(filed) : (filed[n].acked /\ filed[n].kept) =>
         /\ filed[n].doc.seq \in 1..Len(journal)
         /\ journal[filed[n].doc.seq] = Intact(filed[n].doc)
  BY DEF CleanInv
<1>4. ~filed'[f].kept
  BY <1>1, Zenon
<1> QED BY <1>1, <1>2, <1>3, <1>4

LEMMA CleanStep ==
    ASSUME StoreTypeOK, CleanInv, [StoreNext]_storeVars
    PROVE  CleanInv'
<1>0. /\ Len(records) \in Nat /\ Len(journal) \in Nat /\ Len(filed) \in Nat
      /\ \A k \in 1..Len(records) : records[k] \in Record
      /\ \A k \in 1..Len(journal) : journal[k] \in Line
  BY LenProperties, ElementOfSeq DEF StoreTypeOK
<1>1. ASSUME NEW s \in Subject, NEW c \in StatedCategory, NEW now \in ReportInstant, NEW left,
             Submit(s, c, now, left), faults' = 0, ~unread', attached
      PROVE  CleanInv'
  <2> DEFINE r == NewRecord(s, c, now)
             f == Len(filed) + 1
  <2>1. /\ r \in Record /\ r.seq = Len(records) + 1 /\ Wire(r) \in Record /\ Wire(r).seq = r.seq
        /\ WriteLine(r, left) /\ left \in {"whole"} \cup Damage
        /\ phase = "serving"
        /\ \A n \in 1..Len(filed) : filed'[n] = filed[n]
        /\ filed'[f].doc = Wire(r)
        /\ \A n \in 1..Len(filed') : n \in 1..Len(filed) \/ n = f
        /\ ~unread
    BY <1>1, SubmissionFacts
  <2>2. faults = 0 /\ left = "whole"
    BY <1>1, FaultyFacts DEF Submit
  <2>3. /\ ended /\ attached /\ Len(records) = Len(journal)
        /\ \A k \in 1..Len(journal) : journal[k].kind = "intact" /\ journal[k].rec.seq = k
        /\ \A k \in 1..Len(records) : SameReport(records[k], journal[k].rec)
        /\ \A n \in 1..Len(filed) : (filed[n].acked /\ filed[n].kept) =>
              /\ filed[n].doc.seq \in 1..Len(journal)
              /\ journal[filed[n].doc.seq] = Intact(filed[n].doc)
    BY <1>1, <2>1, <2>2 DEF CleanInv
  <2>4. /\ ended' /\ Len(journal') = Len(journal) + 1
        /\ journal'[Len(journal) + 1] = Intact(Wire(r))
        /\ \A k \in 1..Len(journal) : journal'[k] = journal[k]
    <3>1. Piece(r, left) = Intact(Wire(r))
      BY <2>1, <2>2, PieceFacts
    <3> HIDE DEF r
    <3> QED BY <2>1, <2>2, <2>3, <3>1, WriteFacts
  <2>5. records' = Append(records, r) /\ phase' = "serving" /\ attached' = attached
    BY <1>1, <2>1 DEF Submit
  <2>6. SameReport(r, Wire(r))
    BY <2>1, SameReportFacts
  <2> HIDE DEF r
  <2>7. /\ Len(records') = Len(records) + 1 /\ records'[Len(records) + 1] = r
        /\ \A k \in 1..Len(records) : records'[k] = records[k]
        /\ \A k \in 1..Len(records') : k \in 1..Len(records) \/ k = Len(records) + 1
    BY <2>1, <2>5, AppendLast DEF StoreTypeOK
  <2>8. Intact(Wire(r)).kind = "intact" /\ Intact(Wire(r)).rec = Wire(r)
    BY DEF Intact
  <2>9. ASSUME NEW k \in 1..Len(journal')
        PROVE  journal'[k].kind = "intact" /\ journal'[k].rec.seq = k
    BY <1>0, <2>1, <2>3, <2>4, <2>8
  <2>10. ASSUME NEW k \in 1..Len(records')
         PROVE  SameReport(records'[k], journal'[k].rec)
    <3>1. CASE k \in 1..Len(records)
      BY <2>3, <2>4, <2>7, <3>1
    <3>2. CASE k = Len(records) + 1
      BY <2>3, <2>4, <2>6, <2>7, <2>8, <3>2
    <3> QED BY <2>7, <3>1, <3>2
  <2>11. ASSUME NEW n \in 1..Len(filed'), filed'[n].acked, filed'[n].kept
         PROVE  /\ filed'[n].doc.seq \in 1..Len(journal')
                /\ journal'[filed'[n].doc.seq] = Intact(filed'[n].doc)
    <3>1. CASE n \in 1..Len(filed)
      <4>1. /\ filed'[n] = filed[n] /\ filed[n].doc.seq \in 1..Len(journal)
            /\ journal[filed[n].doc.seq] = Intact(filed[n].doc)
        BY <2>1, <2>3, <2>11, <3>1
      <4>2. filed[n].doc.seq \in 1..Len(journal')
        BY <1>0, <2>4, <4>1
      <4> QED BY <2>4, <4>1, <4>2
    <3>2. CASE n = f
      BY <1>0, <2>1, <2>3, <2>4, <3>2
    <3> QED BY <2>1, <3>1, <3>2
  <2> QED BY <2>3, <2>4, <2>5, <2>7, <2>9, <2>10, <2>11 DEF CleanInv
<1>2. ASSUME NEW s \in Subject, NEW c \in StatedCategory, NEW now \in ReportInstant, NEW left,
             CrashInSubmit(s, c, now, left), faults' = 0, ~unread', attached
      PROVE  CleanInv'
  <2> DEFINE r == NewRecord(s, c, now)
             f == Len(filed) + 1
  <2>1. /\ r \in Record /\ r.seq = Len(records) + 1 /\ Wire(r).seq = r.seq
        /\ WriteLine(r, left) /\ left \in {"whole"} \cup Damage
        /\ phase = "serving"
        /\ \A n \in 1..Len(filed) : filed'[n] = filed[n]
        /\ \A n \in 1..Len(filed') : n \in 1..Len(filed) \/ n = f
        /\ ~unread
    BY <1>2, SubmissionFacts
  <2>2. faults = 0 /\ left \in {"whole", "nothing"}
    BY <1>2, FaultyFacts DEF CrashInSubmit
  <2>3. /\ ended /\ attached /\ Len(records) = Len(journal)
        /\ \A k \in 1..Len(journal) : journal[k].kind = "intact" /\ journal[k].rec.seq = k
        /\ \A n \in 1..Len(filed) : (filed[n].acked /\ filed[n].kept) =>
              /\ filed[n].doc.seq \in 1..Len(journal)
              /\ journal[filed[n].doc.seq] = Intact(filed[n].doc)
    BY <1>2, <2>1, <2>2 DEF CleanInv
  <2>4. /\ ended' /\ Len(journal) <= Len(journal')
        /\ \A k \in 1..Len(journal') : journal'[k].kind = "intact" /\ journal'[k].rec.seq = k
        /\ \A k \in 1..Len(journal) : journal'[k] = journal[k]
    <3>1. left = "whole" => Piece(r, left) = Intact(Wire(r))
      BY <2>1, PieceFacts
    <3>2. Intact(Wire(r)).kind = "intact" /\ Intact(Wire(r)).rec = Wire(r)
      BY DEF Intact
    <3> HIDE DEF r
    <3>3. CASE left = "whole"
      <4>1. /\ ended' /\ Len(journal') = Len(journal) + 1
            /\ journal'[Len(journal) + 1] = Intact(Wire(r))
            /\ \A k \in 1..Len(journal) : journal'[k] = journal[k]
        BY <2>1, <2>3, <3>1, <3>3, WriteFacts
      <4>2. ASSUME NEW k \in 1..Len(journal')
            PROVE  journal'[k].kind = "intact" /\ journal'[k].rec.seq = k
        <5>1. k \in 1..Len(journal) \/ k = Len(journal) + 1
          BY <1>0, <4>1
        <5> QED BY <1>0, <2>1, <2>3, <3>2, <4>1, <5>1
      <4> QED BY <1>0, <4>1, <4>2
    <3>4. CASE left = "nothing"
      <4>1. journal' = journal /\ ended' = ended
        BY <2>1, <3>4, WriteFacts
      <4> QED BY <1>0, <2>3, <4>1
    <3> QED BY <2>2, <3>3, <3>4
  <2>5. filed'[f].acked = FALSE
    BY <1>2, AckedFacts
  <2>6. Len(records') = 0 /\ phase' = "opening" /\ cursor' = 1 /\ ~attached'
    BY <1>2, DownFacts DEF CrashInSubmit
  <2>7. Len(journal') \in Nat
    BY <2>1, WriteFacts, LenProperties
  <2>8. ASSUME NEW n \in 1..Len(filed'), filed'[n].acked, filed'[n].kept
        PROVE  /\ filed'[n].doc.seq \in 1..Len(journal')
               /\ journal'[filed'[n].doc.seq] = Intact(filed'[n].doc)
    <3>1. n \in 1..Len(filed)
      BY <2>1, <2>5, <2>8
    <3>2. /\ filed'[n] = filed[n] /\ filed[n].doc.seq \in 1..Len(journal)
          /\ journal[filed[n].doc.seq] = Intact(filed[n].doc)
      BY <2>1, <2>3, <2>8, <3>1
    <3>3. filed[n].doc.seq \in 1..Len(journal')
      BY <1>0, <2>4, <2>7, <3>2
    <3> QED BY <2>4, <3>2, <3>3
  <2> QED BY <2>4, <2>6, <2>7, <2>8 DEF CleanInv
<1>3. CASE Crash
  <2>1. /\ journal' = journal /\ ended' = ended /\ filed' = filed /\ faults' = faults /\ unread' = unread
        /\ Len(records') = 0 /\ phase' = "opening" /\ cursor' = 1 /\ ~attached'
    BY <1>3, DownFacts DEF Crash
  <2> QED BY <1>0, <2>1 DEF CleanInv
<1>4. ASSUME ReplayLine, faults = 0, ~unread
      PROVE  CleanInv'
  <2> DEFINE l == journal[cursor]
  <2>1. /\ phase = "opening" /\ phase' = "opening" /\ cursor \in 1..Len(journal)
        /\ cursor' = cursor + 1 /\ journal' = journal /\ filed' = filed /\ ended' = ended
        /\ attached' = attached
        /\ records' = IF l.kind = "intact" THEN Append(records, FromWire(l.rec)) ELSE records
    BY <1>0, <1>4 DEF ReplayLine, StoreTypeOK
  <2>2. /\ ended /\ l.kind = "intact" /\ cursor = Len(records) + 1 /\ ~attached
        /\ \A k \in 1..Len(records) : SameReport(records[k], journal[k].rec)
    BY <1>4, <2>1 DEF CleanInv
  <2>3. l.rec \in Record /\ FromWire(l.rec) = l.rec
    <3>1. l.rec \in Record
      BY <1>0, <2>1, <2>2 DEF Line, Torn, Cut
    <3> QED BY <3>1, WireFacts
  <2>4. records' = Append(records, l.rec) /\ SameReport(l.rec, l.rec)
    BY <2>1, <2>2, <2>3, SameReportFacts
  <2>5. /\ Len(records') = Len(records) + 1 /\ records'[Len(records) + 1] = l.rec
        /\ \A k \in 1..Len(records) : records'[k] = records[k]
        /\ \A k \in 1..Len(records') : k \in 1..Len(records) \/ k = Len(records) + 1
    <3> HIDE DEF l
    <3> QED BY <2>3, <2>4, AppendLast DEF StoreTypeOK
  <2>6. ASSUME NEW k \in 1..Len(records')
        PROVE  SameReport(records'[k], journal[k].rec)
    <3>1. CASE k \in 1..Len(records)
      BY <2>2, <2>5, <3>1
    <3>2. CASE k = Len(records) + 1
      BY <2>2, <2>4, <2>5, <3>2
    <3> QED BY <2>5, <3>1, <3>2
  <2>7. cursor' = Len(records') + 1 /\ Len(records') <= Len(journal)
    BY <1>0, <2>1, <2>2, <2>5
  <2> QED BY <1>4, <2>1, <2>2, <2>6, <2>7 DEF CleanInv
<1>5. CASE OpenDone
  <2>1. /\ phase = "opening" /\ phase' = "serving" /\ cursor > Len(journal)
        /\ records' = records /\ journal' = journal /\ ended' = ended /\ filed' = filed
        /\ faults' = faults /\ unread' = unread
    BY <1>5 DEF OpenDone
  <2> QED BY <1>0, <2>1 DEF CleanInv
<1>6. CASE OpenGivesUp \/ OpenFails
  <2>1. /\ phase' = "serving" /\ ~attached'
        /\ journal' = journal /\ ended' = ended /\ filed' = filed
        /\ faults' = faults /\ unread' = unread
    BY <1>6, InMemoryFacts
  <2> QED BY <2>1 DEF CleanInv
<1>7. ASSUME OpenUnseen, faults = 0, ~unread'
      PROVE  CleanInv'
  <2>1. /\ phase = "opening" /\ phase' = "serving" /\ cursor = 1
        /\ journal = <<>> /\ ~unread
        /\ records' = records /\ journal' = journal /\ ended' = ended /\ filed' = filed
    BY <1>7, UnseenFacts
  <2>2. Len(journal) = 0 /\ Len(records) = 0
    BY <1>0, <1>7, <2>1 DEF CleanInv
  <2> QED BY <1>7, <2>1, <2>2 DEF CleanInv
<1>8. CASE UNCHANGED storeVars
  BY <1>8 DEF storeVars, CleanInv
<1>9. ASSUME NEW s \in Subject, NEW c \in StatedCategory, NEW now \in ReportInstant, NEW left,
             Submit(s, c, now, left) \/ CrashInSubmit(s, c, now, left), faults' = 0, ~unread', ~attached
      PROVE  CleanInv'
  <2>1. faults = 0 /\ ~unread
    <3>1. unread' = unread
      BY <1>9, SubmissionFacts
    <3>2. faults = 0
      BY <1>9, FaultyFacts DEF Submit, CrashInSubmit
    <3> QED BY <1>9, <3>1, <3>2
  <2>2. /\ journal' = journal /\ ended' = ended
        /\ \A n \in 1..Len(filed') : (filed'[n].acked /\ filed'[n].kept) =>
              /\ filed'[n].doc.seq \in 1..Len(journal)
              /\ journal[filed'[n].doc.seq] = Intact(filed'[n].doc)
    BY <1>9, <2>1, NothingOnFile
  <2>3. Submit(s, c, now, left) => phase' = "serving" /\ ~attached'
    BY <1>9 DEF Submit, CanSubmit
  <2>4. CrashInSubmit(s, c, now, left) =>
          Len(records') = 0 /\ phase' = "opening" /\ cursor' = 1 /\ ~attached'
    BY DownFacts DEF CrashInSubmit
  <2> QED BY <1>0, <1>9, <2>1, <2>2, <2>3, <2>4 DEF CleanInv
<1>10. CASE ~(faults' = 0 /\ ~unread')
  BY <1>10 DEF CleanInv
<1>11. /\ ReplayLine => faults' = faults /\ unread' = unread
       /\ OpenUnseen => faults' = faults
  BY UnseenFacts DEF ReplayLine
<1> QED
  BY <1>1, <1>2, <1>3, <1>4, <1>5, <1>6, <1>7, <1>8, <1>9, <1>10, <1>11, OtherSteps

----------------------------------------------------------------------------
(* The reach of damage.                                                    *)

LEMMA CountFacts ==
    ASSUME NEW A, IsFiniteSet(A), NEW B, NEW x, NEW y
    PROVE  /\ B \subseteq A => Cardinality(B) <= Cardinality(A)
           /\ B \subseteq A \cup {x} => Cardinality(B) <= Cardinality(A) + 1
           /\ B \subseteq A \cup {x, y} => Cardinality(B) <= Cardinality(A) + 2
           /\ Cardinality(A) \in Nat
           /\ B \subseteq A \cup {x, y} => Cardinality(B) \in Nat
<1>1. /\ IsFiniteSet(A \cup {x}) /\ Cardinality(A \cup {x}) \in {Cardinality(A), Cardinality(A) + 1}
  BY FS_AddElement
<1>2. (A \cup {x}) \cup {y} = A \cup {x, y}
  OBVIOUS
<1>3. /\ IsFiniteSet(A \cup {x, y})
      /\ Cardinality(A \cup {x, y}) \in {Cardinality(A \cup {x}), Cardinality(A \cup {x}) + 1}
  BY <1>1, <1>2, FS_AddElement
<1>4. Cardinality(A) \in Nat
  BY FS_CardinalityType
<1>5. B \subseteq A => Cardinality(B) <= Cardinality(A)
  BY FS_Subset
<1>6. B \subseteq A \cup {x} => Cardinality(B) <= Cardinality(A \cup {x})
  BY <1>1, FS_Subset
<1>7. B \subseteq A \cup {x, y} => Cardinality(B) <= Cardinality(A \cup {x, y}) /\ Cardinality(B) \in Nat
  BY <1>3, FS_Subset, FS_CardinalityType
<1>8. Cardinality(A \cup {x}) \in Nat /\ Cardinality(A \cup {x, y}) \in Nat
  BY <1>1, <1>3, FS_CardinalityType
<1> QED BY <1>1, <1>3, <1>4, <1>5, <1>6, <1>7, <1>8

LEMMA LostFinite == ASSUME StoreTypeOK PROVE IsFiniteSet(Lost)
<1>1. Len(filed) \in Nat
  BY LenProperties DEF StoreTypeOK
<1>2. IsFiniteSet(1..Len(filed))
  BY <1>1, FS_Interval
<1>3. Lost \subseteq 1..Len(filed)
  BY DEF Lost, Receipts
<1> QED BY <1>2, <1>3, FS_Subset

(* A submission can lose the new report, unless its line is intact, and    *)
(* the report on an unfinished line that the write continues.              *)
LEMMA LostAfter ==
    ASSUME StoreTypeOK, NonceInv,
           NEW s \in Subject, NEW c \in StatedCategory, NEW now \in ReportInstant, NEW left,
           Submit(s, c, now, left) \/ CrashInSubmit(s, c, now, left),
           attached,
           NEW n \in Lost', n \notin Lost
    PROVE  \/ /\ n = Len(filed) + 1 /\ Submit(s, c, now, left)
              /\ ~(ended /\ left \in {"whole", "unterminated"})
           \/ /\ ~ended /\ left # "nothing" /\ journal[Len(journal)].kind = "intact"
              /\ n = journal[Len(journal)].rec.nonce
<1> DEFINE r == NewRecord(s, c, now)
           f == Len(filed) + 1
<1>1. /\ r \in Record /\ WriteLine(r, left) /\ left \in {"whole"} \cup Damage
      /\ \A k \in 1..Len(filed) : filed'[k] = filed[k]
      /\ filed'[f].doc = Wire(r)
      /\ \A k \in 1..Len(filed') : k \in 1..Len(filed) \/ k = f
  BY SubmissionFacts
<1>2. /\ n \in 1..Len(filed') /\ filed'[n].acked /\ filed'[n].kept
      /\ \A k \in 1..Len(journal') : journal'[k] # Intact(filed'[n].doc)
  BY DEF Lost, Receipts, OnFile
<1>3. /\ Len(journal) \in Nat
      /\ \A k \in 1..Len(journal) : (k < Len(journal) \/ ended) => journal'[k] = journal[k]
      /\ Len(journal') \in {Len(journal), Len(journal) + 1}
      /\ left = "nothing" => journal' = journal
      /\ (ended /\ left # "nothing") =>
            /\ Len(journal') = Len(journal) + 1 /\ journal'[Len(journal) + 1] = Piece(r, left)
  <2> HIDE DEF r
  <2> QED BY <1>1, WriteFacts
<1>4. CASE n = f
  <2>1. Submit(s, c, now, left)
    BY <1>2, <1>4, AckedFacts
  <2>2. ASSUME ended, left \in {"whole", "unterminated"} PROVE FALSE
    <3>1. Piece(r, left) = Intact(Wire(r))
      BY <1>1, <2>2, PieceFacts
    <3>2. journal'[Len(journal) + 1] = Intact(filed'[n].doc) /\ Len(journal) + 1 \in 1..Len(journal')
      BY <1>1, <1>3, <1>4, <2>2, <3>1
    <3> QED BY <1>2, <3>2
  <2> QED BY <1>4, <2>1, <2>2
<1>5. CASE n \in 1..Len(filed)
  <2>1. filed'[n] = filed[n] /\ n \in Receipts
    BY <1>1, <1>2, <1>5 DEF Receipts
  <2>2. PICK k \in 1..Len(journal) : journal[k] = Intact(filed[n].doc)
    BY <2>1 DEF Lost, OnFile
  <2>3. k \in 1..Len(journal')
    BY <1>3
  <2>4. journal'[k] # journal[k]
    BY <1>2, <2>1, <2>2, <2>3
  <2>5. ~ended /\ k = Len(journal) /\ left # "nothing"
    BY <1>3, <2>4
  <2>6. journal[k].kind = "intact" /\ journal[k].rec.nonce = n
    BY <1>5, <2>2 DEF Intact, NonceInv
  <2> QED BY <2>5, <2>6
<1> QED BY <1>1, <1>2, <1>4, <1>5

LEMMA RiskAfter ==
    ASSUME StoreTypeOK, NEW r \in Record, NEW left \in {"whole"} \cup Damage,
           WriteLine(r, left), attached
    PROVE  AtRisk' = CASE left = "whole" -> 0
                       [] left = "nothing" -> AtRisk
                       [] OTHER -> IF ended /\ left = "unterminated" THEN 2 ELSE 1
<1>1. /\ Len(journal) \in Nat /\ (~ended => Len(journal) > 0)
      /\ left # "nothing" =>
            /\ ended' = (left = "whole")
            /\ ended => /\ Len(journal') = Len(journal) + 1
                        /\ journal'[Len(journal) + 1] = Piece(r, left)
            /\ ~ended => /\ Len(journal') = Len(journal)
                         /\ journal'[Len(journal)].kind # "intact"
      /\ left = "nothing" => journal' = journal /\ ended' = ended
  BY WriteFacts DEF StoreTypeOK
<1>2. CASE left = "nothing"
  BY <1>1, <1>2 DEF AtRisk
<1>3. CASE left # "nothing" /\ ended
  <2>1. left \in {"whole", "unterminated", "torn", "cut"}
    BY <1>3 DEF Damage
  <2>2. Piece(r, left).kind = "intact" <=> left \in {"whole", "unterminated"}
    BY <2>1, PieceFacts DEF Intact
  <2>3. AtRisk' = IF left = "whole" THEN 0 ELSE IF left = "unterminated" THEN 2 ELSE 1
    BY <1>1, <1>3, <2>1, <2>2 DEF AtRisk
  <2> QED BY <1>3, <2>1, <2>3
<1>4. CASE left # "nothing" /\ ~ended
  <2>1. AtRisk' = IF left = "whole" THEN 0 ELSE 1
    BY <1>1, <1>4 DEF AtRisk
  <2> QED BY <1>4, <2>1
<1> QED BY <1>2, <1>3, <1>4

(* One submission: the receipts it loses and the risk it leaves are paid   *)
(* for by the faults it counts and the risk it found.                      *)
LEMMA DamageBySubmission ==
    ASSUME StoreTypeOK, NonceInv, DamageInv, attached,
           NEW s \in Subject, NEW c \in StatedCategory, NEW now \in ReportInstant, NEW left,
           Submit(s, c, now, left) \/ CrashInSubmit(s, c, now, left)
    PROVE  Cardinality(Lost') + AtRisk' <= 2 * faults'
<1> DEFINE r == NewRecord(s, c, now)
           f == Len(filed) + 1
           m == journal[Len(journal)].rec.nonce
<1>1. r \in Record /\ WriteLine(r, left) /\ left \in {"whole"} \cup Damage
  BY SubmissionFacts
<1>3. Cardinality(Lost) + AtRisk <= 2 * faults
  BY DEF DamageInv
<1>4. AtRisk' = CASE left = "whole" -> 0
                  [] left = "nothing" -> AtRisk
                  [] OTHER -> IF ended /\ left = "unterminated" THEN 2 ELSE 1
  <2> HIDE DEF r
  <2> QED BY <1>1, RiskAfter
<1>5. \A n \in Lost' \ Lost :
        \/ /\ n = f /\ Submit(s, c, now, left)
           /\ ~(ended /\ left \in {"whole", "unterminated"})
        \/ /\ ~ended /\ left # "nothing" /\ journal[Len(journal)].kind = "intact"
           /\ n = m
  BY LostAfter
<1>6. IsFiniteSet(Lost)
  BY LostFinite
<1> DEFINE A == Cardinality(Lost)
           B == Cardinality(Lost')
<1>7. /\ A \in Nat
      /\ (\A n \in Lost' : n \in Lost) => B <= A
      /\ (\A n \in Lost' : n \in Lost \/ n = f) => B <= A + 1
      /\ (\A n \in Lost' : n \in Lost \/ n = m) => B <= A + 1
      /\ (\A n \in Lost' : n \in Lost \/ n = f \/ n = m) => B <= A + 2 /\ B \in Nat
      /\ B \in Nat
  <2>1. \A n \in Lost' : n \in Lost \/ n = f \/ n = m
    BY <1>5
  <2>2. /\ Lost' \subseteq Lost => B <= A
        /\ Lost' \subseteq Lost \cup {f} => B <= A + 1
        /\ Lost' \subseteq Lost \cup {f, m} => B <= A + 2
        /\ A \in Nat
        /\ Lost' \subseteq Lost \cup {f, m} => B \in Nat
    BY <1>6, CountFacts, ZenonT(60)
  <2>3. Lost' \subseteq Lost \cup {m} => B <= A + 1
    BY <1>6, CountFacts
  <2> QED BY <2>1, <2>2, <2>3
<1>8. AtRisk = IF ended THEN 0 ELSE IF journal[Len(journal)].kind = "intact" THEN 2 ELSE 1
  BY DEF AtRisk
<1>9. faults \in Nat
  BY DEF StoreTypeOK
<1>a. A + AtRisk <= 2 * faults
  BY <1>3
<1>10. ASSUME Submit(s, c, now, left) PROVE B + AtRisk' <= 2 * faults'
  <2>1. faults' = IF left = "whole" THEN faults ELSE faults + 1
    BY <1>10, FaultyFacts DEF Submit
  <2>2. CASE left = "nothing"
    <3>1. B <= A + 1
      BY <1>5, <1>7, <2>2
    <3> HIDE DEF A, B
    <3>2. AtRisk \in {0, 1, 2} /\ AtRisk' = AtRisk
      BY <1>4, <1>8, <2>2
    <3> QED BY <1>4, <1>a, <1>7, <1>9, <2>1, <2>2, <3>1, <3>2
  <2>3. CASE left # "nothing" /\ ended
    <3>1. left \in {"whole", "unterminated"} => B <= A
      BY <1>5, <1>7, <2>3
    <3>2. B <= A + 1
      BY <1>5, <1>7, <2>3
    <3>3. AtRisk = 0
      BY <1>8, <2>3
    <3>4. AtRisk' = IF left = "whole" THEN 0 ELSE IF left = "unterminated" THEN 2 ELSE 1
      BY <1>4, <2>3
    <3> HIDE DEF A, B
    <3> QED BY <1>a, <1>7, <1>9, <2>1, <3>1, <3>2, <3>3, <3>4
  <2>4. CASE left # "nothing" /\ ~ended /\ journal[Len(journal)].kind = "intact"
    <3>1. B <= A + 2
      BY <1>5, <1>7
    <3>2. AtRisk = 2 /\ AtRisk' = IF left = "whole" THEN 0 ELSE 1
      BY <1>4, <1>8, <2>4
    <3> HIDE DEF A, B
    <3> QED BY <1>a, <1>7, <1>9, <2>1, <3>1, <3>2
  <2>5. CASE left # "nothing" /\ ~ended /\ journal[Len(journal)].kind # "intact"
    <3>1. B <= A + 1
      BY <1>5, <1>7, <2>5
    <3>2. AtRisk = 1 /\ AtRisk' = IF left = "whole" THEN 0 ELSE 1
      BY <1>4, <1>8, <2>5
    <3> HIDE DEF A, B
    <3> QED BY <1>a, <1>7, <1>9, <2>1, <3>1, <3>2
  <2> QED BY <2>2, <2>3, <2>4, <2>5
<1>11. ASSUME CrashInSubmit(s, c, now, left) PROVE B + AtRisk' <= 2 * faults'
  <2>1. faults' = IF left \in {"whole", "nothing"} THEN faults ELSE faults + 1
    BY <1>11, FaultyFacts DEF CrashInSubmit
  <2>2. ~Submit(s, c, now, left)
    <3>1. CrashInSubmit(s, c, now, left) => life' = life + 1
      BY DownFacts DEF CrashInSubmit
    <3>2. Submit(s, c, now, left) => life' = life
      BY DEF Submit
    <3>3. life \in Nat
      BY DEF StoreTypeOK
    <3> QED BY <1>11, <3>1, <3>2, <3>3
  <2>3. CASE left = "nothing"
    <3>1. B <= A
      BY <1>5, <1>7, <2>2, <2>3
    <3>2. AtRisk \in {0, 1, 2} /\ AtRisk' = AtRisk
      BY <1>4, <1>8, <2>3
    <3> HIDE DEF A, B
    <3> QED BY <1>a, <1>7, <1>9, <2>1, <2>3, <3>1, <3>2
  <2>4. CASE left # "nothing" /\ ended
    <3>1. B <= A
      BY <1>5, <1>7, <2>2, <2>4
    <3>2. AtRisk = 0
      BY <1>8, <2>4
    <3>3. AtRisk' = IF left = "whole" THEN 0 ELSE IF left = "unterminated" THEN 2 ELSE 1
      BY <1>4, <2>4
    <3> HIDE DEF A, B
    <3> QED BY <1>a, <1>7, <1>9, <2>1, <2>4, <3>1, <3>2, <3>3
  <2>5. CASE left # "nothing" /\ ~ended /\ journal[Len(journal)].kind = "intact"
    <3>1. B <= A + 1
      BY <1>5, <1>7, <2>2
    <3>2. AtRisk = 2 /\ AtRisk' = IF left = "whole" THEN 0 ELSE 1
      BY <1>4, <1>8, <2>5
    <3> HIDE DEF A, B
    <3> QED BY <1>a, <1>7, <1>9, <2>1, <2>5, <3>1, <3>2
  <2>6. CASE left # "nothing" /\ ~ended /\ journal[Len(journal)].kind # "intact"
    <3>1. B <= A
      BY <1>5, <1>7, <2>2, <2>6
    <3>2. AtRisk = 1 /\ AtRisk' = IF left = "whole" THEN 0 ELSE 1
      BY <1>4, <1>8, <2>6
    <3> HIDE DEF A, B
    <3> QED BY <1>a, <1>7, <1>9, <2>1, <2>6, <3>1, <3>2
  <2> QED BY <2>3, <2>4, <2>5, <2>6
<1> QED BY <1>4, <1>10, <1>11

(* A process without a file risks nothing on file.                         *)
LEMMA DamageAside ==
    ASSUME StoreTypeOK, DamageInv, ~attached,
           NEW s \in Subject, NEW c \in StatedCategory, NEW now \in ReportInstant, NEW left,
           Submit(s, c, now, left) \/ CrashInSubmit(s, c, now, left)
    PROVE  Cardinality(Lost') + AtRisk' <= 2 * faults'
<1> DEFINE r == NewRecord(s, c, now)
           f == Len(filed) + 1
<1>1. /\ WriteLine(r, left)
      /\ \A n \in 1..Len(filed) : filed'[n] = filed[n]
      /\ filed'[f].kept = attached
      /\ \A n \in 1..Len(filed') : n \in 1..Len(filed) \/ n = f
  BY SubmissionFacts
<1>2. journal' = journal /\ ended' = ended
  BY <1>1 DEF WriteLine
<1>3. AtRisk' = AtRisk
  BY <1>2 DEF AtRisk
<1>4. ~filed'[f].kept
  BY <1>1, Zenon
<1>5. Lost' \subseteq Lost
  BY <1>1, <1>2, <1>4 DEF Lost, Receipts, OnFile
<1>6. IsFiniteSet(Lost) /\ IsFiniteSet(Lost')
  BY <1>5, LostFinite, FS_Subset
<1>7. /\ Cardinality(Lost') <= Cardinality(Lost)
      /\ Cardinality(Lost) \in Nat /\ Cardinality(Lost') \in Nat
  BY <1>5, <1>6, FS_Subset, FS_CardinalityType
<1>8. faults \in Nat /\ (faults' = faults \/ faults' = faults + 1)
  BY DEF Submit, CrashInSubmit, Faulty, StoreTypeOK
<1>9. AtRisk \in {0, 1, 2} /\ Cardinality(Lost) + AtRisk <= 2 * faults
  BY DEF AtRisk, DamageInv
<1> QED BY <1>3, <1>7, <1>8, <1>9

LEMMA DamageStep ==
    ASSUME StoreTypeOK, NonceInv, DamageInv, [StoreNext]_storeVars
    PROVE  DamageInv'
<1>1. ASSUME NEW s \in Subject, NEW c \in StatedCategory, NEW now \in ReportInstant, NEW left,
             Submit(s, c, now, left) \/ CrashInSubmit(s, c, now, left)
      PROVE  Cardinality(Lost') + AtRisk' <= 2 * faults'
  <2>1. CASE attached
    BY <1>1, <2>1, DamageBySubmission
  <2>2. CASE ~attached
    BY <1>1, <2>2, DamageAside
  <2> QED BY <2>1, <2>2
<1>2. ASSUME journal' = journal, filed' = filed, ended' = ended, faults' = faults
      PROVE  Cardinality(Lost') + AtRisk' <= 2 * faults'
  <2>1. Lost' = Lost /\ AtRisk' = AtRisk
    BY <1>2 DEF Lost, Receipts, OnFile, AtRisk
  <2> QED BY <1>2, <2>1 DEF DamageInv
<1>3. Cardinality(Lost') + AtRisk' <= 2 * faults'
  BY <1>1, <1>2, OtherSteps
<1> QED
  BY <1>3 DEF DamageInv

----------------------------------------------------------------------------
(* The invariant, and what follows from it.                                *)

StoreInv ==
    StoreTypeOK /\ FreshInv /\ CleanInv /\ NonceInv /\ LinesInv /\ RecordsInv /\ DamageInv

LEMMA StoreInvInit == ASSUME StoreInit PROVE StoreInv
<1>1. StoreTypeOK
  BY TypeInit
<1>2. /\ Len(records) = 0 /\ Len(journal) = 0 /\ Len(filed) = 0 /\ ended /\ phase = "opening"
      /\ cursor = 1 /\ faults = 0 /\ ~attached
  BY DEF StoreInit
<1>3. 1..Len(records) = {} /\ 1..Len(journal) = {} /\ 1..Len(filed) = {} /\ phase # "serving"
  BY <1>2
<1>4. FreshInv /\ NonceInv /\ LinesInv
  BY <1>3 DEF FreshInv, NonceInv, LinesInv
<1>5. CleanInv
  BY <1>2, <1>3 DEF CleanInv
<1>6. RecordsInv
  BY <1>3 DEF RecordsInv
<1>7. DamageInv
  <2>1. Lost = {} /\ AtRisk = 0
    BY <1>2, <1>3 DEF Lost, Receipts, AtRisk
  <2> QED BY <1>2, <1>3, <2>1, FS_EmptySet DEF DamageInv
<1> QED BY <1>1, <1>4, <1>5, <1>6, <1>7 DEF StoreInv

LEMMA StoreInvStep == ASSUME StoreInv, [StoreNext]_storeVars PROVE StoreInv'
  BY TypeStep, FreshStep, CleanStep, NonceStep, LinesStep, RecordsStep, DamageStep DEF StoreInv

(* The invariant of the store holds in every reachable state.              *)
THEOREM StoreSafety == StoreSpec => []StoreInv
<1>1. StoreInit => StoreInv
  BY StoreInvInit
<1>2. StoreInv /\ [StoreNext]_storeVars => StoreInv'
  BY StoreInvStep
<1> QED
  BY <1>1, <1>2, PTL DEF StoreSpec

(* feedback.rs:179-198: in the lifetime that issued it, a receipt's        *)
(* sequence cites exactly the report the receipt was issued for.           *)
THEOREM ReceiptsCited == StoreSpec => []FreshReceiptsCited
<1>1. StoreInv => FreshReceiptsCited
  BY DEF StoreInv, FreshInv, FreshReceiptsCited, Receipts, HasCitation, Citation
<1> QED
  BY <1>1, StoreSafety, PTL

(* feedback.rs:143-162: replay never invents, alters or doubles a report.  *)
THEOREM ReplaySound == StoreSpec => []ReplayNeverInvents
<1>1. StoreInv => ReplayNeverInvents
  BY DEF StoreInv, RecordsInv, ReplayNeverInvents
<1> QED
  BY <1>1, StoreSafety, PTL

(* feedback.rs:124-125, api.rs:181-185: with every write complete and the  *)
(* file never taken for absent, a process that has the file cites every    *)
(* receipt of every process that had it, however many opens have failed.   *)
THEOREM StoreDurable == StoreSpec => []DurableWithoutFaults
<1>1. ASSUME StoreInv PROVE DurableWithoutFaults
  <2> SUFFICES ASSUME faults = 0, ~unread, phase = "serving", attached,
                      NEW n \in Receipts, filed[n].kept
               PROVE  /\ HasCitation(filed[n].doc.seq)
                      /\ SameReport(Citation(filed[n].doc.seq), filed[n].doc)
    BY DEF DurableWithoutFaults
  <2> DEFINE k == filed[n].doc.seq
  <2>1. n \in 1..Len(filed) /\ filed[n].acked
    BY DEF Receipts
  <2>2. /\ Len(records) = Len(journal) /\ k \in 1..Len(journal)
        /\ journal[k] = Intact(filed[n].doc)
        /\ \A j \in 1..Len(records) : SameReport(records[j], journal[j].rec)
    BY <1>1, <2>1 DEF StoreInv, CleanInv
  <2>3. filed[n].doc \in Record
    BY <1>1, <2>1, FilingFacts DEF StoreInv
  <2>4. k \in 1..Len(records) /\ records[k] \in Record
    BY <1>1, <2>2, ElementOfSeq DEF StoreInv, StoreTypeOK
  <2>5. SameReport(records[k], filed[n].doc)
    BY <2>2, <2>4 DEF Intact
  <2> QED BY <2>3, <2>4, <2>5, SameReportFacts DEF HasCitation, Citation
<1> QED
  BY <1>1, StoreSafety, PTL

(* feedback.rs:155-163, :184-188: a faulty write costs two receipts at     *)
(* most, whatever it leaves and however many opens fail.                   *)
THEOREM DamageContained == StoreSpec => []DamageBounded
<1>1. StoreInv => DamageBounded
  BY DEF StoreInv, DamageInv, DamageBounded, Lost
<1> QED
  BY <1>1, StoreSafety, PTL

----------------------------------------------------------------------------
(* The store as a ledger.                                                  *)

(* No write can be faulty and a file that is there is never taken for      *)
(* absent.  Opens may fail.                                                *)
NoDamage == WriteErrors = {} /\ CrashTears = {} /\ "unseen" \notin OpenErrors

LedgerOnFile == [k \in 1..Len(journal) |-> Entry(journal[k].rec)]
InMemory == [k \in 1..Len(records) |-> Entry(records[k])]
LedgerShown == IF phase = "serving" THEN InMemory ELSE <<>>

LEMMA NoDamageStep ==
    ASSUME NoDamage, StoreInv, faults = 0, ~unread, [StoreNext]_storeVars
    PROVE  faults' = 0 /\ ~unread'
<1>1. ASSUME NEW s \in Subject, NEW c \in StatedCategory, NEW now \in ReportInstant,
             \/ \E left \in {"whole"} \cup WriteErrors : Submit(s, c, now, left)
             \/ \E left \in {"whole", "nothing"} \cup CrashTears : CrashInSubmit(s, c, now, left)
      PROVE  faults' = 0 /\ ~unread'
  <2>1. ASSUME Submit(s, c, now, "whole") PROVE faults' = 0 /\ ~unread'
    BY <2>1 DEF Submit, Faulty
  <2>2. ASSUME NEW left \in {"whole", "nothing"}, CrashInSubmit(s, c, now, left)
        PROVE  faults' = 0 /\ ~unread'
    BY <2>2 DEF CrashInSubmit, Faulty, Down
  <2> QED BY <1>1, <2>1, <2>2, Zenon DEF NoDamage
<1>2. CASE ReplayLine \/ OpenDone
  BY <1>2 DEF ReplayLine, OpenDone
<1>3. CASE OpenGivesUp \/ OpenFails
  BY <1>3, InMemoryFacts
<1>4. CASE Crash \/ UNCHANGED storeVars
  BY <1>4 DEF Crash, Down, storeVars
<1>5. ~OpenUnseen
  BY DEF OpenUnseen, NoDamage
<1> QED
  BY <1>1, <1>2, <1>3, <1>4, <1>5, Zenon DEF StoreNext, Open, Read

(* While clean, memory that comes from the file gives what is on file.     *)
LEMMA ReadIsOnFile ==
    ASSUME StoreTypeOK, CleanInv, faults = 0, ~unread
    PROVE  /\ attached => InMemory = LedgerOnFile
           /\ (phase = "opening" /\ cursor > Len(journal)) => InMemory = LedgerOnFile
<1>1. ASSUME Len(records) = Len(journal), phase = "opening" \/ attached
      PROVE  InMemory = LedgerOnFile
  <2>1. ASSUME NEW k \in 1..Len(records)
        PROVE  Entry(records[k]) = Entry(journal[k].rec)
    <3>1. records[k] \in Record /\ journal[k] \in Line
      BY <1>1, ElementOfSeq DEF StoreTypeOK
    <3>2. journal[k].kind = "intact" /\ SameReport(records[k], journal[k].rec)
      BY <1>1 DEF CleanInv
    <3>3. journal[k].rec \in Record
      BY <3>1, <3>2 DEF Line, Torn, Cut
    <3> QED BY <3>1, <3>2, <3>3, SameReportFacts DEF Entry
  <2> QED BY <1>1, <2>1 DEF LedgerOnFile, InMemory
<1>2. Len(records) \in Nat /\ Len(journal) \in Nat
  BY LenProperties DEF StoreTypeOK
<1>3. attached => Len(records) = Len(journal)
  BY DEF CleanInv
<1>4. (phase = "opening" /\ cursor > Len(journal)) => Len(records) = Len(journal)
  BY <1>2 DEF CleanInv
<1> QED BY <1>1, <1>3, <1>4

(* A submission to a process that has the file is one more entry of the    *)
(* ledger, under its number, if its write completes.                       *)
LEMMA OneMoreOnFile ==
    ASSUME StoreTypeOK, CleanInv, faults = 0, ~unread, attached,
           NEW s \in Subject, NEW c \in StatedCategory, NEW now \in ReportInstant,
           Submit(s, c, now, "whole") \/ CrashInSubmit(s, c, now, "whole")
    PROVE  Ledger!OneMoreEntry(LedgerOnFile, LedgerOnFile')
<1> DEFINE r == NewRecord(s, c, now)
           n == Len(journal)
<1>1. /\ r \in Record /\ WriteLine(r, "whole") /\ Wire(r).seq = Len(records) + 1
      /\ phase = "serving"
  BY SubmissionFacts
<1>2. n \in Nat /\ ended /\ Len(records) = n
  BY <1>1, LenProperties DEF CleanInv, StoreTypeOK
<1>3. Piece(r, "whole") = Intact(Wire(r))
  BY <1>1, PieceFacts
<1>4. /\ Len(journal') = n + 1
      /\ journal'[n + 1].rec = Wire(r)
      /\ \A k \in 1..n : journal'[k] = journal[k]
  <2> HIDE DEF r
  <2>1. "whole" \in {"whole"} \cup Damage
    OBVIOUS
  <2>2. /\ \A k \in 1..Len(journal) : (k < Len(journal) \/ ended) => journal'[k] = journal[k]
        /\ (attached /\ "whole" # "nothing") =>
             (ended => /\ Len(journal') = Len(journal) + 1
                       /\ journal'[Len(journal) + 1] = Piece(r, "whole"))
    BY <1>1, <2>1, WriteFacts
  <2>3. Len(journal') = n + 1 /\ journal'[n + 1] = Intact(Wire(r))
    BY <1>2, <1>3, <2>2
  <2>4. \A k \in 1..n : journal'[k] = journal[k]
    BY <1>2, <2>2
  <2>5. Intact(Wire(r)).rec = Wire(r)
    BY DEF Intact
  <2> QED BY <2>3, <2>4, <2>5
<1>5. /\ Len(LedgerOnFile) = n /\ Len(LedgerOnFile') = n + 1
      /\ \A k \in 1..n : LedgerOnFile[k] = Entry(journal[k].rec)
      /\ \A k \in 1..(n + 1) : LedgerOnFile'[k] = Entry(journal'[k].rec)
  BY <1>2, <1>4 DEF LedgerOnFile
<1>6. \A k \in 1..n : k \in 1..(n + 1)
  BY <1>2
<1>7. LedgerOnFile'[n + 1].seq = n + 1
  BY <1>1, <1>2, <1>4, <1>5 DEF Entry
<1>8. \A k \in 1..n : LedgerOnFile'[k] = LedgerOnFile[k]
  BY <1>4, <1>5, <1>6
<1> QED BY <1>5, <1>7, <1>8 DEF Ledger!OneMoreEntry

(* A receipt is one more entry of what is in memory, under its number.     *)
LEMMA OneMoreInMemory ==
    ASSUME StoreTypeOK, NEW s \in Subject, NEW c \in StatedCategory, NEW now \in ReportInstant,
           NEW left, Submit(s, c, now, left)
    PROVE  Ledger!OneMoreEntry(InMemory, InMemory')
<1> DEFINE r == NewRecord(s, c, now)
           n == Len(records)
<1>1. r \in Record /\ r.seq = n + 1 /\ n \in Nat
  BY SubmissionFacts
<1>2. records' = Append(records, r)
  BY DEF Submit
<1> HIDE DEF r
<1>3. /\ Len(records') = n + 1 /\ records'[n + 1] = r
      /\ \A k \in 1..n : records'[k] = records[k]
  BY <1>1, <1>2, AppendLast DEF StoreTypeOK
<1>4. /\ Len(InMemory) = n /\ Len(InMemory') = n + 1
      /\ \A k \in 1..n : InMemory[k] = Entry(records[k])
      /\ \A k \in 1..(n + 1) : InMemory'[k] = Entry(records'[k])
  BY <1>1, <1>3 DEF InMemory
<1>5. \A k \in 1..n : k \in 1..(n + 1)
  BY <1>1
<1>6. InMemory'[n + 1].seq = n + 1
  BY <1>1, <1>3, <1>4 DEF Entry
<1>7. \A k \in 1..n : InMemory'[k] = InMemory[k]
  BY <1>3, <1>4, <1>5
<1> QED BY <1>4, <1>6, <1>7 DEF Ledger!OneMoreEntry

LEMMA LedgerStep ==
    ASSUME NoDamage, StoreInv, StoreInv', faults = 0, faults' = 0, ~unread, ~unread',
           [StoreNext]_storeVars
    PROVE  [Ledger!LedgerNext]_(Ledger!ledgerVars)
<1>0. /\ attached => InMemory = LedgerOnFile
      /\ (phase = "opening" /\ cursor > Len(journal)) => InMemory = LedgerOnFile
  BY ReadIsOnFile DEF StoreInv
<1>a. attached' => InMemory' = LedgerOnFile'
  <2>1. StoreTypeOK' /\ CleanInv'
    BY DEF StoreInv
  <2> SUFFICES ASSUME attached' PROVE InMemory' = LedgerOnFile'
    OBVIOUS
  <2>2. Len(records') = Len(journal')
    BY <2>1 DEF CleanInv
  <2>3. ASSUME NEW k \in 1..Len(records')
        PROVE  Entry(records'[k]) = Entry(journal'[k].rec)
    <3>1. records'[k] \in Record /\ journal'[k] \in Line
      BY <2>1, <2>2, ElementOfSeq DEF StoreTypeOK
    <3>2. journal'[k].kind = "intact" /\ SameReport(records'[k], journal'[k].rec)
      BY <2>1, <2>2 DEF CleanInv
    <3>3. journal'[k].rec \in Record
      BY <3>1, <3>2 DEF Line, Torn, Cut
    <3> QED BY <3>1, <3>2, <3>3, SameReportFacts DEF Entry
  <2> QED BY <2>2, <2>3 DEF InMemory, LedgerOnFile
<1>b. /\ phase \in {"serving", "opening"} /\ phase' \in {"serving", "opening"}
      /\ attached \in BOOLEAN /\ attached' \in BOOLEAN
      /\ phase = "opening" => ~attached
      /\ LedgerShown = IF phase = "serving" THEN InMemory ELSE <<>>
      /\ LedgerShown' = IF phase' = "serving" THEN InMemory' ELSE <<>>
  <2>1. phase = "opening" => ~attached
    BY DEF StoreInv, CleanInv
  <2> QED BY <2>1 DEF StoreInv, StoreTypeOK, LedgerShown
<1> USE DEF Ledger!LedgerNext, Ledger!ledgerVars
<1>1. ASSUME NEW s \in Subject, NEW c \in StatedCategory, NEW now \in ReportInstant,
             NEW left \in {"whole"} \cup WriteErrors, Submit(s, c, now, left)
      PROVE  Ledger!FileReport \/ Ledger!FileAside
  <2>1. /\ left = "whole" /\ phase = "serving" /\ phase' = "serving" /\ attached' = attached
    BY <1>1 DEF Submit, CanSubmit, NoDamage
  <2>2. CASE attached
    <3>1. Ledger!OneMoreEntry(LedgerOnFile, LedgerOnFile')
      BY <1>1, <2>1, <2>2, OneMoreOnFile DEF StoreInv
    <3>2. LedgerShown' = LedgerOnFile'
      BY <1>a, <1>b, <2>1, <2>2
    <3> QED BY <2>1, <2>2, <3>1, <3>2 DEF Ledger!FileReport, LedgerOnFile, LedgerShown, InMemory
  <2>3. CASE ~attached
    <3>1. Ledger!OneMoreEntry(InMemory, InMemory')
      BY <1>1, OneMoreInMemory DEF StoreInv
    <3>2. LedgerShown = InMemory /\ LedgerShown' = InMemory'
      BY <1>b, <2>1
    <3>3. journal' = journal
      BY <1>1, <2>3 DEF Submit, WriteLine
    <3>4. LedgerOnFile' = LedgerOnFile
      BY <3>3 DEF LedgerOnFile
    <3>5. Ledger!OneMoreEntry(LedgerShown, LedgerShown')
      BY <3>1, <3>2
    <3> QED BY <2>1, <2>3, <3>4, <3>5 DEF Ledger!FileAside, LedgerOnFile, LedgerShown, InMemory
  <2> QED BY <2>2, <2>3
<1>2. ASSUME NEW s \in Subject, NEW c \in StatedCategory, NEW now \in ReportInstant,
             NEW left \in {"whole", "nothing"} \cup CrashTears, CrashInSubmit(s, c, now, left)
      PROVE  Ledger!FileAndStop \/ Ledger!Stop
  <2>1. left \in {"whole", "nothing"} /\ phase = "serving" /\ phase' = "opening" /\ attached' = FALSE
    BY <1>2 DEF CrashInSubmit, CanSubmit, NoDamage, Down
  <2>2. LedgerShown' = <<>>
    BY <1>b, <2>1
  <2>3. Ledger!Down
    BY <2>1, <2>2 DEF Ledger!Down, LedgerShown, InMemory
  <2>4. CASE left = "whole" /\ attached
    <3>1. Ledger!OneMoreEntry(LedgerOnFile, LedgerOnFile')
      BY <1>2, <2>4, OneMoreOnFile DEF StoreInv
    <3> QED BY <2>1, <2>3, <2>4, <3>1 DEF Ledger!FileAndStop, LedgerOnFile
  <2>5. CASE left = "nothing" \/ ~attached
    <3>1. journal' = journal
      BY <1>2, <2>5 DEF CrashInSubmit, WriteLine
    <3> QED BY <2>3, <3>1 DEF Ledger!Stop
  <2> QED BY <2>1, <2>4, <2>5
<1>3. CASE Crash
  <2>1. phase' = "opening" /\ attached' = FALSE /\ journal' = journal
    BY <1>3 DEF Crash, Down
  <2>2. LedgerShown' = <<>>
    BY <1>b, <2>1
  <2> QED BY <2>1, <2>2 DEF Ledger!Stop, Ledger!Down, LedgerShown, InMemory
<1>4. CASE ReplayLine
  <2>1. phase = "opening" /\ phase' = phase /\ attached' = attached /\ journal' = journal
    BY <1>4 DEF ReplayLine
  <2> QED BY <2>1
<1>5. CASE OpenDone
  <2>1. /\ phase = "opening" /\ cursor > Len(journal) /\ phase' = "serving" /\ attached' = TRUE
        /\ journal' = journal
    BY <1>5 DEF OpenDone
  <2>2. LedgerOnFile' = LedgerOnFile
    BY <2>1 DEF LedgerOnFile
  <2>3. LedgerShown' = LedgerOnFile
    BY <1>a, <1>b, <2>1, <2>2
  <2> QED BY <2>1, <2>2, <2>3 DEF Ledger!Start, LedgerOnFile, LedgerShown, InMemory
<1>6. CASE OpenGivesUp \/ OpenFails
  <2>1. /\ phase = "opening" /\ phase' = "serving" /\ attached' = FALSE
        /\ journal' = journal /\ records' = <<>>
    BY <1>6 DEF OpenGivesUp, OpenFails, InMemoryOnly
  <2>2. LedgerShown' = <<>>
    BY <1>b, <2>1 DEF InMemory
  <2> QED BY <2>1, <2>2 DEF Ledger!StartAside, LedgerShown, InMemory
<1>7. ~OpenUnseen
  BY DEF OpenUnseen, NoDamage
<1>8. CASE UNCHANGED storeVars
  BY <1>8 DEF storeVars
<1> QED
  BY <1>1, <1>2, <1>3, <1>4, <1>5, <1>6, <1>7, <1>8 DEF StoreNext, Open, Read

(* feedback.rs:5-9, api.rs:181-185: where no write fails, no crash tears a *)
(* line and no file is taken for absent, the journal with its replay       *)
(* implements the ledger readers are promised, whatever opens fail.        *)
THEOREM LedgerImplemented == StoreSpec /\ NoDamage => ImplementsLedger
<1> DEFINE Undamaged == NoDamage /\ faults = 0 /\ ~unread
<1>1. StoreInit => Ledger!LedgerInit /\ faults = 0 /\ ~unread
  BY DEF StoreInit, Ledger!LedgerInit
<1>2. StoreInv /\ Undamaged /\ [StoreNext]_storeVars => Undamaged'
  BY NoDamageStep DEF NoDamage
<1>3. StoreInv /\ StoreInv' /\ Undamaged /\ Undamaged' /\ [StoreNext]_storeVars
        => [Ledger!LedgerNext]_(Ledger!ledgerVars)
  BY LedgerStep
<1>4. StoreSpec /\ NoDamage => []Undamaged
  BY <1>1, <1>2, StoreSafety, PTL DEF StoreSpec
<1>5. StoreSpec /\ NoDamage => [][Ledger!LedgerNext]_(Ledger!ledgerVars)
  BY <1>3, <1>4, StoreSafety, PTL DEF StoreSpec
<1> QED
  BY <1>1, <1>5, PTL DEF StoreSpec, ImplementsLedger, Ledger!LedgerSpec

----------------------------------------------------------------------------
(* The file only grows.                                                    *)

LEMMA LinesAreKept ==
    ASSUME StoreTypeOK, [StoreNext]_storeVars
    PROVE  \A k \in 1..Len(journal) : (k < Len(journal) \/ ended) =>
               k <= Len(journal') /\ journal'[k] = journal[k]
<1>1. Len(journal) \in Nat
  BY LenProperties DEF StoreTypeOK
<1>2. ASSUME NEW s \in Subject, NEW c \in StatedCategory, NEW now \in ReportInstant, NEW left,
             Submit(s, c, now, left) \/ CrashInSubmit(s, c, now, left)
      PROVE  \A k \in 1..Len(journal) : (k < Len(journal) \/ ended) =>
                 k <= Len(journal') /\ journal'[k] = journal[k]
  <2> DEFINE r == NewRecord(s, c, now)
  <2>1. r \in Record /\ left \in {"whole"} \cup Damage /\ WriteLine(r, left)
    BY <1>2, SubmissionFacts
  <2> HIDE DEF r
  <2>2. /\ \A k \in 1..Len(journal) : (k < Len(journal) \/ ended) => journal'[k] = journal[k]
        /\ Len(journal') \in {Len(journal), Len(journal) + 1}
    BY <2>1, WriteFacts
  <2> QED BY <1>1, <2>2
<1>3. CASE journal' = journal
  BY <1>1, <1>3
<1> QED BY <1>2, <1>3, OtherSteps

(* feedback.rs:163: a report on a finished line is never taken away, after *)
(* any number of failing writes, tears and restarts.                       *)
THEOREM LinesStay == StoreSpec => FinishedLinesStay
<1>1. StoreTypeOK /\ [StoreNext]_storeVars =>
        [\A k \in 1..Len(journal) : (k < Len(journal) \/ ended) =>
             k <= Len(journal') /\ journal'[k] = journal[k]]_storeVars
  BY LinesAreKept
<1> QED BY <1>1, StoreTypeCorrect, PTL DEF StoreSpec, FinishedLinesStay
=============================================================================
