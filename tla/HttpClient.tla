------------------------------- MODULE HttpClient -------------------------------
(***************************************************************************)
(* One call of the issuer through the gateway's own HTTP client (http.rs,  *)
(* request).  The response comes in pieces of any size, may be cut off by  *)
(* the issuer at any byte, or stop coming.  The client reads up to the end *)
(* of the header, then a body that is chunked, of a given length, or ends  *)
(* with the stream; after each read it looks at all it has, and goes on    *)
(* reading while that is not enough.  A timer ends the whole of it.        *)
(***************************************************************************)
EXTENDS Integers, Sequences, SequencesExt

CONSTANTS
    Response,   \* what the issuer may answer, see ResponseType
    ReadSize,   \* bytes one read returns at most
    Timeout     \* of the call, in ticks

NoLength == -1
Malformed == -1

(* The characters the client tells apart.  "start" stands for the status   *)
(* line and the headers up to the blank line, whose content is a record.   *)
Digit == [c \in {"0", "1", "2", "3"} |->
            CASE c = "0" -> 0 [] c = "1" -> 1 [] c = "2" -> 2 [] c = "3" -> 3]
Byte == DOMAIN Digit \cup {"start", "cr", "lf", "semi", "x"}

Bytes == Seq(Byte)
CrLf == <<"cr", "lf">>
BlankLine == CrLf \o CrLf

(* parses: the status line does.  json: the body is a JSON object.  The    *)
(* line of a chunk is a size and an extension.                             *)
Chunk == [size : Bytes, extension : Bytes, data : Bytes]
ResponseType ==
    [parses : BOOLEAN, status : Nat, chunked : BOOLEAN, length : Nat \cup {NoLength},
     json : BOOLEAN, chunks : Seq(Chunk)]

(* A size is hexadecimal.                                                  *)
IsSize(digits) == digits # <<>> /\ ToSet(digits) \subseteq DOMAIN Digit
SizeOf(digits) == FoldLeft(LAMBDA n, c : 16 * n + Digit[c], 0, digits)

(* A chunk's line is one line, and its extension begins with a semicolon.  *)
(* A size that is one is that of the data, which are not empty: the chunk  *)
(* of size 0 comes last.                                                   *)
IsFramed(c) ==
    /\ "cr" \notin ToSet(c.size \o c.extension)
    /\ "semi" \notin ToSet(c.size)
    /\ c.extension = <<>> \/ c.extension[1] = "semi"
    /\ IsSize(c.size) => SizeOf(c.size) = Len(c.data) /\ c.data # <<>>

ASSUME ClientAssumption ==
    /\ Response \subseteq ResponseType
    /\ \A r \in Response : r.chunked => \A n \in 1..Len(r.chunks) : IsFramed(r.chunks[n])
    /\ ReadSize \in Nat \ {0}
    /\ Timeout \in Nat

VARIABLES
    response,   \* the issuer's answer
    sent,       \* the bytes of it that get out
    closes,     \* the issuer closes the connection then, or leaves it open
    raw,        \* what the client has read
    result,     \* of request()
    waited,     \* ticks since the call began
    broken      \* history: the connection failed

httpVars == <<response, sent, closes, raw, result, waited, broken>>

Pending == [kind |-> "none", body |-> <<>>]
Ok(body) == [kind |-> "ok", body |-> body]
Failed == [kind |-> "error", body |-> <<>>]
TimedOut == [kind |-> "timeout", body |-> <<>>]

----------------------------------------------------------------------------
(* The issuer's side of the stream.                                        *)
Data(r) == FlattenSeq([n \in 1..Len(r.chunks) |-> r.chunks[n].data])

Framed(c) == c.size \o c.extension \o CrLf \o c.data \o CrLf

ChunkedForm(r) ==
    FlattenSeq([n \in 1..Len(r.chunks) |-> Framed(r.chunks[n])]) \o <<"0">> \o BlankLine

Wire(r) == <<"start">> \o BlankLine \o (IF r.chunked THEN ChunkedForm(r) ELSE Data(r))

(* The body the response means.                                            *)
Payload(r) ==
    IF ~r.chunked /\ r.length # NoLength /\ r.length < Len(Data(r))
    THEN SubSeq(Data(r), 1, r.length) ELSE Data(r)

----------------------------------------------------------------------------
(* First place of a needle, from a place on, or 0.                         *)
FindSubslice(bytes, needle, from) ==
    LET found == {i \in from..(Len(bytes) - Len(needle) + 1) :
                    SubSeq(bytes, i, i + Len(needle) - 1) = needle}
    IN IF found = {} THEN 0 ELSE Min(found)

(* A chunk's size is what stands before the extension.                     *)
ChunkSizeWhole(line) == IF IsSize(line) THEN SizeOf(line) ELSE Malformed

ChunkSize(line) ==
    LET semicolon == FindSubslice(line, <<"semi">>, 1)
        digits == IF semicolon = 0 THEN line ELSE SubSeq(line, 1, semicolon - 1)
    IN IF IsSize(digits) THEN SizeOf(digits) ELSE Malformed

(* One round of the decoder's loop, which reads a chunk.  A body that does *)
(* not decode is an incomplete one, whatever is wrong with it; what        *)
(* follows the last chunk is not looked at.                                *)
Decoding(pos, data) == [state |-> "decoding", pos |-> pos, data |-> data]
Incomplete == [state |-> "incomplete", pos |-> 0, data |-> <<>>]
Complete(data) == [state |-> "complete", pos |-> 0, data |-> data]

DecodeChunk(body, d) ==
    LET lineEnd == FindSubslice(body, CrLf, d.pos)
        size == ChunkSize(SubSeq(body, d.pos, lineEnd - 1))
        next == lineEnd + 2 + size + 2
    IN IF d.state # "decoding" THEN d
       ELSE IF lineEnd = 0 \/ size = Malformed THEN Incomplete
       ELSE IF size = 0 THEN Complete(d.data)
       ELSE IF next > Len(body) + 1 THEN Incomplete
       ELSE Decoding(next, d.data \o SubSeq(body, lineEnd + 2, lineEnd + 1 + size))

(* Each round reads a byte at least: a round for each byte, and one more,  *)
(* are enough.                                                             *)
DecodeChunkedBody(body) ==
    LET after[n \in Nat] ==
            IF n = 0 THEN Decoding(1, <<>>)
            ELSE LET before == after[n - 1] IN DecodeChunk(body, before)
    IN after[Len(body) + 1]

HeaderEnd(bytes) == FindSubslice(bytes, BlankLine, 1)
Body(bytes) == SubSeq(bytes, HeaderEnd(bytes) + Len(BlankLine), Len(bytes))

ChunkedResult(body) ==
    LET decoded == DecodeChunkedBody(body)
    IN IF decoded.state = "complete" THEN Ok(decoded.data) ELSE Pending

LengthResult(body) ==
    IF Len(body) < response.length THEN Pending ELSE Ok(SubSeq(body, 1, response.length))

(* The result of what has been read, if it needs no more.                  *)
ResultOf(bytes) ==
    CASE HeaderEnd(bytes) = 0 -> Pending
      [] HeaderEnd(bytes) # 0 /\ ~response.parses -> Failed
      [] HeaderEnd(bytes) # 0 /\ response.parses /\ response.chunked -> ChunkedResult(Body(bytes))
      [] HeaderEnd(bytes) # 0 /\ response.parses /\ ~response.chunked ->
            IF response.length = NoLength THEN Pending ELSE LengthResult(Body(bytes))

(* The result of what has been read when the stream ends.                  *)
ResultAtEndLenient(bytes) == IF HeaderEnd(bytes) = 0 THEN Failed ELSE Ok(Body(bytes))
ResultAtEnd(bytes) ==
    IF HeaderEnd(bytes) = 0 \/ response.chunked THEN Failed ELSE Ok(Body(bytes))

----------------------------------------------------------------------------
HttpTypeOK ==
    /\ response \in Response
    /\ IsPrefix(sent, Wire(response)) /\ IsPrefix(raw, sent)
    /\ closes \in BOOLEAN /\ broken \in BOOLEAN
    /\ result.kind \in {"none", "ok", "error", "timeout"} /\ result.body \in Bytes
    /\ waited \in 0..Timeout

HttpInit ==
    /\ response \in Response
    /\ sent \in Prefixes(Wire(response))
    /\ closes \in BOOLEAN
    /\ raw = <<>>
    /\ result = Pending
    /\ waited = 0
    /\ broken = FALSE

(* Connecting, sending the request or reading fails.                       *)
Breaks ==
    /\ result = Pending
    /\ result' = Failed
    /\ broken' = TRUE
    /\ UNCHANGED <<response, sent, closes, raw, waited>>

ReceiveWholeBuffer(n) ==
    /\ result = Pending
    /\ Len(raw) + n <= Len(sent)
    /\ raw' = raw \o SubSeq(sent, 1, n)
    /\ result' = ResultOf(raw')
    /\ UNCHANGED <<response, sent, closes, waited, broken>>

ReceiveRestartsTimer(n) ==
    /\ result = Pending
    /\ Len(raw) + n <= Len(sent)
    /\ raw' = SubSeq(sent, 1, Len(raw) + n)
    /\ result' = ResultOf(raw')
    /\ waited' = 0
    /\ UNCHANGED <<response, sent, closes, broken>>

Receive(n) ==
    /\ result = Pending
    /\ Len(raw) + n <= Len(sent)
    /\ raw' = SubSeq(sent, 1, Len(raw) + n)
    /\ result' = ResultOf(raw')
    /\ UNCHANGED <<response, sent, closes, waited, broken>>

StreamEnds ==
    /\ result = Pending
    /\ closes /\ raw = sent
    /\ result' = ResultAtEnd(raw)
    /\ UNCHANGED <<response, sent, closes, raw, waited, broken>>

Waits ==
    /\ result = Pending
    /\ waited < Timeout
    /\ waited' = waited + 1
    /\ UNCHANGED <<response, sent, closes, raw, result, broken>>

TimesOut ==
    /\ result = Pending
    /\ waited = Timeout
    /\ result' = TimedOut
    /\ UNCHANGED <<response, sent, closes, raw, waited, broken>>

HttpNext ==
    \/ Breaks
    \/ \E n \in 1..ReadSize : Receive(n)
    \/ StreamEnds
    \/ Waits
    \/ TimesOut

HttpSpec == HttpInit /\ [][HttpNext]_httpVars

(* The clock runs and the timer fires; nothing is asked of the issuer.     *)
FairHttpSpec == HttpSpec /\ WF_httpVars(Waits) /\ WF_httpVars(TimesOut)

----------------------------------------------------------------------------
(* What the source makes of it: a document, if the status is 200 and the   *)
(* body is one.  No proper prefix of a JSON object is JSON.                *)
IsDocument(body) == response.json /\ body = Payload(response)
Outcome ==
    CASE result.kind = "none" -> "pending"
      [] result.kind = "ok" ->
            IF response.status = 200 /\ IsDocument(result.body) THEN "found" ELSE "missed"
      [] result.kind \in {"error", "timeout"} -> "missed"

(* However the stream is cut into pieces and wherever it ends, a response  *)
(* has the body that was sent: payload that looks like framing is payload, *)
(* and a body is short only if it is not chunked and the issuer closed     *)
(* before it was out.  (http.rs:129-210, :226-254.)                        *)
BodyIsWhatWasSent ==
    result.kind = "ok" =>
        \/ result.body = Payload(response)
        \/ /\ IsPrefix(result.body, Payload(response))
           /\ ~response.chunked
           /\ closes /\ sent # Wire(response)

(* The client neither gives up a response that is whole nor waits for more *)
(* of it: an error has a cause on the wire, and a response that says where *)
(* it ends is answered as soon as that much of it has come, though the     *)
(* issuer leaves the connection open.  (http.rs:176-201.)                  *)
WellFormed(r) ==
    /\ r.parses
    /\ r.chunked => \A n \in 1..Len(r.chunks) : IsSize(r.chunks[n].size)
SaysItsEnd(r) == r.chunked \/ r.length \in 0..Len(Data(r))
LastByte(r) == IF r.chunked THEN Len(Wire(r)) - Len(CrLf) ELSE Len(Wire(r)) - Len(Data(r)) + r.length

WholeResponsesAreAnswered ==
    /\ result.kind = "error" => broken \/ ~WellFormed(response) \/ (closes /\ sent # Wire(response))
    /\ (result = Pending /\ WellFormed(response) /\ SaysItsEnd(response)) => Len(raw) < LastByte(response)

(* In sum a call finds the whole document or misses, in time.              *)
(* (source.rs:155-178; http.rs:217-219.)                                   *)
Call == INSTANCE UpstreamCall WITH
    Patience <- Timeout, outcome <- Outcome, age <- waited,
    worth <- response.status = 200 /\ response.json
ImplementsCall == Call!CallSpec
=============================================================================
