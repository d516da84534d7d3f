------------------------------ MODULE MCHttpClient ------------------------------
(* HttpClient for TLC: responses of every framing, with payload that looks like *)
(* framing, sizes with leading zeros and extensions, lengths that are too small *)
(* or too large, and chunk lines that are no size.                              *)
EXTENDS HttpClient

R(parses, status, chunked, length, json, chunks) ==
    [parses |-> parses, status |-> status, chunked |-> chunked, length |-> length,
     json |-> json, chunks |-> chunks]
C(size, extension, data) == [size |-> size, extension |-> extension, data |-> data]

One == C(<<"1">>, <<>>, <<"x">>)
FalseEnd == C(<<"3">>, <<>>, <<"0", "cr", "lf">>)
Extended == C(<<"0", "2">>, <<"semi", "x">>, <<"cr", "lf">>)
NoSize == C(<<"x">>, <<>>, <<"x">>)
Text == C(<<"3">>, <<>>, <<"x", "cr", "x">>)

MCResponse == {
    R(TRUE, 200, TRUE, NoLength, TRUE, <<FalseEnd, One>>),
    R(TRUE, 200, TRUE, NoLength, TRUE, <<Extended, FalseEnd>>),
    R(TRUE, 200, TRUE, 2, TRUE, <<One>>),
    R(TRUE, 404, TRUE, NoLength, TRUE, <<>>),
    R(TRUE, 200, TRUE, NoLength, TRUE, <<One, NoSize>>),
    R(TRUE, 200, FALSE, 3, TRUE, <<Text>>),
    R(TRUE, 200, FALSE, 2, TRUE, <<Text>>),
    R(TRUE, 200, FALSE, 4, FALSE, <<Text>>),
    R(TRUE, 502, FALSE, 0, FALSE, <<Text>>),
    R(TRUE, 200, FALSE, NoLength, TRUE, <<FalseEnd, One>>),
    R(TRUE, 200, FALSE, NoLength, FALSE, <<>>),
    R(FALSE, 0, FALSE, 3, TRUE, <<Text>>)}
=============================================================================
