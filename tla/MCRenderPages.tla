----------------------------- MODULE MCRenderPages -----------------------------
(* RenderPages for TLC: every text of up to four characters behind a P and every  *)
(* text of up to five parts of a duration, on one passport; every passport of a   *)
(* small set on both routes.  Profiles A and C share the tail of their ids.       *)
EXTENDS RenderPages

MCSlug == [s \in Standard |-> IF s = "B" THEN "b" ELSE "a"]

MCNumbers == {<<"1">>, <<"1", "1">>, <<"1", "1", "1">>}
MCDecimals ==
    MCNumbers \cup {<<"1", ".">>, <<".", "1">>, <<"1", ".", "1">>, <<"1", "1", ".">>, <<".", "1", "1">>}

Upto(n, set) == UNION {[1..m -> set] : m \in 0..n}

MCChars == (Char \ {"0"})
MCParts ==
    {<<"T">>, <<"1", "D">>, <<"1", "H">>, <<"1", "M">>, <<"1", "S">>, <<"1", ".", "1", "S">>}
MCTexts ==
    {<<"P">> \o t : t \in Upto(4, MCChars)} \cup Upto(2, MCChars)
        \cup {<<"P">> \o FlattenSeq(t) : t \in Upto(5, MCParts)}

Bound(s) == [standard |-> s, effective |-> None]
By(attester, lens) == [lens |-> lens, attester |-> attester]
Happens(trust, stamp) == [at |-> "d2", trust |-> trust, stamp |-> stamp]
MCIdentities ==
    {[kind |-> "gs1", key |-> "g", lot |-> None, serial |-> "s"],
     [kind |-> "gs1", key |-> "g", lot |-> "s", serial |-> None],
     [kind |-> "cpid", key |-> "u", lot |-> None, serial |-> None]}

MCCores ==
    [id : {"p"}, product : MCIdentities, from : {"d1"}, created : {"d1"}, typed : {TRUE},
     status : {"issued"}, recalled : {TRUE}, profiles : {[n \in DOMAIN q |-> Bound(q[n])] : q \in Upto(3, Standard)},
     log : Upto(3, {Happens(1, NoStamp), Happens(3, By("x", "A")), Happens(1, By("y", "A"))})]
    \cup [id : {"p"}, product : MCIdentities, from : {"d1"}, created : {"d2"}, typed : {FALSE},
     status : Status, recalled : BOOLEAN, profiles : {<<>>}, log : Upto(1, {Happens(4, By("x", "A"))})]

MCRequest ==
    LET some == CHOOSE c \in MCCores : Len(c.profiles) = 2 /\ Len(c.log) = 2
    IN [route : {"untp"}, param : MCTexts, core : {some}]
         \cup [route : {"untp"}, param : {<<>>}, core : MCCores]
         \cup [route : {"en18222"}, param : {<<>>, <<"full">>, <<"P">>}, core : MCCores]
=============================================================================
