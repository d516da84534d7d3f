------------------------------- MODULE MCVerdict -------------------------------
(* Verdict for TLC.  Documents vary in two ways, checks and signatures, and   *)
(* two families cover both: every combination of the checks with at most one  *)
(* signature, and every list of up to three signatures on one document.       *)
EXTENDS Verdict

F(s, h, u, q, g) == [seq |-> s, hex |-> h, suite |-> u, key |-> q, genuine |-> g]

Framings == {
    F(0, TRUE, "ed25519", "k1", TRUE),
    F(1, TRUE, "ed25519", "k1", FALSE),
    F(1, TRUE, "ed25519", "k2", TRUE),
    F(0, FALSE, "ed25519", "k1", TRUE),
    F(5, TRUE, "ed25519", "k1", TRUE),
    F(0, TRUE, "ecdsa", "k1", TRUE),
    F(1, TRUE, "sm2", "k1", TRUE),
    F(0, TRUE, "testmac", "k1", TRUE)}

E(s, t) == [seq |-> s, at |-> t]
Logs == {<<>>, <<E(0, 0)>>, <<E(0, 0), E(1, 1)>>}

Lists(S, n) == UNION {[1..m -> S] : m \in 0..n}

Doc(f, t, r, l, ss) == [from |-> f, to |-> t, recall |-> r, events |-> l, signatures |-> ss]

MCDocument ==
    UNION {{Doc(f, t, r, l, ss) : f \in {0, 2}, t \in {NoEnd, 1, 2}, r \in BOOLEAN \ (IF l = <<>> THEN {TRUE} ELSE {}),
                                  ss \in Lists(Framings, 1)} : l \in Logs}
    \cup {Doc(0, NoEnd, FALSE, <<E(0, 0), E(1, 1)>>, ss) : ss \in Lists(Framings, 3)}

MCOptions ==
    {[tainted |-> t, anchors |-> a, minimum |-> m, now |-> 2, required |-> r] :
        t \in BOOLEAN, a \in {{}, {"k1"}}, m \in {Unsigned, ThirdParty},
        r \in {NoRequirement, Malformed, 0, 1, 2}}
=============================================================================
