----------------------------- MODULE MCRenderRoutes -----------------------------
(* RenderRoutes for TLC: one fixture whose subject is also imported, one subject  *)
(* that is only imported and one passport of the issuer.                          *)
EXTENDS MCIngestStore, RenderRoutes

Gs1(key) == [kind |-> "gs1", key |-> key, lot |-> None, serial |-> None]
Cpid(key) == [kind |-> "cpid", key |-> key, lot |-> None, serial |-> None]

MCFixture ==
    {[id |-> T("ai", "g", "s", "s"), product |-> Gs1("g"), from |-> "d1",
      profiles |-> <<[standard |-> "A", effective |-> None]>>,
      stamps |-> <<[standard |-> "A", from |-> "d2"]>>]}

IssuerId == <<"passport", T("ai", "u", "s", "s")>>
MCIssuerKey == {IssuerId}
MCUntpKey ==
    {<<"product", Gs1("g")>>, <<"passport", MCDigest[Display(Cpid("u"))]>>, IssuerId}
MCEnKey == {<<"gtin", "g">>, IssuerId}

MCPostedFew == {
    B("bare", TRUE, I("id.unidpp", T("cpid", "u", None, None)), "d1", <<>>, <<>>),
    B("bare", TRUE, I("ref.gs1", T("ai", "g", None, None)), "d1", <<>>, <<>>)}
=============================================================================
