----------------------------- MODULE MCIngestStore -----------------------------
(* IngestStore for TLC: one GTIN, one URN and one qualifier make five          *)
(* subjects; the bodies write four of them in different ways and miss in every *)
(* way ingest tells apart.  A text stands for its own digest.                  *)
EXTENDS IngestStore

MCPassportId == Text
MCDigest == [t \in Text |-> t]

T(form, key, lot, serial) == [form |-> form, key |-> key, lot |-> lot, serial |-> serial]
B(shape, mints, ids, from, standards, conformity) ==
    [shape |-> shape, mints |-> mints, ids |-> ids, from |-> from, standards |-> standards,
     conformity |-> conformity]
I(scheme, value) == <<[scheme |-> scheme, value |-> value]>>
C(standard, from) == [standard |-> standard, from |-> from]

MCPosted == {
    B("wrapped", TRUE, I("ref.gs1", T("ai", "g", None, "s")), "d1", <<>>, <<C("A", "d1")>>),
    B("triad", TRUE, I("voc.gs1", T("plus", "g", None, "s")), "d2", <<"A">>, <<>>),
    B("bare", TRUE, I(None, T("bare", "g", None, None)), None, <<>>, <<>>),
    B("bare", TRUE, I("voc.gs1", T("ai", "g", "s", "s")), "d1", <<"B">>, <<C("B", None)>>),
    B("triad", TRUE, I("id.unidpp", T("cpid", "u", None, None)), None, <<"A">>,
      <<C("A", "d2"), C(None, "d1"), C("B", None)>>),
    B("bare", TRUE, I("exotic", T("ai", "g", None, None)), "d1", <<>>, <<C("B", "d2")>>),
    B("bare", TRUE, I("exotic", T("bare", "u", None, None)), "d1", <<>>, <<>>),
    B("bare", TRUE, I("voc.gs1", T("cpid", "u", None, None)), "d1", <<>>, <<>>),
    B("bare", TRUE, I("voc.gs1", NoText), "d1", <<>>, <<>>),
    B("bare", TRUE, <<>>, "d1", <<>>, <<>>),
    B("none", TRUE, I("voc.gs1", T("ai", "g", None, None)), "d1", <<>>, <<>>),
    B("triad", FALSE, I("ref.gs1", T("ai", "g", None, "s")), "d1", <<>>, <<>>)}
=============================================================================
