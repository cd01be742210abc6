--------------------------- MODULE MCCertificate ---------------------------
\* Small instances of Certificate for TLC: two pages of one host, one of them
\* also with a fragment.
EXTENDS Certificate, TLC

CONSTANTS a, aHash, b, h, c1, c2

MCRaws == {a, aHash, b}
MCURLs == {a, b}
MCCertificateURL == (a :> a) @@ (aHash :> a) @@ (b :> b)
MCHostOf == [r \in MCRaws |-> h]
Symmetric == Permutations(Tabs) \cup Permutations({c1, c2})
=============================================================================
