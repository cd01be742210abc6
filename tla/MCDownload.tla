----------------------------- MODULE MCDownload -----------------------------
(* Download for TLC: all URLs have files of one name, so paths collide.    *)
EXTENDS Download

MCFileName == [u \in URLs |-> CHOOSE n \in Names : TRUE]
=============================================================================
