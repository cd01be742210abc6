------------------------------ MODULE Consent ------------------------------
(***************************************************************************)
(* What a certificate exception of womprat promises (docs/usage.md): "Con- *)
(* sent is bound to the tab, URL and certificate before approval", and one *)
(* click of the user is good for one approval.                             *)
(***************************************************************************)
CONSTANT Offers   \* what can be offered: tab, url, cert and a token of its own

VARIABLES
  offers,      \* the exceptions the user was offered
  clicked,     \* the tokens of the offers the user accepted
  approvals    \* the exceptions given to the browser engine

cvars == <<offers, clicked, approvals>>

Init == offers = {} /\ clicked = {} /\ approvals = {}

\* A certificate error is offered to the user, under a token never used before.
Offer == \E o \in Offers :
  /\ \A p \in offers : p.token # o.token
  /\ offers' = offers \cup {o}
  /\ UNCHANGED <<clicked, approvals>>

\* The user accepts an offer.
Click == \E o \in offers :
  /\ clicked' = clicked \cup {o.token}
  /\ UNCHANGED <<offers, approvals>>

\* An accepted offer, as it was made, is approved once.
Approve == \E o \in offers :
  /\ o.token \in clicked
  /\ \A a \in approvals : a.token # o.token
  /\ approvals' = approvals \cup {o}
  /\ UNCHANGED <<offers, clicked>>

Next == Offer \/ Click \/ Approve

Spec == Init /\ [][Next]_cvars
=============================================================================
