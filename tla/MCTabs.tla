------------------------------- MODULE MCTabs -------------------------------
\* Small instances of Tabs for TLC.
EXTENDS Tabs

CONSTANTS t1, t2, u1, u2

OneSavedTab == <<[kind |-> "browser", url |-> u1]>>
=============================================================================
