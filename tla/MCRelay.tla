------------------------------ MODULE MCRelay ------------------------------
\* All kinds of relay, each with a few chunks either way.
EXTENDS Relay
=============================================================================
