----------------------------- MODULE MCSelector -----------------------------
EXTENDS Selector
=============================================================================
