-------------------------- MODULE MCSourceProgress --------------------------
EXTENDS SourceProgress
=============================================================================
