------------------------------- MODULE MCMMR -------------------------------
EXTENDS MMRSegment
=============================================================================
