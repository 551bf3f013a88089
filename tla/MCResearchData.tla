------------------------- MODULE MCResearchData -------------------------
EXTENDS ResearchData

\* No candle missing, or one of them.
MCHalts == {{}} \cup {{i} : i \in 0 .. 10}
=============================================================================
