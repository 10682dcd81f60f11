--------------------------- MODULE MCLatencyTrace ---------------------------
\* The latency trace with limits some captures of the model meet and some do not.
EXTENDS LatencyTrace

Limits == [p50 |-> 3, p95 |-> 4, max |-> 4]
=============================================================================
