------------------------------ MODULE MCSHash ------------------------------
EXTENDS SHash

\* Keys that share a main position in every table, keys that are parted when the
\* table grows, and one whose main position lies in the way of chained nodes.
MCHash == <<0, 8, 2, 3, 10>>
=============================================================================
