--------------------------- MODULE MCJournalStore ---------------------------
\* Two threads share a store with two keys.
EXTENDS JournalStore

CONSTANTS c1, c2, k1, k2, v1

TwoCallers == {c1, c2}
TwoKeys    == {k1, k2}
OneValue   == {v1}
=============================================================================
