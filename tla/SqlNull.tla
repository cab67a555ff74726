------------------------------- MODULE SqlNull -------------------------------
\* SQL's NULL, which the sqlite3 module reads and writes as Python's None.
CONSTANT NoValue
=============================================================================
