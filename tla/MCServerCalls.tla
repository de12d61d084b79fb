--------------------------- MODULE MCServerCalls ---------------------------
EXTENDS ServerCalls

\* Header names: one in two spellings and another one.
MCNames == {"a", "A", "b"}
MCLower == [n \in MCNames |-> IF n = "b" THEN "b" ELSE "a"]
=============================================================================
