---------------------------- MODULE MCIndexFile -----------------------------
EXTENDS IndexFile

\* A plain brief, a long one, and one that would be a line of its own about another memory.
SomeDescriptions ==
  {<<"one">>, <<"one", "two", "three">>, <<"one", Break, Dash, "x", Bar, "y", Bar, "m2", Break>>}
=============================================================================
