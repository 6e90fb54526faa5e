------------------------------ MODULE MCStream ------------------------------
EXTENDS Stream

Chars == {"n", "a", Comma}
NameChars == <<"n">>
\* A plain line, and one with commas of its own: the data has too many fields.
Contents == {<<"a">>, <<"a", Comma, "a", Comma, "a">>}
=============================================================================
