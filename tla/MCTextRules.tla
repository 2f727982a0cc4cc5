----------------------------- MODULE MCTextRules -----------------------------
EXTENDS TextRules

\* Two categories whose keywords may overlap in a text, one with two of them.
TwoCategories == [rent |-> {<<"a", "b">>}, sale |-> {<<"b", "a">>, <<"b", "b">>}]
=============================================================================
