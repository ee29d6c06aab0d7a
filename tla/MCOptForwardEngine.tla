------------------------- MODULE MCOptForwardEngine -------------------------
(***************************************************************************)
(* Small instances of OptForwardEngine for TLC.                            *)
(***************************************************************************)
EXTENDS OptForwardEngine

\* ASCII IR texts with the characters the printer escapes.
MCAsciiTexts == {<<"g", "NL", "\\">>, <<"\\", "n", "x">>}

\* An IR text with a non-ASCII character (a layer named after a model
\* node with a non-ASCII name).
MCNonAsciiTexts == {<<"g", "U+E9">>}
=============================================================================
