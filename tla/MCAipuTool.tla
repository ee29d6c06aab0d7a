---------------------------- MODULE MCAipuTool ------------------------------
(***************************************************************************)
(* Small instances of AipuTool for TLC.  Directories and threads are       *)
(* model values; a log line is the list of "Total errors" numbers on it.   *)
(***************************************************************************)
EXTENDS AipuTool

\* One line without the pattern, one reporting 0 errors, one reporting 2,
\* and one on which the regex finds 0 and then 2.
MCLogLines == {<<>>, <<0>>, <<2>>, <<0, 2>>}

MCRetCodes == {0, 1}
=============================================================================
