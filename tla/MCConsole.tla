----------------------------- MODULE MCConsole -----------------------------
(***************************************************************************)
(* A ring of four lines of three columns under a window of two rows: it    *)
(* wraps twice within the bound on lost lines.                             *)
(***************************************************************************)
EXTENDS Console

MCChars == {"x"}
=============================================================================
