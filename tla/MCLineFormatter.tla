--------------------------- MODULE MCLineFormatter ---------------------------
(* Model-checking instance of LineFormatter: one word, a cap of two lines, *)
(* stderr of up to six tokens (up to seven lines), up to three results.    *)
EXTENDS LineFormatter

MCWords == {"w"}
=============================================================================
