------------------------------ MODULE MCReasm ------------------------------
(* Three messages, one longer than a header, one a bare header.            *)
EXTENDS Reasm

MCLens == <<4, 0, 1>>
=============================================================================
