---------------------------- MODULE MCHdmiConfig -----------------------------
(* A table of three entries: one that is first, one in between, one last.    *)
EXTENDS HdmiConfig
=============================================================================
