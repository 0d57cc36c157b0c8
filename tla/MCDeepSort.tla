----------------------------- MODULE MCDeepSort -----------------------------
(* Small instances of DeepSort: the numbers are in the configurations.      *)
EXTENDS DeepSort
=============================================================================
