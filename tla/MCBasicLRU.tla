------------------------------- MODULE MCBasicLRU -------------------------------
(* Basic_LRU with three pages and one address more, which insert_cache needs     *)
(* while it evicts.  Which address new returns makes no difference.              *)
EXTENDS BasicLRU, TLC

Addresses == Permutations(Pages)
=============================================================================
