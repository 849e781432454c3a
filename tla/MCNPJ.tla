-------------------------------- MODULE MCNPJ -------------------------------
(***************************************************************************)
(* Small instances of NPJHashTable: HASH is the modulo hash of the source. *)
(***************************************************************************)
EXTENDS NPJProperties

MCHASH(k) == k % num_buckets
=============================================================================
