---------------------------- MODULE MCSharedMeta ----------------------------
(* Small instances of SharedMeta for TLC. *)
EXTENDS SharedMeta

(* Catalog requests look up one source live and the other inline. *)
OneWriterEach == {<<"live", "tpdb">>, <<"inline", "stashdb">>}
=============================================================================
