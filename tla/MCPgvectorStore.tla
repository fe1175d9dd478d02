-------------------------- MODULE MCPgvectorStore --------------------------
(* An instance of PgvectorStore. *)
EXTENDS PgvectorStore
=============================================================================
