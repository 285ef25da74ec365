---------------------------- MODULE MCIngestion ----------------------------
(* Programs that use the same route, or the same service by two routes. *)
EXTENDS Ingestion

Pairs == {{"webhook_client", "run_benchmark"}, {"webhook_client", "demo_validation"},
          {"messages_client", "demo_schemaless"}}
=============================================================================
