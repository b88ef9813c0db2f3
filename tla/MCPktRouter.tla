----------------------------- MODULE MCPktRouter -----------------------------
(* Two keys and two channels: a table whose entries overlap, and one that  *)
(* misses the first key, with waits that a packet can outlast.             *)
EXTENDS PktRouter

MCTables ==
    { << [hits |-> {"a"}, route |-> 1], [hits |-> {"a", "b"}, route |-> 0] >>,
      << [hits |-> {"b"}, route |-> 1], [hits |-> {}, route |-> 0] >> }

=============================================================================
