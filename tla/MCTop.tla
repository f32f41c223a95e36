-------------------------------- MODULE MCTop --------------------------------
(* Instances of Top for TLC: two namespaces, one of which has two pods. *)
EXTENDS Top, TLC

CONSTANTS n1, n2, p1, p2, p3

MCNamespaceOf == p1 :> "functions" @@ p2 :> "functions" @@ p3 :> "metrics"

Flags(all, named, ignored, storage) ==
  [nodes |-> TRUE, pods |-> TRUE, all |-> all, named |-> named, ignored |-> ignored,
   storage |-> storage]

(* The justfile's flags; one namespace, named twice, and no nodes; a namespace that is
   named, with --all-namespaces left at its default; the same, ignored; one ignored;
   nodes only. *)
MCOptions ==
  {Flags(TRUE, <<>>, {}, "sqlite"),
   [Flags(FALSE, <<"functions", "functions">>, {}, "sqlite") EXCEPT !.nodes = FALSE],
   Flags(TRUE, <<"functions">>, {}, "sqlite"),
   Flags(TRUE, <<"functions">>, {"functions"}, "sqlite"),
   Flags(TRUE, <<>>, {"metrics"}, "csv"),
   [Flags(TRUE, <<>>, {}, "csv") EXCEPT !.pods = FALSE]}
=============================================================================
