--------------------------- MODULE MCProxyServer ---------------------------
(* Two-label and deeper hosts around one registered domain, in two cases.  *)
EXTENDS ProxyServer

MCLabels == {"*", "", "com", "ex", "EX", "a"}
MCLower == [l \in MCLabels |-> IF l = "EX" THEN "ex" ELSE l]

MCHosts == {<<"ex", "com">>, <<"a", "EX", "com">>, <<"a", "a", "ex", "com">>}
MCLists == {{<<"*", "ex", "com">>},
            {<<"EX", "com">>, <<"*", "a", "ex", "com">>, <<"">>}}

MCRecords == 1..MaxReqs

=============================================================================
