--------------------------- MODULE MCScanService ---------------------------
(* Sizes around a limit of 2 bytes (1 "MB", shifted by one bit), in signed *)
(* integers of 4 bits: 2 "MB" are 4 bytes, 4 "MB" overflow to -8.          *)
EXTENDS ScanService

MCContents == {"good", "bad"}
MCSize == [c \in MCContents |-> IF c = "bad" THEN 4 ELSE 2]
MCMimeType == [c \in MCContents |->
                 IF c = "good" THEN <<"application/", "zip">>
                 ELSE <<"application/", "x-", "dosexec">>]

Rule(p, prefix, on) == [pattern |-> p, isPrefix |-> prefix, enabled |-> on]

\* An exact rule, a wildcard, and one that is switched off.
MCRules == {Rule(<<"application/", "zip">>, FALSE, TRUE),
            Rule(<<"application/", "x-">>, TRUE, TRUE)}
MCFewRules == {Rule(<<"application/", "zip">>, FALSE, TRUE),
               Rule(<<"application/", "x-">>, TRUE, FALSE)}

MCConfigs ==
  {[enabled |-> TRUE, mb |-> 1, rules |-> MCRules],
   [enabled |-> TRUE, mb |-> 2, rules |-> MCFewRules],
   [enabled |-> TRUE, mb |-> 4, rules |-> MCRules]}

=============================================================================
