------------------------ MODULE MCDistributedSearch ------------------------
(* Two shards, the first with two replicas of which one knows bangs, and   *)
(* four documents each; the best are pages of one site.                    *)
EXTENDS DistributedSearch

MCHashes == 1 .. 13
MCDocs == 1 .. 8
Sites == <<1, 1, 2, 3, 3, 1, 2, 3>>
MCDoc == [d \in MCDocs |-> [score |-> 30 - d, site |-> Sites[d], title |-> 4, url |-> 5 + d]]
MCHome == [d \in MCDocs |-> IF d \in {2, 3, 6, 7} THEN 1 ELSE 2]
MCReplicas == {"a", "b", "c"}
MCShardOf == [r \in MCReplicas |-> IF r = "c" THEN 2 ELSE 1]
MCWithBangs == {"a", "c"}
MCQueries == [kind : {"empty", "blank", "bang", "terms"}, skip : {0, 1}]
MCUnreadable == {{}, {1}, {2, 5}, {3}}
=============================================================================
