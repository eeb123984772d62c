---------------------------- MODULE MCRemoteSync ----------------------------
(***************************************************************************)
(* A ref is what computeRef hashes: the parents, and the tab that edits.   *)
(***************************************************************************)
EXTENDS RemoteSync, TLC

OneBrowser == ("t1" :> "s1" @@ "t2" :> "s1")
TwoBrowsers == ("t1" :> "s1" @@ "t2" :> "s2")

Scenario(homes, happens) ==
    [homes |-> homes, budget |-> happens @@ [kind \in Bounded |-> 0]]

MCScenarios ==
    { Scenario(TwoBrowsers, ("edits" :> 2 @@ kind :> 1)) :
          kind \in {"breaks", "resets", "shutdowns", "crashes"} }
    \cup { Scenario(OneBrowser, ("edits" :> 2 @@ kind :> 1)) :
          kind \in {"breaks", "resets", "shutdowns", "crashes"} }
    \cup { Scenario(OneBrowser, ("edits" :> 1 @@ "leaders" :> 1)),
           Scenario(OneBrowser, ("leaders" :> 2 @@ "shutdowns" :> 1)) }

OfflineScenario == { Scenario(TwoBrowsers, ("edits" :> 3)) }
LeadersScenario == { Scenario(OneBrowser, ("leaders" :> 1)) }

MCEditRef(parents, t) == [on |-> parents, by |-> t]

MCParentsOf(r) == r.on
=============================================================================
