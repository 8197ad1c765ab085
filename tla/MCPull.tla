--------------------------------- MODULE MCPull ---------------------------------
(* Pull for TLC: process 1 pulls the packages a and b, process 2 pulls d;   *)
(* a depends on d and e, b depends on d, and d has the layer l.  The        *)
(* package group of process 1 has room for three of its four packages.      *)
EXTENDS Pull, TLC

\* A task's name is its process and the path from its root; the name of a
\* singleflight key is its process and its item.
MCKids ==
    "1a" :> {"1ad", "1ae"} @@ "1ad" :> {"1adl"} @@ "1b" :> {"1bd"} @@ "1bd" :> {"1bdl"}
    @@ "2d" :> {"2dl"} @@ [t \in {"1adl", "1ae", "1bdl", "2dl"} |-> {}]
MCTasks == DOMAIN MCKids
MCRoots == {"1a", "1b", "2d"}

MCKeyOf ==
    "1a" :> "1:a" @@ "1b" :> "1:b" @@ "1ae" :> "1:e"
    @@ [t \in {"1ad", "1bd"} |-> "1:d"] @@ [t \in {"1adl", "1bdl"} |-> "1:l"]
    @@ "2d" :> "2:d" @@ "2dl" :> "2:l"
MCItem == "1:a" :> "a" @@ "1:b" :> "b" @@ "1:d" :> "d" @@ "1:e" :> "e" @@ "1:l" :> "l"
    @@ "2:d" :> "d" @@ "2:l" :> "l"
MCKeys == DOMAIN MCItem

MCItemOf == [t \in MCTasks |-> MCItem[MCKeyOf[t]]]
MCProcOf == [t \in MCTasks |-> IF t \in {"2d", "2dl"} THEN "p2" ELSE "p1"]
MCGroupOf == [k \in MCKeys |->
    CASE k = "1:l" -> "layers1" [] k = "2:l" -> "layers2"
      [] k = "2:d" -> "packages2" [] OTHER -> "packages1"]
MCMaxEntries ==
    "packages1" :> 3 @@ "packages2" :> 4 @@ "layers1" :> 4 @@ "layers2" :> 4
MCGroups == DOMAIN MCMaxEntries
================================================================================
