---------------------------- MODULE MCMigrations ----------------------------
(* Instances of Migrations: builds that follow one another, builds that differ *)
(* in a file already shipped, and builds of two branches that were merged.     *)
EXTENDS Migrations, TLC

CONSTANTS x, y

FourVersions == {"0001", "0002", "0002b", "0003"}

FourNumbers == ("0001" :> 1) @@ ("0002" :> 2) @@ ("0002b" :> 2) @@ ("0003" :> 3)

First == "0001" :> x
Second == First @@ ("0002" :> x)
Third == Second @@ ("0003" :> x)

\* The second file edited, renamed, and there under two names.
Edited == First @@ ("0002" :> y) @@ ("0003" :> x)
Renamed == First @@ ("0002b" :> x)
Doubled == Second @@ ("0002b" :> x)

AllBuilds == {First, Second, Third, Edited, Renamed, Doubled}

FewBuilds == {Second, Edited, Renamed}

\* 0003 was merged and applied before 0002 was.
Branches == {First @@ ("0003" :> x), Third}

RunnerSymmetry == Permutations(Runners)
=============================================================================
