-------------------------- MODULE MCConfigWriters ---------------------------
EXTENDS ConfigWriters, TLC

\* One thread of each kind (a "fog" caller is a "para" caller whose edit changes something).
EachRole == "t1" :> "para" @@ "t2" :> "step1" @@ "t3" :> "report"
            @@ "t4" :> "ota" @@ "t5" :> "write" @@ "t6" :> "station"

\* One that holds the mutex through its update and one that takes none.
MixedRole == "t1" :> "para" @@ "t2" :> "station"
=============================================================================
