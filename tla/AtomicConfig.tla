---------------------------- MODULE AtomicConfig ----------------------------
(***************************************************************************)
(* What the MiCO parameter storage promises its callers: a cell that holds *)
(* the system configuration.  The program works on a copy in RAM, a commit *)
(* replaces the stored configuration by that copy in one step, power can   *)
(* go at any moment, and the next start works on what is stored.           *)
(***************************************************************************)
CONSTANTS Config,   \* the configurations the program can work on
          NoConfig  \* nothing stored, or no copy in RAM

VARIABLES stored,   \* what the next start will find
          working   \* the copy in RAM, NoConfig while the power is off

vars == <<stored, working>>

Init == /\ stored \in Config \cup {NoConfig}
        /\ working = NoConfig

\* A start works on the stored configuration, or on a fresh one if there is none.
Load == /\ working = NoConfig
        /\ IF stored = NoConfig THEN working' \in Config ELSE working' = stored
        /\ UNCHANGED stored

Edit == /\ working # NoConfig
        /\ working' \in Config
        /\ UNCHANGED stored

Commit == /\ working # NoConfig
          /\ stored' = working
          /\ UNCHANGED working

PowerCut == /\ working' = NoConfig
            /\ UNCHANGED stored

Next == Load \/ Edit \/ Commit \/ PowerCut

Spec == Init /\ [][Next]_vars
=============================================================================
