----------------------------- MODULE ServingGate -----------------------------
(***************************************************************************)
(* What an environment promises about the data it serves, whatever the     *)
(* steps that lead there: nothing is opened over data that the pipeline    *)
(* has filled in and not hardened, and once something has been opened the  *)
(* pipeline leaves the data alone.  A restore is a person's decision: the  *)
(* copy it brings is as good as hardened to the gate, open or not.         *)
(***************************************************************************)

VARIABLES
  contents,   \* of the database: "raw", "hardened" or a restore's "copy"
  open        \* a workload or an address has been given to the environment

gate == <<contents, open>>

Init ==
  /\ contents = "raw"
  /\ open = FALSE

\* The pipeline fills the database, or works on what is in it.
Fill ==
  /\ ~open
  /\ contents' = "raw"
  /\ UNCHANGED open

Harden ==
  /\ ~open
  /\ contents' = "hardened"
  /\ UNCHANGED open

\* A restore puts a copy in the place of the contents.
Replace ==
  /\ contents' = "copy"
  /\ UNCHANGED open

Open ==
  /\ contents # "raw"
  /\ open' = TRUE
  /\ UNCHANGED contents

Next == Fill \/ Harden \/ Replace \/ Open

Spec == Init /\ [][Next]_gate

==============================================================================
