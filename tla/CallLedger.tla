----------------------------- MODULE CallLedger -----------------------------
(***************************************************************************)
(* What the Forum promises about the tool calls of a conversation: a call  *)
(* is closed at most once, by the run that made it while that run is       *)
(* alive, or by the healer once the run is over.  Sessions, markers,       *)
(* snapshots, clocks and instances do not appear here.                     *)
(***************************************************************************)
CONSTANT Calls     \* a run makes one call, which bears its name

VARIABLES
  run,      \* "new", "alive" or "over"
  status    \* "none", "open" or "closed"

Init == /\ run = [c \in Calls |-> "new"]
        /\ status = [c \in Calls |-> "none"]

Begin(c) == /\ run[c] = "new"
            /\ run' = [run EXCEPT ![c] = "alive"]
            /\ UNCHANGED status

Call(c) == /\ run[c] = "alive" /\ status[c] = "none"
           /\ status' = [status EXCEPT ![c] = "open"]
           /\ UNCHANGED run

Answer(c) == /\ run[c] = "alive" /\ status[c] = "open"
             /\ status' = [status EXCEPT ![c] = "closed"]
             /\ UNCHANGED run

End(c) == /\ run[c] = "alive"
          /\ run' = [run EXCEPT ![c] = "over"]
          /\ UNCHANGED status

\* One synthetic event may answer several calls.
Interrupt(cs) == /\ \A c \in cs : run[c] = "over" /\ status[c] = "open"
                 /\ status' = [c \in Calls |-> IF c \in cs THEN "closed" ELSE status[c]]
                 /\ UNCHANGED run

Next == \/ \E c \in Calls : Begin(c) \/ Call(c) \/ Answer(c) \/ End(c)
        \/ \E cs \in SUBSET Calls : Interrupt(cs)

Spec == Init /\ [][Next]_<<run, status>>
=============================================================================
