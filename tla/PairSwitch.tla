------------------------------ MODULE PairSwitch ------------------------------
(***************************************************************************)
(* What replacing a project's database and Brief file promises: the pair   *)
(* is one value.  While the project is settled it can be opened and        *)
(* written; a switch closes it, and ends with the pair it began with or    *)
(* with the one it announced, never with half of each.                     *)
(***************************************************************************)
CONSTANTS
    Pair,           \* complete pairs of a database and its Brief
    Later(_, _)     \* Later(p, q): a commit turns the pair p into q

VARIABLES
    pair,       \* what opening the project finds, or found before the switch
    goal,       \* what the switch will install
    settled     \* may the project be opened?

vars == <<pair, goal, settled>>

Init == pair \in Pair /\ goal = pair /\ settled = TRUE

Commit ==
    /\ settled
    /\ pair' \in Pair /\ Later(pair, pair')
    /\ goal' = pair'
    /\ UNCHANGED settled

Begin(q) ==
    /\ settled
    /\ goal' = q /\ settled' = FALSE
    /\ UNCHANGED pair

End ==
    /\ ~settled
    /\ pair' \in {pair, goal}
    /\ goal' = pair' /\ settled' = TRUE

Next == Commit \/ End \/ \E q \in Pair : Begin(q)

Spec == Init /\ [][Next]_vars
=============================================================================
