----------------------------- MODULE AuthorityLog -----------------------------
(***************************************************************************)
(* What the kernel promises about authority: a project is an append-only   *)
(* sequence of canonical changes; a command is issued on the revision its  *)
(* user saw, and takes effect at most once, on that same revision, as the  *)
(* only decision of the review it belongs to.                              *)
(***************************************************************************)
EXTENDS Integers, Sequences

CONSTANTS
    Review,     \* what a command can decide
    Command,    \* authority commands
    None        \* a command that decides no review; the baseline's command

VARIABLES
    changes,    \* the changes applied, each [command, review]; its length is the revision
    issued      \* the revision a command was issued on, 0 before

vars == <<changes, issued>>

Revision == Len(changes)
Decided(r) == \E k \in 1..Len(changes) : changes[k].review = r
Applied(c) == \E k \in 1..Len(changes) : changes[k].command = c

Init ==
    /\ changes = <<[command |-> None, review |-> None]>>
    /\ issued = [c \in Command |-> 0]

Issue(c) ==
    /\ issued[c] = 0
    /\ issued' = [issued EXCEPT ![c] = Revision]
    /\ UNCHANGED changes

\* The user approves a command while the project is what the command was issued on.
Decide(c, r) ==
    /\ issued[c] = Revision
    /\ ~Applied(c) /\ ~Decided(r)
    /\ changes' = Append(changes, [command |-> c, review |-> r])
    /\ UNCHANGED issued

\* A governance command is issued and applied in one call.
Govern(c) ==
    /\ issued[c] = 0
    /\ issued' = [issued EXCEPT ![c] = Revision]
    /\ changes' = Append(changes, [command |-> c, review |-> None])

Next ==
    \/ \E c \in Command : Issue(c) \/ Govern(c)
    \/ \E c \in Command, r \in Review : Decide(c, r)

Spec == Init /\ [][Next]_vars
=============================================================================
