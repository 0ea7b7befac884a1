---------------------------- MODULE MCProjectScope ----------------------------
(* A small instance of ProjectScope for TLC. *)
EXTENDS ProjectScope, TLC

CONSTANTS r1, r2, r3, t1, t2, w1, w2

\* One request deletes a project, one moves a conversation, one may be anything
\* else.
MCKinds == (r1 :> {"deleteProject"}) @@ (r2 :> {"move"})
           @@ (r3 :> Kind \ {"deleteProject"})

\* One conversation and one task in project 1, and room for another of each.
Absent == [status |-> "absent", ref |-> None]
MCInitialConv == {[c \in Convs |-> IF c = 1 THEN [status |-> "active", ref |-> 1, archived |-> FALSE]
                                             ELSE [status |-> "absent", ref |-> None, archived |-> FALSE]]}
MCInitialTask == {[t \in Tasks |-> IF t = t1 THEN [status |-> "active", ref |-> 1] ELSE Absent]}
=============================================================================
