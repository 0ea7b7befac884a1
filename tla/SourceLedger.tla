----------------------------- MODULE SourceLedger -----------------------------
(***************************************************************************)
(* What the AG-UI projector promises, without leases, pages or retries.    *)
(*                                                                         *)
(* The Agent writes a log of a session.  The ledger holds a prefix of it,  *)
(* each event once and in order, and grows by whole batches.  One chat run *)
(* at a time is expected; it is closed by the batch that brings its end,   *)
(* or abandoned if the Agent never had it.                                 *)
(***************************************************************************)
EXTENDS Naturals, Sequences

CONSTANTS Runs, NoRun

VARIABLES
    log,       \* the Agent's events of the session
    projected, \* the source sequences in the ledger, in the order of their insertion
    expected   \* the run whose end closes the stream, or NoRun

vars == <<log, projected, expected>>

Event == [run: Runs, kind: {"start", "end", "trailer"}]

Init == log = <<>> /\ projected = <<>> /\ expected = NoRun

Emit == \E e \in Event : log' = Append(log, e) /\ UNCHANGED <<projected, expected>>

Expect == expected = NoRun /\ expected' \in Runs /\ UNCHANGED <<log, projected>>

Abandon ==
    /\ \A i \in DOMAIN log : log[i].run # expected
    /\ expected' = NoRun
    /\ UNCHANGED <<log, projected>>

Ends(run, first, last) == \E i \in first..last : log[i].run = run /\ log[i].kind = "end"

Project ==
    \E n \in (Len(projected) + 1)..Len(log) :
        /\ projected' = [i \in 1..n |-> i]
        /\ expected' = IF Ends(expected, Len(projected) + 1, n) THEN NoRun ELSE expected
        /\ UNCHANGED log

Next == Emit \/ Expect \/ Abandon \/ Project

Spec == Init /\ [][Next]_vars

=============================================================================
