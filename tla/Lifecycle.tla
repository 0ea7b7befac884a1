----------------------------- MODULE Lifecycle -----------------------------
(***************************************************************************)
(* The end of a kokoro-bff process.                                        *)
(*                                                                         *)
(* The process serves requests and runs seven worker loops.  On SIGINT or  *)
(* SIGTERM it stops listening, stops the loops, lets requests and cycles   *)
(* under way end, closes its store and leaves with status 0.  After thirty *)
(* seconds it cuts the connections that are left, after thirty-one it      *)
(* exits with status 1, and so it does when a step of the shutdown fails.  *)
(*                                                                         *)
(* A loop is a timer and at most one cycle; a cycle claims work, delivers  *)
(* it and settles it.  Loops are stopped in the order of their numbers:    *)
(* the AG-UI projector, then the dispatchers; the release of project       *)
(* scopes, the last, is told first and awaited last.                       *)
(***************************************************************************)
EXTENDS Integers, ClosePromise

CONSTANTS         \* with those of ClosePromise
    Batch,        \* commands of one cycle
    MaxFaults     \* BOUND: cycles that fail

ASSUME ConstantsAssumption ==
    /\ Dispatchers \in Nat
    /\ Batch \in Nat \ {0}
    /\ MaxFaults \in Nat

VARIABLES     \* with those of ClosePromise
    server,   \* the HTTP server
    stopper,  \* stopWorkers: what it awaits
    closer,   \* composition.close()
    faults    \* faults spent so far

workers == <<loop, stopper>>
vars == <<server, request, loop, stopper, closer, store, main, faults>>

-----------------------------------------------------------------------------
(* Types *)

\* `left` counts the commands the cycle may still take, `stop` is the promise
\* of stop().
Loop == [timer: BOOLEAN,
         cycle: {"none", "claiming", "delivering", "settling"},
         left: 0..Batch,
         stop: {"no", "waiting", "done", "rejected"}]

Unstarted == [timer |-> FALSE, cycle |-> "none", left |-> 0, stop |-> "no"]

TypeOK ==
    /\ server \in {"unbound", "open", "closing", "closed"}
    /\ request \in [Requests -> {"none", "served", "cut", "done"}]
    /\ loop \in [Loops -> Loop]
    /\ stopper \in [state: {"no", "awaiting", "done", "rejected"}, at: Loops]
    /\ closer \in {"no", "waiting", "ending", "done", "rejected"}
    /\ store \in {"open", "ending", "closed"}
    /\ main \in [phase: {"running", "terminating", "leaving", "exited"},
                 exit: {"none", "clean", "failed", "deadline"}]
    /\ faults \in 0..MaxFaults

Init ==
    /\ server = "unbound"
    /\ request = [q \in Requests |-> "none"]
    /\ loop = [w \in Loops |-> Unstarted]
    /\ stopper = [state |-> "no", at |-> Projector]
    /\ closer = "no"
    /\ store = "open"
    /\ main = [phase |-> "running", exit |-> "none"]
    /\ faults = 0

Alive == main.phase # "exited"
Fault == faults < MaxFaults /\ faults' = faults + 1

-----------------------------------------------------------------------------
(* The start, and requests *)

\* Every start() runs a cycle at once; the projector's comes with its timer.
Started(w) ==
    IF w = Projector THEN [Unstarted EXCEPT !.timer = TRUE]
    ELSE [Unstarted EXCEPT !.timer = TRUE, !.cycle = "claiming", !.left = Batch]

Listen ==
    /\ server = "unbound"
    /\ server' = "open"
    /\ loop' = [w \in Loops |-> Started(w)]
    /\ UNCHANGED <<request, stopper, closer, store, main, faults>>

Arrive(q) ==
    /\ Alive /\ server = "open" /\ request[q] = "none"
    /\ request' = [request EXCEPT ![q] = "served"]
    /\ UNCHANGED <<server, workers, closer, store, main, faults>>

\* The handler goes on when its client is gone.
HangUp(q) ==
    /\ Alive /\ request[q] = "served"
    /\ request' = [request EXCEPT ![q] = "cut"]
    /\ UNCHANGED <<server, workers, closer, store, main, faults>>

Finish(q) ==
    /\ Alive /\ request[q] \in {"served", "cut"}
    /\ request' = [request EXCEPT ![q] = "done"]
    /\ UNCHANGED <<server, workers, closer, store, main, faults>>

-----------------------------------------------------------------------------
(* Cycles *)

\* A faulty form: the projector's timer is set again whatever stop() says.
RearmsAlways(w) == w = Projector \/ loop[w].timer

\* The timer of a loop whose cycle has ended: intervals stay what they are, the
\* projector sets its own again while it is running.
Rearms(w) == IF w = Projector THEN loop[w].stop = "no" ELSE loop[w].timer

\* stop() of the projector awaits its cycle as it is, the others whatever
\* becomes of it.
Answered(w, failed) ==
    IF loop[w].stop # "waiting" THEN loop[w].stop
    ELSE IF failed /\ w = Projector THEN "rejected" ELSE "done"

EndCycle(w, failed) ==
    loop' = [loop EXCEPT ![w] = [timer |-> Rearms(w), cycle |-> "none", left |-> 0,
                                 stop |-> Answered(w, failed)]]

OfCycles == UNCHANGED <<server, request, stopper, closer, store, main>>

\* A timer that finds a cycle under way does nothing.
Tick(w) ==
    /\ Alive /\ loop[w].timer /\ loop[w].cycle = "none"
    /\ loop' = [loop EXCEPT ![w].timer = w # Projector, ![w].cycle = "claiming",
                            ![w].left = IF w = Projector THEN 1 ELSE Batch]
    /\ OfCycles /\ UNCHANGED faults

\* The releaser leaves its cycle at the next step once it is stopped.
Leaves(w) == w = Releaser /\ loop[w].stop # "no"

Claim(w) ==
    /\ Alive /\ loop[w].cycle = "claiming"
    /\ \/ ~Leaves(w) /\ loop' = [loop EXCEPT ![w].cycle = "delivering"]
       \/ EndCycle(w, FALSE)
    /\ OfCycles /\ UNCHANGED faults

\* The store throws.
CycleFails(w) ==
    /\ Alive /\ loop[w].cycle = "claiming"
    /\ Fault
    /\ EndCycle(w, TRUE)
    /\ OfCycles

Deliver(w) ==
    /\ Alive /\ loop[w].cycle = "delivering"
    /\ IF Leaves(w) THEN EndCycle(w, FALSE)
                    ELSE loop' = [loop EXCEPT ![w].cycle = "settling"]
    /\ OfCycles /\ UNCHANGED faults

\* A cycle goes on with the next command, stopped or not, but for the releaser's.
Settle(w) ==
    /\ Alive /\ loop[w].cycle = "settling"
    /\ IF Leaves(w) \/ loop[w].left = 1 THEN EndCycle(w, FALSE)
       ELSE loop' = [loop EXCEPT ![w].cycle = "claiming", ![w].left = loop[w].left - 1]
    /\ OfCycles /\ UNCHANGED faults

-----------------------------------------------------------------------------
(* The shutdown *)

Stopped(loops, w) ==
    [loops EXCEPT ![w].timer = FALSE,
                  ![w].stop = IF loops[w].cycle = "none" THEN "done" ELSE "waiting"]

\* The first signal: server.shutdown() begins, deadlines are set.
Signal ==
    /\ main.phase = "running" /\ server = "open"
    /\ main' = [main EXCEPT !.phase = "terminating"]
    /\ server' = "closing"
    /\ stopper' = [state |-> "awaiting", at |-> Projector]
    /\ loop' = Stopped(Stopped(loop, Releaser), Projector)
    /\ UNCHANGED <<request, closer, store, faults>>

\* stopWorkers: the loop it awaits has answered.
StopNext ==
    LET next == stopper.at + 1 IN
    /\ Alive /\ stopper.state = "awaiting"
    /\ \/ /\ loop[stopper.at].stop = "rejected"
          /\ stopper' = [stopper EXCEPT !.state = "rejected"]
          /\ UNCHANGED loop
       \/ /\ loop[stopper.at].stop = "done" /\ stopper.at = Releaser
          /\ stopper' = [stopper EXCEPT !.state = "done"]
          /\ UNCHANGED loop
       \/ /\ loop[stopper.at].stop = "done" /\ stopper.at # Releaser
          /\ stopper' = [stopper EXCEPT !.at = next]
          /\ loop' = IF next = Releaser THEN loop ELSE Stopped(loop, next)
    /\ UNCHANGED <<server, request, closer, store, main, faults>>

\* Thirty seconds: the connections that are left are cut.
GraceEnds ==
    /\ main.phase = "terminating" /\ server = "closing"
    /\ request' = [q \in Requests |-> IF request[q] = "served" THEN "cut" ELSE request[q]]
    /\ UNCHANGED <<server, workers, closer, store, main, faults>>

\* The last connection is gone; the "close" event calls composition.close().
ServerCloses ==
    /\ Alive /\ server = "closing"
    /\ \A q \in Requests : request[q] # "served"
    /\ server' = "closed"
    /\ closer' = "waiting"
    /\ UNCHANGED <<request, workers, store, main, faults>>

\* A faulty form: close() stops the workers and does not wait for them.
WorkersAsked == closer = "waiting"

\* close() awaits stopWorkers.
WorkersDone == closer = "waiting" /\ stopper.state = "done"

CloseStore ==
    /\ Alive /\ WorkersDone
    /\ closer' = "ending"
    /\ store' = "ending"
    /\ UNCHANGED <<server, request, workers, main, faults>>

StoreCloses ==
    /\ Alive /\ store = "ending"
    /\ store' = "closed"
    /\ closer' = "done"
    /\ UNCHANGED <<server, request, workers, main, faults>>

-----------------------------------------------------------------------------
(* The end of the process *)

\* A faulty form: shutdown() settles when the workers have, whatever they say.
ShutdownEndsAlways == server = "closed" /\ (closer = "done" \/ stopper.state = "rejected")

\* The promise of shutdown() resolves.
ShutdownEnds == server = "closed" /\ closer = "done"

Terminated ==
    /\ main.phase = "terminating" /\ ShutdownEnds
    /\ main' = [phase |-> "leaving", exit |-> "clean"]
    /\ UNCHANGED <<server, request, workers, closer, store, faults>>

\* Nothing is left to wait for.
Leave ==
    /\ main.phase = "leaving"
    /\ \A q \in Requests : request[q] \in {"none", "done"}
    /\ \A w \in Loops : loop[w].cycle = "none"
    /\ main' = [main EXCEPT !.phase = "exited"]
    /\ UNCHANGED <<server, request, workers, closer, store, faults>>

\* shutdown() rejects, or close() does with no one to handle it.
ShutdownFails ==
    /\ main.phase = "terminating" /\ stopper.state = "rejected"
    /\ main' = [phase |-> "exited", exit |-> "failed"]
    /\ UNCHANGED <<server, request, workers, closer, store, faults>>

\* A faulty form: the deadline covers the requests only.
DeadlineSetServing == main.phase = "terminating" /\ server # "closed"

DeadlineSet == main.phase = "terminating"

\* Thirty-one seconds.
HardDeadline ==
    /\ DeadlineSet
    /\ main' = [phase |-> "exited", exit |-> "deadline"]
    /\ UNCHANGED <<server, request, workers, closer, store, faults>>

-----------------------------------------------------------------------------
(* Specification *)

Next ==
    \/ Listen \/ Signal \/ StopNext \/ GraceEnds \/ ServerCloses
    \/ CloseStore \/ StoreCloses
    \/ Terminated \/ Leave \/ ShutdownFails \/ HardDeadline
    \/ \E q \in Requests : Arrive(q) \/ HangUp(q) \/ Finish(q)
    \/ \E w \in Loops : Tick(w) \/ Claim(w) \/ CycleFails(w) \/ Deliver(w) \/ Settle(w)

Spec == Init /\ [][Next]_vars

\* Timers fire, and a handler without a client ends, as each of its calls has a
\* timeout.  Cycles are not obliged to end, nor requests that have a client.
Fairness ==
    /\ WF_vars(HardDeadline)
    /\ WF_vars(Leave)
    /\ \A q \in Requests : WF_vars(request[q] = "cut" /\ Finish(q))

FairSpec == Spec /\ Fairness

-----------------------------------------------------------------------------
(* Properties: CloseSound, of ClosePromise, and: *)

\* A signal ends the process, even if a cycle or a client never does.
SignalEnds == (main.phase = "terminating") ~> (main.phase = "exited")

\* docs/RELIABILITY.md:110: the close of the server first stops and drains the
\* projector and the dispatchers, then closes PostgreSQL and Redis.  It is false:
\* a projector cycle that fails while stop() waits for it rejects stopWorkers.
DrainsThenCloses ==
    main.phase = "exited" /\ main.exit # "deadline" => Drained

=============================================================================
