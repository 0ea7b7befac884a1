---------------------------- MODULE ClosePromise ----------------------------
(***************************************************************************)
(* What Lifecycle promises of the end of a process: nothing that needs the *)
(* store loses it, and an end that is called clean is.                     *)
(***************************************************************************)
EXTENDS Integers

CONSTANTS
    Dispatchers,  \* number of loops between the projector and the releaser
    Requests      \* BOUND: requests

VARIABLES
    request,  \* the requests
    loop,     \* the worker loops
    store,    \* the pool and the Redis client
    main      \* the process

Projector == 0
Releaser == Dispatchers + 1
Loops == Projector..Releaser

Quiet(w) == ~loop[w].timer /\ loop[w].cycle = "none"

\* The store is not closed under a worker or a request that has a client, in
\* whatever order connections and cycles end (src/bootstrap/runtime.ts:386-387).
StoreClosesLast ==
    store # "open" =>
        /\ \A w \in Loops : Quiet(w)
        /\ \A q \in Requests : request[q] # "served"

Drained ==
    /\ \A w \in Loops : Quiet(w)
    /\ \A q \in Requests : request[q] \in {"none", "cut", "done"}
    /\ store = "closed"

\* Status 0 is earned: nothing was given up and the store was closed; a forced
\* end does not pass for one (docs/CURRENT.md:2016).
HonestExit == main.phase = "exited" /\ main.exit = "clean" => Drained

\* Whatever fails, hangs or ends late, nothing loses the store under its hands, and
\* no end is called clean that is not.
CloseSound == StoreClosesLast /\ HonestExit

=============================================================================
