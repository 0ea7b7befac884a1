------------------------ MODULE CancellationPromise -------------------------
(***************************************************************************)
(* What AgentCancellation promises: a cancellation is closed by its        *)
(* current attempt only, and succeeds only when it has come into effect.   *)
(***************************************************************************)
EXTENDS Naturals

CONSTANTS
    Runs,         \* the runs to cancel, in the order of conversation_dispatch_seq
    Workers,      \* dispatchers, one per process; a restarted one is idle
    MaxAttempts   \* claims of one cancellation

VARIABLES
    cancellation,  \* bff_agent_cancellation_outbox
    worker,        \* the command each dispatcher works on
    agent          \* what the Agent has of each run (external)

Open == {"cancel_requested", "retryable", "leased"}
Closed == {"succeeded", "failed"}

\* The runs whose cancellation the Agent has recorded: it is under way, done, or
\* has failed after all and left the run going; and the runs that are over.
Recorded == {"cancelling", "cancelled", "spared", "ended"}

Idle == [pc |-> "idle"]
Settling(a, o) == [pc |-> "settling", at |-> a, outcome |-> o]

\* Workers whose leases were taken over are told from those that hold them: no
\* two work on the same attempt of a cancellation, and none on an attempt that
\* was not given out.
LeasesApart ==
    \A w \in Workers : worker[w] # Idle =>
        /\ worker[w].at.number <= cancellation[worker[w].at.run].attempts
        /\ \A v \in Workers \ {w} : worker[v] # Idle => worker[v].at # worker[w].at

\* A cancellation is closed by the outcome of its current attempt, or failed when
\* its attempts are spent; and it succeeds only if the Agent has recorded it or its
\* run is over.  No worker whose lease was taken over settles it, and no launch
\* that is still on its way slips past a cancellation that succeeded before it
\* (agent-cancellation-outbox-repository.ts:171-213).
SettlementsAreEarned ==
    /\ []LeasesApart
    /\ [][\A r \in Runs : cancellation[r].status \in Open /\ cancellation'[r].status \in Closed =>
            LET Judged(o) == \E w \in Workers :
                   worker[w] = Settling([run |-> r, number |-> cancellation[r].attempts], o)
            IN  IF cancellation'[r].status = "succeeded"
                THEN Judged("succeeded") /\ agent[r] \in Recorded
                ELSE Judged("failed") \/ cancellation[r].attempts = MaxAttempts]_cancellation

=============================================================================
