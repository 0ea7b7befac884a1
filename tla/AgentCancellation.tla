-------------------------- MODULE AgentCancellation --------------------------
(***************************************************************************)
(* The outbox that cancels the runs of a deleted conversation.             *)
(*                                                                         *)
(* Deleting a conversation stores one cancellation for every run whose     *)
(* launch was ever attempted.  Workers of all processes claim them in the  *)
(* order of the runs, ask the Agent to cancel, and settle the row under    *)
(* their lease.                                                            *)
(*                                                                         *)
(* The module begins when the deletion commits.  From then on no dispatch  *)
(* of the conversation is claimed, so at most one launch is still on its   *)
(* way, that of the latest run; the runs before it are over or were never  *)
(* admitted (AgentDispatch: FifoAdmission, FailedNeverAdmitted).           *)
(* Conversations share nothing but the order of claims, so one is enough.  *)
(* A retry's delay is the time that passes before its claim, and a lease's *)
(* token and fence are the number of its attempt.                          *)
(***************************************************************************)
EXTENDS Naturals, CancellationPromise

ASSUME ConstantsAssumption ==
    /\ Runs \subseteq Nat /\ \E r \in Runs : \A s \in Runs : s <= r
    /\ MaxAttempts \in Nat \ {0}

VARIABLES      \* with those of CancellationPromise
    strays,    \* runs with a control request on its way that nobody waits for
    launch     \* runs whose launch is still on its way

vars == <<cancellation, worker, strays, agent, launch>>

Outcomes == {"succeeded", "failed", "retryable"}

LatestRun == CHOOSE r \in Runs : \A s \in Runs : s <= r

Attempt == [run: Runs, number: 1..MaxAttempts]

Claimed(a) == [pc |-> "claimed", at |-> a]
Waiting(a) == [pc |-> "waiting", at |-> a]

\* `lapsed`: lease_until has passed.
Row == [status: Open \cup Closed, attempts: 0..MaxAttempts, lapsed: BOOLEAN]

TypeOK ==
    /\ cancellation \in [Runs -> Row]
    /\ worker \in [Workers -> {Idle} \cup [pc: {"claimed", "waiting"}, at: Attempt]
                                     \cup [pc: {"settling"}, at: Attempt, outcome: Outcomes]]
    /\ strays \subseteq Runs
    /\ agent \in [Runs -> {"unknown", "running"} \cup Recorded]
    /\ launch \subseteq Runs

\* What the deletion leaves behind.
Init ==
    /\ cancellation =
          [r \in Runs |-> [status |-> "cancel_requested", attempts |-> 0, lapsed |-> FALSE]]
    /\ worker = [w \in Workers |-> Idle]
    /\ strays = {}
    /\ agent \in [Runs -> {"unknown", "running", "ended"}]
    /\ \A r \in Runs \ {LatestRun} : agent[r] # "running"
    /\ launch \in SUBSET {r \in {LatestRun} : agent[r] = "unknown"}

-----------------------------------------------------------------------------
(* Claims: one transaction fails an exhausted head, then leases a head *)

IsHead(rows, r) ==
    /\ rows[r].status \in Open
    /\ \A s \in Runs : s < r => rows[s].status \in Closed

IsDue(rows, r) ==
    /\ IsHead(rows, r)
    /\ rows[r].status = "leased" => rows[r].lapsed

\* Mutant: a lease that lapsed on the last attempt is not looked for.
ExhaustedUnleased ==
    {r \in Runs : /\ IsDue(cancellation, r) /\ cancellation[r].status # "leased"
                  /\ cancellation[r].attempts >= MaxAttempts}

Exhausted == {r \in Runs : IsDue(cancellation, r) /\ cancellation[r].attempts >= MaxAttempts}

Swept ==
    [r \in Runs |-> IF r \in Exhausted
                 THEN [cancellation[r] EXCEPT !.status = "failed", !.lapsed = FALSE]
                 ELSE cancellation[r]]

Candidates(rows) == {r \in Runs : IsDue(rows, r) /\ rows[r].attempts < MaxAttempts}

\* Mutant: taking over a lapsed lease is not another attempt.
LeasedUncounted(rows, r) ==
    [rows EXCEPT ![r] = [status |-> "leased", lapsed |-> FALSE,
        attempts |-> IF @.status = "leased" THEN @.attempts ELSE @.attempts + 1]]

Leased(rows, r) ==
    [rows EXCEPT ![r] = [status |-> "leased", lapsed |-> FALSE, attempts |-> @.attempts + 1]]

Claim(w) ==
    /\ worker[w] = Idle
    /\ \/ \E r \in Candidates(Swept) :
            /\ cancellation' = Leased(Swept, r)
            /\ worker' = [worker EXCEPT ![w] =
                             Claimed([run |-> r, number |-> cancellation'[r].attempts])]
       \/ /\ Candidates(Swept) = {}
          /\ Exhausted # {}
          /\ cancellation' = Swept
          /\ UNCHANGED worker
    /\ UNCHANGED <<strays, agent, launch>>

\* The database clock passes lease_until.
Lapse(r) ==
    /\ cancellation[r].status = "leased" /\ ~cancellation[r].lapsed
    /\ cancellation' = [cancellation EXCEPT ![r].lapsed = TRUE]
    /\ UNCHANGED <<worker, strays, agent, launch>>

-----------------------------------------------------------------------------
(* Delivery *)

\* What remains of a request whose worker no longer waits: it may still arrive.
StraysWithout(w) == IF worker[w].pc = "waiting" THEN strays \cup {worker[w].at.run} ELSE strays

Send(w) ==
    /\ worker[w].pc = "claimed"
    /\ worker' = [worker EXCEPT ![w] = Waiting(worker[w].at)]
    /\ UNCHANGED <<cancellation, strays, agent, launch>>

\* Nothing is sent, because no budget is left of the lease or no Agent is
\* configured; or no answer comes in time.
GiveUp(w) ==
    /\ worker[w].pc \in {"claimed", "waiting"}
    /\ worker' = [worker EXCEPT ![w] = Settling(worker[w].at, "retryable")]
    /\ strays' = StraysWithout(w)
    /\ UNCHANGED <<cancellation, agent, launch>>

\* Mutant: a run the Agent does not know counts as cancelled.
OutcomesOfAny(state) == Outcomes

\* What the classification makes of the Agent's answers.  Any request may be
\* refused, or meet an overloaded Agent; a receipt that cannot be read fails a
\* cancellation that was obeyed; a run the Agent does not know is not found.  The
\* receipt of a command that is still pending is a success like any other.
OutcomesOf(state) ==
    IF state \in {"unknown", "spared"} THEN Outcomes \ {"succeeded"} ELSE Outcomes

\* The Agent records the cancellation of a run that goes on.
Record(r) ==
    /\ agent[r] = "running"
    /\ \E s \in {"cancelling", "cancelled"} : agent' = [agent EXCEPT ![r] = s]

Answer(w) ==
    /\ worker[w].pc = "waiting"
    /\ LET r == worker[w].at.run IN
        \E o \in OutcomesOf(agent[r]) :
            /\ worker' = [worker EXCEPT ![w] = Settling(worker[w].at, o)]
            /\ \/ Record(r)
               \/ /\ agent[r] = "running" => o # "succeeded"
                  /\ UNCHANGED agent
    /\ UNCHANGED <<cancellation, strays, launch>>

\* A request arrives that nobody waits for.  (If it has no effect that is no step.)
StrayArrives(r) ==
    /\ r \in strays
    /\ Record(r)
    /\ UNCHANGED <<cancellation, worker, strays, launch>>

-----------------------------------------------------------------------------
(* Settlement, under the lease *)

\* Mutant: any live lease will do.
HoldsAnyLease(w) ==
    /\ cancellation[worker[w].at.run].status = "leased"
    /\ ~cancellation[worker[w].at.run].lapsed

HoldsLease(w) ==
    /\ cancellation[worker[w].at.run].status = "leased"
    /\ cancellation[worker[w].at.run].attempts = worker[w].at.number
    /\ ~cancellation[worker[w].at.run].lapsed

\* The three settlements: succeeded; failed, by the answer or the budget; retryable.
Settled(w) ==
    CASE worker[w].outcome = "succeeded" -> "succeeded"
      [] worker[w].outcome = "retryable" /\ worker[w].at.number < MaxAttempts -> "retryable"
      [] OTHER -> "failed"

Settle(w) ==
    /\ worker[w].pc = "settling"
    /\ cancellation' = IF HoldsLease(w)
                       THEN [cancellation EXCEPT ![worker[w].at.run].status = Settled(w)]
                       ELSE cancellation
    /\ worker' = [worker EXCEPT ![w] = Idle]
    /\ UNCHANGED <<strays, agent, launch>>

\* The process dies, or the settlement's statement fails: the lease is left.
Abandon(w) ==
    /\ worker[w] # Idle
    /\ worker' = [worker EXCEPT ![w] = Idle]
    /\ strays' = StraysWithout(w)
    /\ UNCHANGED <<cancellation, agent, launch>>

-----------------------------------------------------------------------------
(* The Agent *)

\* The last launch is admitted, or is refused or lost.
LaunchArrives(r) ==
    /\ r \in launch
    /\ launch' = launch \ {r}
    /\ agent' \in {agent, [agent EXCEPT ![r] = "running"]}
    /\ UNCHANGED <<cancellation, worker, strays>>

\* A run ends by itself, or the Agent carries a recorded cancellation out, or fails to.
RunMoves(r) ==
    /\ \E s \in (CASE agent[r] \in {"running", "spared"} -> {"ended"}
                 [] agent[r] = "cancelling" -> {"ended", "cancelled", "spared"}
                 [] OTHER -> {}) :
        agent' = [agent EXCEPT ![r] = s]
    /\ UNCHANGED <<cancellation, worker, strays, launch>>

-----------------------------------------------------------------------------

Next ==
    \/ \E w \in Workers :
        Claim(w) \/ Send(w) \/ Answer(w) \/ GiveUp(w) \/ Settle(w) \/ Abandon(w)
    \/ \E r \in Runs : Lapse(r) \/ StrayArrives(r) \/ LaunchArrives(r) \/ RunMoves(r)

\* A dispatcher polls, sends or gives up, and settles; the clock advances.
\* Nothing is assumed of the Agent, the network, or a process's staying alive.
Fairness ==
    /\ \A w \in Workers :
        WF_vars(Claim(w)) /\ WF_vars(Send(w)) /\ WF_vars(GiveUp(w)) /\ WF_vars(Settle(w))
    /\ \A r \in Runs : WF_vars(Lapse(r))

Spec == Init /\ [][Next]_vars
FairSpec == Spec /\ Fairness

-----------------------------------------------------------------------------
(* Properties: SettlementsAreEarned, of CancellationPromise, and: *)

\* Every cancellation is closed in the end, and stays so, whatever the Agent
\* answers, however often a worker dies with it or loses its lease on the last
\* attempt, and though it waits for those of the runs before it.
EveryCancellationCloses == \A r \in Runs : <>[](cancellation[r].status \in Closed)

=============================================================================
