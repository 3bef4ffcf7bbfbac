----------------------------- MODULE ChapterFence -----------------------------
(***************************************************************************)
(* What the fencing token of a chapter run is good for.  The failure path  *)
(* of advance_step checks the lease in one statement and writes in a later *)
(* one (CallFails, RecordFailure), with nothing locked between them.  A    *)
(* failure written there by an execution that has lost its lease may write *)
(* the retry lease with its own token plus one, below the token of a later *)
(* claim.  A history variable, which no operation reads, says whether that *)
(* has happened.                                                           *)
(***************************************************************************)
EXTENDS ChapterRuns

VARIABLE reopened  \* a failure recorded late has kept the lease

fenceVars == <<vars, reopened>>

RecordsLate(w) == RecordFailure(w) /\ LeaseLost(exec[w])

Reopens == run'.live /\ \E w \in Workers : RecordsLate(w)

FenceNext == Next /\ reopened' = (reopened \/ Reopens)

FenceSpec == Init /\ reopened = FALSE /\ [][FenceNext]_fenceVars

\* Until a failure recorded late has kept the lease, at most one execution would
\* pass the check of its lease, so the outcome of a step is recorded by one: every
\* claim has a token of its own (acquire_run_lease).
OneHolder ==
  reopened \/
  \A w, v \in Workers :
    w # v /\ exec[w] # Idle /\ exec[v] # Idle => LeaseLost(exec[w]) \/ LeaseLost(exec[v])

\* Until then, a step that was done is done again only when REVIEW sends the chapter
\* back, or when a failure of that very step is recorded late: no late answer of an
\* execution that lost its lease undoes it (_stale_reason).
DoneStaysDone ==
  [][\A s \in Steps :
       ~reopened /\ steps[s].state = "SUCCEEDED" /\ steps'[s].state # "SUCCEEDED" =>
         \/ s = "PRODUCE" /\ "REVIEW" \in Steps /\ steps["REVIEW"].state # "SUCCEEDED"
         \/ \E w \in Workers : RecordsLate(w) /\ exec[w].step = s]_fenceVars
===============================================================================
