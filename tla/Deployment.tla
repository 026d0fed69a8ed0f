----------------------------- MODULE Deployment -----------------------------
(***************************************************************************)
(* The validator in its container, updated in place (deploy/validator): a  *)
(* supervisor finds a new image, asks the validator's state directory      *)
(* whether a round is in flight (pre-update.sh, which runs `status` of     *)
(* validator/cli.py in the container), and if not stops the container and  *)
(* starts it again.  The hook is a process of its own: it reads the lock   *)
(* between any two steps of the validator, and the stop comes later.       *)
(***************************************************************************)
EXTENDS ValidatorDaemon

CONSTANT MaxUpdates   \* bounds the images released

ASSUME DeploymentAssumption == MaxUpdates \in Nat

VARIABLES
  update,   \* a new image: none, available, cleared by the hook; the container being
            \* stopped for it, then replaced
  updates   \* images released so far, for the bound

deployVars == <<vars, update, updates>>

DeployTypeOK ==
  /\ TypeOK
  /\ update \in {"none", "available", "cleared", "stopping", "replacing"}
  /\ updates \in 0 .. MaxUpdates

DeployInit ==
  /\ Init
  /\ update = "none"
  /\ updates = 0

Release ==
  /\ update = "none"
  /\ updates < MaxUpdates
  /\ update' = "available"
  /\ updates' = updates + 1
  /\ UNCHANGED vars

\* `status` runs in the container and exits 0: the lock says that no round is in flight.
StatusIsIdle == up /\ ~RoundInFlight

\* The hook exits 0.  Otherwise it exits 1, also when `status` fails, and the update
\* waits for the next look.
HookClears ==
  /\ update = "available"
  /\ StatusIsIdle
  /\ update' = "cleared"
  /\ UNCHANGED <<vars, updates>>

\* The container is stopped, whatever the validator has begun since: first a signal,
\* which it takes where it awaits.
UpdateStops ==
  /\ update = "cleared"
  /\ up
  /\ score # "opened"
  /\ stop' = TRUE
  /\ update' = "stopping"
  /\ UNCHANGED <<world, latest, directive, score, weights, cur, up, ledger, locks, cache,
                 pub, interrupts, updates>>

\* What has not ended ten seconds later is killed, in the middle of an append perhaps.
UpdateKills ==
  /\ update = "stopping"
  /\ up
  /\ Dies
  /\ torn' \in {torn} \cup (IF score = "evaluating" THEN {torn \cup {cur.round}} ELSE {})
  /\ update' = "replacing"
  /\ UNCHANGED <<interrupts, updates>>

\* It ended by itself, before or after the signal.
UpdateFindsItStopped ==
  /\ update \in {"cleared", "stopping"}
  /\ ~up
  /\ update' = "replacing"
  /\ UNCHANGED <<vars, updates>>

\* The new container runs the same command over the same volume.
UpdateStarts ==
  /\ update = "replacing"
  /\ Start
  /\ update' = "none"
  /\ UNCHANGED updates

Updating == UpdateStops \/ UpdateKills \/ UpdateFindsItStopped \/ UpdateStarts

DeployNext ==
  \/ Release \/ HookClears \/ Updating
  \/ /\ Next
     /\ update = "replacing" => ~up'
     /\ UNCHANGED <<update, updates>>

\* The supervisor looks every five minutes and rounds are two hours apart: it finds the
\* gap between two of them, as the weight loop does.
DeployFairness == Fairness /\ SF_deployVars(HookClears) /\ WF_deployVars(Updating)

DeploySpec == DeployInit /\ [][DeployNext]_deployVars /\ DeployFairness

-----------------------------------------------------------------------------
\* No update is cleared while a round is being evaluated, unless the round outlasted its
\* lock's 24 hours: whatever died, was restarted or was refused before, the lock that the
\* hook reads stands for the round that the process evaluates (validator/state.py).
HookClearsNoRound ==
  [][update = "available" /\ update' = "cleared" /\ score = "evaluating" => lockOld]_deployVars

\* An image that is available comes to run: neither a validator killed mid round nor a
\* lock that a live process is taken to hold defers it forever (validator/state.py
\* STALE_AFTER_SECONDS).
UpdatesLand == update = "available" ~> update = "none"
=============================================================================
