-------------------------- MODULE SchedulerRefinement --------------------------
(***************************************************************************)
(* The scheduler implements EventWaits.  A manual-reset signal is one step  *)
(* there: while the wake loop runs, the waits it has not reached yet count  *)
(* as signaled already.                                                    *)
(***************************************************************************)
EXTENDS Scheduler

KindOf(e) ==
  IF ~events[e].live THEN "none"
  ELSE IF events[e].manual THEN "manual" ELSE "auto"

BeingWoken(e) == loop.op = "wake" /\ loop.event = e

HowItStands(r) ==
  IF records[r].completion = "TIMEOUT" THEN "timedout"
  ELSE IF records[r].completion = "OBJECT_0" \/ BeingWoken(records[r].event)
    THEN "signaled" ELSE "waiting"

StatusOf(t) ==
  IF threads[t].wait = None THEN [is |-> "idle", on |-> None]
  ELSE [is |-> HowItStands(threads[t].wait), on |-> records[threads[t].wait].event]

Contract == INSTANCE EventWaits WITH
  Thread <- Threads, Event <- Events, Nobody <- None,
  kind <- [e \in Events |-> KindOf(e)],
  signal <- [e \in Events |-> events[e].live /\ events[e].signaled],
  status <- [t \in Threads |-> StatusOf(t)]

\* Every step of the scheduler is a step the contract of events and waits
\* allows, or changes nothing the contract speaks of.
ImplementsEventWaits == Contract!AbstractSpec
=============================================================================
