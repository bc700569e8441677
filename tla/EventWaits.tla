------------------------------ MODULE EventWaits ------------------------------
(***************************************************************************)
(* What SetEvent, ResetEvent and WaitForSingleObject promise their callers: *)
(* a signal of an auto-reset event is given to exactly one wait, or kept    *)
(* until a wait takes it; a signal of a manual-reset event ends every wait  *)
(* that is pending; a wait ends once, by a signal or by a timeout; and an   *)
(* event is destroyed only when no wait on it is outstanding.  There are no *)
(* queues, records, handles or scheduling here.                            *)
(***************************************************************************)
CONSTANTS Thread, Event, Nobody

VARIABLES
  kind,     \* "none" (no such event), "auto" or "manual"
  signal,   \* the signaled flag
  status    \* status[t]: "idle", or how the wait of t stands
vars == <<kind, signal, status>>

IdleStatus == [is |-> "idle", on |-> Nobody]
On(e, how) == [is |-> how, on |-> e]

WaitingOn(e) == {t \in Thread : status[t] = On(e, "waiting")}
Outstanding(e) == {t \in Thread : status[t].on = e}

AbstractInit ==
  /\ kind = [e \in Event |-> "none"]
  /\ signal = [e \in Event |-> FALSE]
  /\ status = [t \in Thread |-> IdleStatus]

Create(e, k, s) ==
  /\ kind[e] = "none"
  /\ kind' = [kind EXCEPT ![e] = k]
  /\ signal' = [signal EXCEPT ![e] = s]
  /\ UNCHANGED status

Destroy(e) ==
  /\ kind[e] # "none"
  /\ Outstanding(e) = {}
  /\ kind' = [kind EXCEPT ![e] = "none"]
  /\ signal' = [signal EXCEPT ![e] = FALSE]
  /\ UNCHANGED status

SetManual(e) ==
  /\ kind[e] = "manual"
  /\ signal' = [signal EXCEPT ![e] = TRUE]
  /\ status' = [t \in Thread |->
       IF t \in WaitingOn(e) THEN On(e, "signaled") ELSE status[t]]
  /\ UNCHANGED kind

SetAuto(e) ==
  /\ kind[e] = "auto"
  /\ \/ /\ WaitingOn(e) = {}
        /\ signal' = [signal EXCEPT ![e] = TRUE]
        /\ UNCHANGED status
     \/ \E t \in WaitingOn(e) :
          /\ status' = [status EXCEPT ![t] = On(e, "signaled")]
          /\ UNCHANGED signal
  /\ UNCHANGED kind

Reset(e) ==
  /\ kind[e] # "none"
  /\ signal' = [signal EXCEPT ![e] = FALSE]
  /\ UNCHANGED <<kind, status>>

TakeSignal(e) ==
  /\ signal[e]
  /\ kind[e] = "auto"
  /\ signal' = [signal EXCEPT ![e] = FALSE]
  /\ UNCHANGED <<kind, status>>

BeginWait(t, e) ==
  /\ kind[e] # "none"
  /\ ~signal[e]
  /\ status[t] = IdleStatus
  /\ status' = [status EXCEPT ![t] = On(e, "waiting")]
  /\ UNCHANGED <<kind, signal>>

TimeOut(t) ==
  /\ status[t].is = "waiting"
  /\ status' = [status EXCEPT ![t].is = "timedout"]
  /\ UNCHANGED <<kind, signal>>

EndWait(t) ==
  /\ status[t].is \in {"signaled", "timedout"}
  /\ status' = [status EXCEPT ![t] = IdleStatus]
  /\ UNCHANGED <<kind, signal>>

AbstractNext ==
  \/ \E e \in Event :
       \/ \E k \in {"auto", "manual"}, s \in BOOLEAN : Create(e, k, s)
       \/ Destroy(e)
       \/ SetManual(e)
       \/ SetAuto(e)
       \/ Reset(e)
       \/ TakeSignal(e)
       \/ \E t \in Thread : BeginWait(t, e)
  \/ \E t \in Thread : TimeOut(t) \/ EndWait(t)

AbstractSpec == AbstractInit /\ [][AbstractNext]_vars
=============================================================================
