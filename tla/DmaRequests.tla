----------------------------- MODULE DmaRequests -----------------------------
(***************************************************************************)
(* What one engine queue of the ADMA driver promises its clients           *)
(* (spec.md 3 "Queue", 4.2, 5 and 7): requests forwarded to the engine are *)
(* served one at a time in forwarding order; each leaves the driver once,  *)
(* with one outcome; the outcome is "cancelled" only for a request the     *)
(* client cancelled, and a cancelled request still waiting in the queue    *)
(* leaves it without being served.                                         *)
(***************************************************************************)
EXTENDS Naturals, Sequences

CONSTANT Requests

VARIABLES
  queue,      \* forwarded requests not yet served, in forwarding order
  st,         \* "new", "queued", "active" (being served) or "done"
  outcome,    \* the outcome a finished request was completed with
  cancelled   \* the client has cancelled the request

vars == <<queue, st, outcome, cancelled>>

\* The queue without r, the others in their order.
Dequeue(s, r) ==
  LET i == CHOOSE i \in 1..Len(s) : s[i] = r
  IN  [j \in 1..(Len(s) - 1) |-> IF j < i THEN s[j] ELSE s[j + 1]]

Init ==
  /\ queue = <<>>
  /\ st = [r \in Requests |-> "new"]
  /\ outcome = [r \in Requests |-> "none"]
  /\ cancelled = [r \in Requests |-> FALSE]

Submit(r) ==
  /\ st[r] = "new"
  /\ st' = [st EXCEPT ![r] = "queued"]
  /\ queue' = Append(queue, r)
  /\ UNCHANGED <<outcome, cancelled>>

Start ==
  /\ queue # <<>>
  /\ \A q \in Requests : st[q] # "active"
  /\ st' = [st EXCEPT ![Head(queue)] = "active"]
  /\ queue' = Tail(queue)
  /\ UNCHANGED <<outcome, cancelled>>

CancelWaiting(r) ==
  /\ ~cancelled[r] /\ st[r] = "queued"
  /\ cancelled' = [cancelled EXCEPT ![r] = TRUE]
  /\ queue' = Dequeue(queue, r)
  /\ st' = [st EXCEPT ![r] = "done"]
  /\ outcome' = [outcome EXCEPT ![r] = "cancelled"]

CancelActive(r) ==
  /\ ~cancelled[r] /\ st[r] = "active"
  /\ cancelled' = [cancelled EXCEPT ![r] = TRUE]
  /\ UNCHANGED <<queue, st, outcome>>

Finish(r) ==
  /\ st[r] = "active"
  /\ st' = [st EXCEPT ![r] = "done"]
  /\ \E o \in {"success", "failed"} \cup
              (IF cancelled[r] THEN {"cancelled"} ELSE {}) :
       outcome' = [outcome EXCEPT ![r] = o]
  /\ UNCHANGED <<queue, cancelled>>

Next ==
  \/ Start
  \/ \E r \in Requests :
       Submit(r) \/ CancelWaiting(r) \/ CancelActive(r) \/ Finish(r)

Spec == Init /\ [][Next]_vars

=============================================================================
