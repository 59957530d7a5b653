---------------------------- MODULE EventSchedule ----------------------------
(***************************************************************************)
(* What the timed-event service of LuminariMUD promises its users, with no *)
(* buckets, list nodes or event structs: a set of events, each with the    *)
(* pulse it is due at.  An event runs in the pulse it is due, never in     *)
(* another one; the clock does not move past a due event; one callback     *)
(* runs at a time; a callback may ask to be run again later.               *)
(***************************************************************************)
EXTENDS Integers

CONSTANTS
  Events,    \* identities of the events
  NoEvent,   \* "no event is executing"
  Times      \* the pulses an event can be due at

VARIABLES
  now,       \* the current pulse
  due,       \* the events waiting for their time, each with its due pulse
  executing  \* the event whose callback is on the stack, or NoEvent

vars == <<now, due, executing>>

Waiting == DOMAIN due

\* due with the event e waiting for pulse t.
With(e, t) == [x \in Waiting \cup {e} |-> IF x = e THEN t ELSE due[x]]

\* due without the event e.
Without(e) == [x \in Waiting \ {e} |-> due[x]]

Init ==
  /\ now = 0
  /\ due = [x \in {} |-> 0]
  /\ executing = NoEvent

\* An event that is neither waiting nor executing is scheduled in the future.
Schedule(e) ==
  /\ e \notin Waiting
  /\ e # executing
  /\ \E t \in Times : t > now /\ due' = With(e, t)
  /\ UNCHANGED <<now, executing>>

\* A waiting event is cancelled.
Cancel(e) ==
  /\ e \in Waiting
  /\ due' = Without(e)
  /\ UNCHANGED <<now, executing>>

\* Every waiting event is dropped; never while a callback runs.
CancelAll ==
  /\ executing = NoEvent
  /\ due' = [x \in {} |-> 0]
  /\ UNCHANGED <<now, executing>>

\* An event whose time is exactly now starts to execute.
Fire(e) ==
  /\ executing = NoEvent
  /\ e \in Waiting
  /\ due[e] = now
  /\ due' = Without(e)
  /\ executing' = e
  /\ UNCHANGED now

\* The callback returns: the event is over, or waits for a later pulse.
Finish(e) ==
  /\ executing = e
  /\ e \in Events
  /\ \/ UNCHANGED due
     \/ \E t \in Times : t > now /\ due' = With(e, t)
  /\ executing' = NoEvent
  /\ UNCHANGED now

\* Time moves by one pulse, and only once nothing is due any more.
Advance ==
  /\ executing = NoEvent
  /\ \A e \in Waiting : due[e] > now
  /\ now' = now + 1
  /\ UNCHANGED <<due, executing>>

Next ==
  \/ \E e \in Events : Schedule(e) \/ Cancel(e) \/ Fire(e) \/ Finish(e)
  \/ CancelAll
  \/ Advance

Spec == Init /\ [][Next]_vars

==============================================================================
