---------------------------- MODULE ReadingFlow ----------------------------
(***************************************************************************)
(* What the panel promises about its readings, whatever threads, queues    *)
(* and processes lie between a sensor and an outlet: the database, the     *)
(* MQTT topics and the screen each receive, per kind of event, a selection *)
(* of what the sensors have measured, in the order it was measured, each   *)
(* reading at most once and none before it was taken.  Readings may be     *)
(* missing anywhere; outlets do not wait for each other.                   *)
(***************************************************************************)
EXTENDS Naturals, Sequences

CONSTANTS
  Sensors,    \* the sensors that take readings
  Kinds,      \* the kinds of event derived from readings
  SourceOf,   \* the sensor each kind stems from
  Outlets     \* where events end up

VARIABLES
  taken,      \* readings taken, per sensor
  delivered   \* what each outlet has received, per kind, oldest first

vars == <<taken, delivered>>

Init ==
  /\ taken = [s \in Sensors |-> 0]
  /\ delivered = [o \in Outlets |-> [k \in Kinds |-> <<>>]]

Take(s) ==
  /\ taken' = [taken EXCEPT ![s] = @ + 1]
  /\ UNCHANGED delivered

\* Reading n is later than everything in q.
Newer(n, q) == q = <<>> \/ n > q[Len(q)]

\* At most one later reading is appended to a kind's deliveries.
Extends(k, q, qNext) ==
  \/ qNext = q
  \/ \E n \in 1..taken[SourceOf[k]] : Newer(n, q) /\ qNext = Append(q, n)

\* One outlet receives something, of several kinds perhaps (a screen refresh).
Deliver(o) ==
  /\ DOMAIN delivered' = Outlets
  /\ DOMAIN delivered'[o] = Kinds
  /\ \A k \in Kinds : Extends(k, delivered[o][k], delivered'[o][k])
  /\ \A p \in Outlets \ {o} : delivered'[p] = delivered[p]
  /\ UNCHANGED taken

Next ==
  \/ \E s \in Sensors : Take(s)
  \/ \E o \in Outlets : Deliver(o)

Spec == Init /\ [][Next]_vars

============================================================================
