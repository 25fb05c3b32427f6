------------------------------ MODULE SlotPool ------------------------------
(***************************************************************************)
(* What the concurrency gate of a model promises its callers, without the  *)
(* queues, the leases and the clocks that keep the promise: never more     *)
(* than Limit holders; nobody is let in past a waiter on arrival; and      *)
(* while a user waits, every other user is served at most once.            *)
(***************************************************************************)
EXTENDS Naturals, FiniteSets

CONSTANTS Tickets, Users, UserOf, Limit

VARIABLES
    holding,    \* the tickets that hold a slot
    waiting,    \* the tickets that wait for one
    ahead       \* <<u, v>>: u was served since v began to wait or was served

poolVars == <<holding, waiting, ahead>>

WaitingUsers(w) == {UserOf[t] : t \in w}

\* Who has been served ahead of whom, once the users in s were served while w wait.
AheadAfter(w, s) == {p \in ahead \cup (s \X Users) : p[2] \in WaitingUsers(w) \ s}

PoolInit == holding = {} /\ waiting = {} /\ ahead = {}

\* Some callers leave, or are dropped because they gave no sign of life.
Leave(gone) ==
    /\ holding' = holding \ gone
    /\ waiting' = waiting \ gone
    /\ ahead' = AheadAfter(waiting', {})

\* After them a new caller finds a slot free and nobody waiting.
Enter(gone, t) ==
    /\ t \notin (holding \cup waiting) \ gone
    /\ waiting \ gone = {}
    /\ Cardinality(holding \ gone) < Limit
    /\ holding' = (holding \ gone) \cup {t}
    /\ waiting' = {}
    /\ ahead' = {}

\* After them a new caller has to wait.
Join(gone, t) ==
    /\ t \notin (holding \cup waiting) \ gone
    /\ holding' = holding \ gone
    /\ waiting' = (waiting \ gone) \cup {t}
    /\ ahead' = AheadAfter(waiting \ gone, {})

\* After them a waiting caller is served: not if its user has already been
\* served ahead of another user who still waits.
Serve(gone, t) ==
    /\ t \in waiting \ gone
    /\ Cardinality(holding \ gone) < Limit
    /\ holding' = (holding \ gone) \cup {t}
    /\ waiting' = waiting \ (gone \cup {t})
    /\ \A v \in WaitingUsers(waiting \ gone) : <<UserOf[t], v>> \notin ahead
    /\ ahead' = AheadAfter(waiting', {UserOf[t]})

PoolNext ==
    \E gone \in SUBSET (holding \cup waiting) :
        \/ Leave(gone)
        \/ \E t \in Tickets : Enter(gone, t) \/ Join(gone, t) \/ Serve(gone, t)

PoolSpec == PoolInit /\ [][PoolNext]_poolVars
=============================================================================
