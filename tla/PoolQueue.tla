----------------------------- MODULE PoolQueue -----------------------------
(***************************************************************************)
(* What the pool buffer promises to its clients, without blocks: a bounded *)
(* FIFO of payloads.  A reader first takes the oldest payload and later    *)
(* either delivers exactly that payload or loses it (the pool detected a   *)
(* memory overrun and threw).  Payloads are thrown away wholesale only     *)
(* when the pool is being destroyed.                                       *)
(***************************************************************************)
EXTENDS Naturals, Sequences

CONSTANTS
  Reader,     \* threads that call read()
  Item,       \* payloads the clients tell apart
  NoItem,     \* "no payload"
  Capacity    \* number of payloads the pool can hold

VARIABLES
  queue,      \* payloads written and not yet taken, oldest first
  reading,    \* payload a reader has taken and not yet delivered
  delivered,  \* payload the last read() of each reader returned
  destroying  \* the destructor has begun

absVars == <<queue, reading, delivered, destroying>>

Init ==
  /\ queue = <<>>
  /\ reading = [r \in Reader |-> NoItem]
  /\ delivered = [r \in Reader |-> NoItem]
  /\ destroying = FALSE

Put(i) ==
  /\ Len(queue) < Capacity
  /\ queue' = Append(queue, i)
  /\ UNCHANGED <<reading, delivered, destroying>>

Take(r) ==
  /\ queue # <<>>
  /\ reading[r] = NoItem
  /\ reading' = [reading EXCEPT ![r] = Head(queue)]
  /\ queue' = Tail(queue)
  /\ UNCHANGED <<delivered, destroying>>

Deliver(r) ==
  /\ reading[r] # NoItem
  /\ delivered' = [delivered EXCEPT ![r] = reading[r]]
  /\ reading' = [reading EXCEPT ![r] = NoItem]
  /\ UNCHANGED <<queue, destroying>>

Lose(r) ==
  /\ reading[r] # NoItem
  /\ reading' = [reading EXCEPT ![r] = NoItem]
  /\ UNCHANGED <<queue, delivered, destroying>>

BeginDestroy ==
  /\ ~destroying
  /\ destroying' = TRUE
  /\ UNCHANGED <<queue, reading, delivered>>

Discard ==
  /\ destroying
  /\ queue' = <<>>
  /\ UNCHANGED <<reading, delivered, destroying>>

Next ==
  \/ \E i \in Item : Put(i)
  \/ \E r \in Reader : Take(r) \/ Deliver(r) \/ Lose(r)
  \/ BeginDestroy
  \/ Discard

Spec == Init /\ [][Next]_absVars
=============================================================================
