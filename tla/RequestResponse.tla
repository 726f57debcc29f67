--------------------------- MODULE RequestResponse ---------------------------
(***************************************************************************)
(* What the server promises each connection, without descriptors, select   *)
(* or parsing: it decides on an answer, owes that answer and no other      *)
(* until it has been sent, and closes only when it owes nothing.           *)
(***************************************************************************)
EXTENDS Sequences

CONSTANTS
  Conns,     \* connections
  Answers,   \* what may be answered
  Nothing    \* no answer is owed (not one of Answers)

VARIABLES
  phase,      \* life of each connection
  owed,       \* the answer decided on and not sent
  delivered,  \* the answers sent over each connection
  running     \* the server has not ended

vars == <<phase, owed, delivered, running>>

Init ==
  /\ phase = [c \in Conns |-> "none"]
  /\ owed = [c \in Conns |-> Nothing]
  /\ delivered = [c \in Conns |-> <<>>]
  /\ running = TRUE

Open(c) ==
  /\ running /\ phase[c] = "none"
  /\ phase' = [phase EXCEPT ![c] = "open"]
  /\ UNCHANGED <<owed, delivered, running>>

Decide(c) ==
  /\ running /\ phase[c] = "open"
  /\ phase' = [phase EXCEPT ![c] = "owing"]
  /\ owed'[c] \in Answers
  /\ owed' = [owed EXCEPT ![c] = owed'[c]]
  /\ UNCHANGED <<delivered, running>>

Deliver(c) ==
  /\ running /\ phase[c] = "owing"
  /\ phase' = [phase EXCEPT ![c] = "open"]
  /\ owed' = [owed EXCEPT ![c] = Nothing]
  /\ delivered' = [delivered EXCEPT ![c] = Append(@, owed[c])]
  /\ UNCHANGED running

\* Any number of connections that are owed nothing, at once.
Close(C) ==
  /\ running /\ C # {}
  /\ \A c \in C : phase[c] = "open"
  /\ phase' = [c \in Conns |-> IF c \in C THEN "closed" ELSE phase[c]]
  /\ UNCHANGED <<owed, delivered, running>>

End ==
  /\ running
  /\ running' = FALSE
  /\ UNCHANGED <<phase, owed, delivered>>

Next ==
  \/ \E c \in Conns : Open(c) \/ Decide(c) \/ Deliver(c)
  \/ \E C \in SUBSET Conns : Close(C)
  \/ End

SafeSpec == Init /\ [][Next]_vars

\* What is owed is sent, unless the server ends.
Settle(c) == phase[c] = "owing" /\ (Deliver(c) \/ End)

Spec == SafeSpec /\ \A c \in Conns : WF_vars(Settle(c))
=============================================================================
