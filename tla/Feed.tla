-------------------------------- MODULE Feed --------------------------------
(***************************************************************************)
(* What a Router promises to the application that reads its status and its *)
(* frame channel, and nothing of how it keeps the promise: no sessions, no *)
(* goroutines, no gates, no callers.                                       *)
(*                                                                         *)
(* A subscription epoch is a pair (generation, revision).  It is asked     *)
(* for, and then opened at most once or refused.  Losing the connection or *)
(* asking again ends the epoch and empties the queue; a frame is queued    *)
(* only in an open epoch and carries its numbers.                          *)
(***************************************************************************)
EXTENDS Integers, Sequences

VARIABLES
  phase,        \* Status().Phase
  generation,   \* Status().Generation
  revision,     \* Status().SubscriptionRevision
  asked,        \* the request of this epoch is not answered yet
  open,         \* the request of this epoch was accepted
  queue         \* the channel that Subscribe returns

feedVars == << phase, generation, revision, asked, open, queue >>

Init ==
  /\ phase = "connecting"
  /\ generation = 0
  /\ revision = 0
  /\ asked = FALSE
  /\ open = FALSE
  /\ queue = << >>

\* Delivery ends and what is queued is dropped.
Shut == open' = FALSE /\ queue' = << >>

Connect ==
  /\ phase \in {"connecting", "reconnecting"}
  /\ phase' = "connected"
  /\ generation' = generation + 1
  /\ UNCHANGED << revision, asked, open, queue >>

Lose ==
  /\ phase = "connected"
  /\ phase' = "reconnecting"
  /\ asked' = FALSE
  /\ Shut
  /\ UNCHANGED << generation, revision >>

Ask ==
  /\ phase = "connected"
  /\ revision' = revision + 1
  /\ asked' = TRUE
  /\ Shut
  /\ UNCHANGED << phase, generation >>

Accept ==
  /\ asked
  /\ asked' = FALSE
  /\ open' = TRUE
  /\ UNCHANGED << phase, generation, revision, queue >>

Refuse ==
  /\ asked
  /\ asked' = FALSE
  /\ UNCHANGED << phase, generation, revision, open, queue >>

Delivered(u) ==
  /\ u.generation = generation
  /\ u.revision = revision
  /\ queue' = Append(queue, u)

Deliver ==
  /\ open
  /\ queue' # << >>
  /\ Delivered(queue'[Len(queue')])
  /\ UNCHANGED << phase, generation, revision, asked, open >>

Take ==
  /\ queue # << >>
  /\ queue' = Tail(queue)
  /\ UNCHANGED << phase, generation, revision, asked, open >>

\* The new connection may be the one whose announcement finds the event buffer
\* full: its generation is then counted although it never becomes usable.
Stop ==
  /\ phase # "stopped"
  /\ phase' = "stopped"
  /\ asked' = FALSE
  /\ Shut
  /\ \/ UNCHANGED generation
     \/ phase \in {"connecting", "reconnecting"} /\ generation' = generation + 1
  /\ UNCHANGED revision

Next ==
  Connect \/ Lose \/ Ask \/ Accept \/ Refuse \/ Deliver \/ Take \/ Stop

Spec == Init /\ [][Next]_feedVars

=============================================================================
