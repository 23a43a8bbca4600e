---------------------------- MODULE MCSessionQueue ----------------------------
EXTENDS SessionQueue

Waits(i, place) == [id |-> i, status |-> "queued", place |-> place]
Paused(i, place) == [id |-> i, status |-> "paused", place |-> place]
MCFound ==
  {<< >>} \cup {<<Waits(d, 1), Waits(r, 0)>>: d \in Locals, r \in Requests}
          \cup {<<Paused(d, 1), Waits(r, 0)>>: d \in Locals, r \in Requests}
=============================================================================
