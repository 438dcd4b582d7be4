-------------------------------- MODULE Player --------------------------------
(***************************************************************************)
(* What rh_audio.h promises the one thread that uses a handle, with no     *)
(* pipe, no channels and no I/O thread: play(), loop() and stop() are      *)
(* requests, carried out one after the other in the order they were made;  *)
(* a sample that plays ends by itself at any time; wait() returns when     *)
(* every request has been carried out and the sample does not play.        *)
(***************************************************************************)
EXTENDS Sequences

CONSTANTS Handles, Threads, NULL

VARIABLES
  pending,  \* the requests made on each handle and not carried out yet
  playing,  \* whether the handle's sample plays
  waiting   \* the handle each thread waits for, or NULL

vars == <<pending, playing, waiting>>

Requests == {"play", "loop", "stop"}

Init ==
  /\ pending = [h \in Handles |-> <<>>]
  /\ playing = [h \in Handles |-> FALSE]
  /\ waiting = [t \in Threads |-> NULL]

Request(h, o) ==
  /\ pending' = [pending EXCEPT ![h] = Append(@, o)]
  /\ UNCHANGED <<playing, waiting>>

\* A sample that finds no channel does not start.
Perform(h) ==
  /\ pending[h] # <<>>
  /\ pending' = [pending EXCEPT ![h] = Tail(@)]
  /\ \/ Head(pending[h]) = "stop" /\ playing' = [playing EXCEPT ![h] = FALSE]
     \/ Head(pending[h]) # "stop" /\ playing' \in {playing, [playing EXCEPT ![h] = TRUE]}
  /\ UNCHANGED waiting

End(h) ==
  /\ playing[h]
  /\ playing' = [playing EXCEPT ![h] = FALSE]
  /\ UNCHANGED <<pending, waiting>>

BeginWait(t, h) ==
  /\ waiting[t] = NULL
  /\ waiting' = [waiting EXCEPT ![t] = h]
  /\ UNCHANGED <<pending, playing>>

EndWait(t) ==
  /\ waiting[t] # NULL /\ pending[waiting[t]] = <<>> /\ ~playing[waiting[t]]
  /\ waiting' = [waiting EXCEPT ![t] = NULL]
  /\ UNCHANGED <<pending, playing>>

Next ==
  \/ \E h \in Handles : Perform(h) \/ End(h) \/ \E o \in Requests : Request(h, o)
  \/ \E t \in Threads : EndWait(t) \/ \E h \in Handles : BeginWait(t, h)

Spec == Init /\ [][Next]_vars
=============================================================================
