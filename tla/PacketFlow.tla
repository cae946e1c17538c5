----------------------------- MODULE PacketFlow -----------------------------
(***************************************************************************)
(* What the pipeline promises a packet, without threads, locks and wakeups:*)
(* it is taken from the queue by one worker, which finishes it or makes a  *)
(* command of it; a command is collected into a batch and applied.  It is  *)
(* thrown away only once the server stops, by a worker in place of making  *)
(* the command, or by the game thread in place of collecting it; what was  *)
(* collected is applied.  No packet goes back, or two ways at once.        *)
(***************************************************************************)
CONSTANTS Packets, Workers

VARIABLES
  stops,     \* stops[p]: the stops packet p is at
  holders,   \* holders[p]: the workers that hold it
  running    \* whether the server runs

vars == <<stops, holders, running>>

Queue    == 1
Commands == 2
Batch    == 3
Applied  == 4
Finished == 5
Dropped  == 6

Init ==
  /\ stops = [p \in Packets |-> {}]
  /\ holders = [p \in Packets |-> {}]
  /\ running = "yes"

Goes(p, here, there) ==
  /\ stops[p] = here /\ holders[p] = {}
  /\ stops' = [stops EXCEPT ![p] = there]
  /\ UNCHANGED <<holders, running>>

Read(p)    == Goes(p, {}, {Queue})
Collect(p) == running = "yes" /\ Goes(p, {Commands}, {Batch})
Discard(p) == running = "no" /\ Goes(p, {Commands}, {Dropped})

Take(p, w) ==
  /\ stops[p] = {Queue} /\ holders[p] = {}
  /\ stops' = [stops EXCEPT ![p] = {}]
  /\ holders' = [holders EXCEPT ![p] = {w}]
  /\ UNCHANGED running

PassOn(p, w, stop) ==
  /\ stops[p] = {} /\ holders[p] = {w}
  /\ stop = Dropped => running = "no"
  /\ stops' = [stops EXCEPT ![p] = {stop}]
  /\ holders' = [holders EXCEPT ![p] = {}]
  /\ UNCHANGED running

(* A batch is applied as a whole.                                            *)
Apply ==
  /\ stops' = [p \in Packets |-> IF stops[p] = {Batch} THEN {Applied} ELSE stops[p]]
  /\ UNCHANGED <<holders, running>>

Stop == running' = "no" /\ UNCHANGED <<stops, holders>>

Next ==
  \/ \E p \in Packets :
       \/ Read(p) \/ Collect(p) \/ Discard(p)
       \/ \E w \in Workers : \/ Take(p, w)
                             \/ \E stop \in {Commands, Finished, Dropped} : PassOn(p, w, stop)
  \/ Apply
  \/ Stop

Spec == Init /\ [][Next]_vars
=============================================================================
