---------------------------- MODULE DownloadStep ----------------------------
(***************************************************************************)
(* What downloading a list of patches promises to the update routine       *)
(* (rpatchur/src/patcher/core.rs, update_game): one step that hands over    *)
(* every patch of the list, complete and in the order of the indices, or   *)
(* that stops and hands over nothing.                                      *)
(***************************************************************************)
EXTENDS Integers, Sequences

CONSTANTS
  File,     \* file names of patches
  Lists     \* lists to download: sequences of [index, file]

VARIABLES
  list,     \* the list
  outcome,  \* "running", "ok" or "stopped"
  queue,    \* the positions of the list in the order of application
  ready     \* the files that are complete when the queue is handed over

stepVars == <<list, outcome, queue, ready>>

(* The ways to sort the list by index; equal indices come in any order.     *)
Orders ==
  {q \in [DOMAIN list -> DOMAIN list] :
     /\ \A k \in DOMAIN list : \E i \in DOMAIN list : q[i] = k
     /\ \A i, j \in DOMAIN list : i < j => list[q[i]].index <= list[q[j]].index}

Named == {list[i].file : i \in DOMAIN list}

Init == list \in Lists /\ outcome = "running" /\ queue = <<>> /\ ready = {}

HandOver ==
  /\ outcome = "running"
  /\ outcome' = "ok"
  /\ queue' \in Orders
  /\ ready' = Named
  /\ UNCHANGED list

Stop ==
  /\ outcome = "running"
  /\ outcome' = "stopped"
  /\ UNCHANGED <<list, queue, ready>>

Spec == Init /\ [][HandOver \/ Stop]_stepVars
=============================================================================
