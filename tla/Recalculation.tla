---------------------------- MODULE Recalculation ----------------------------
(***************************************************************************)
(* What a recomputation queue promises to the rest of the application,     *)
(* whatever its implementation: the input of a row changes together with   *)
(* the request to recompute it, and a request disappears only when the     *)
(* stored result was computed from the current input (or the row is gone). *)
(*                                                                         *)
(* RecomputeQueue.tla, the model of infrastructure/db/queues.py and of the *)
(* tasks that consume it, is shown to implement this specification.        *)
(***************************************************************************)
EXTENDS Naturals

CONSTANT Ids            \* identifiers of the rows of one table

VARIABLES
    version,            \* version[i]: number of committed writes of the input of row i, 0 before its creation
    gone,               \* rows deleted for good (identifiers come from a sequence and are not reused)
    derived,            \* derived[i]: version of the input from which the stored result of i was computed
    pending             \* rows whose recomputation is requested

vars == <<version, gone, derived, pending>>

(* Types: versions are counted, a request is a row.                       *)
TypeOK ==
    /\ version \in [Ids -> Nat]
    /\ gone \in SUBSET Ids
    /\ derived \in [Ids -> Nat]
    /\ pending \in SUBSET Ids

Init ==
    /\ version = [i \in Ids |-> 0]
    /\ gone = {}
    /\ derived = [i \in Ids |-> 0]
    /\ pending = {}

(* A transaction commits new inputs for the rows of S, and their requests. *)
Change(S) ==
    /\ S # {}
    /\ S \cap gone = {}
    /\ version' = [i \in Ids |-> IF i \in S THEN version[i] + 1 ELSE version[i]]
    /\ pending' = pending \cup S
    /\ UNCHANGED <<gone, derived>>

Drop(i) ==
    /\ i \notin gone
    /\ gone' = gone \cup {i}
    /\ UNCHANGED <<version, derived, pending>>

(* The task commits results for some requested rows and withdraws some     *)
(* requests. A result may already be out of date when it is committed: its *)
(* request then stays.                                                     *)
Recompute ==
    /\ derived' \in [Ids -> Nat]
    /\ \A i \in Ids :
          /\ derived[i] <= derived'[i]
          /\ derived'[i] # derived[i] => i \in pending
    /\ pending' \in SUBSET pending
    /\ \A i \in pending \ pending' : i \in gone \/ derived'[i] = version[i]
    /\ UNCHANGED <<version, gone>>

Next ==
    \/ \E S \in SUBSET Ids : Change(S)
    \/ \E i \in Ids : Drop(i)
    \/ Recompute

Spec == Init /\ [][Next]_vars
==============================================================================
