------------------------------- MODULE KubeApi -------------------------------
(***************************************************************************)
(* The Kubernetes API server and the informer cache of the manager, as far *)
(* as the two reconcilers of internal/controller use them.  Nothing here   *)
(* is code of this repository: it is the environment that client.Client    *)
(* (the manager's delegating client) gives to the reconcilers.             *)
(*                                                                         *)
(* One object is a LOG: the non-empty sequence of the versions the         *)
(* informer has yet to catch up with.  Its head is what the cache holds,   *)
(* hence what Get and List return; its last element is what the API server *)
(* stores.  A write appends a version and the watch stream delivers        *)
(* versions one by one, in order.                                          *)
(*                                                                         *)
(* resourceVersion is abstracted to what it is used for, namely whether a  *)
(* copy in a reconciler's hands is still the stored version: see the       *)
(* "fresh" variables of the modules that extend this one.  An object that  *)
(* does not exist is a record with exists = FALSE, so that all versions of *)
(* one kind have one shape.                                                *)
(***************************************************************************)
EXTENDS Naturals, SequencesExt

Cached(log) == Head(log)

Live(log) == log[Len(log)]

Synced(log) == Len(log) = 1

\* A write that changes nothing creates no version and no watch event.
Commit(log, obj) == IF obj = Live(log) THEN log ELSE Append(log, obj)

\* What can become of a write the API server accepts or refuses: it answers;
\* the request is lost (nothing stored); or the answer is (stored, but the
\* caller sees an error).  The last two are faults.
Outcomes(log, accepts, new) ==
  {[log |-> log, ok |-> FALSE, fault |-> 1]} \cup
  IF accepts THEN {[log |-> Commit(log, new), ok |-> TRUE, fault |-> 0],
                   [log |-> Commit(log, new), ok |-> FALSE, fault |-> 1]}
             ELSE {[log |-> log, ok |-> FALSE, fault |-> 0]}

\* The next version of the watch stream reaches the cache.
Catchup(log) == Tail(log)

\* A restarted manager lists the objects anew.
Relist(log) == <<Live(log)>>

(***************************************************************************)
(* Finalizers.  Both controllers use the same name for their own; the API  *)
(* server appends foregroundDeletion when the user deletes with            *)
(* --cascade=foreground.  The list is ordered: VillipRules removes         *)
(* finalizers by index.                                                    *)
(***************************************************************************)
Finalizer == "villip.carmier.fr/finalizer"

Foreground == "foregroundDeletion"

Finalizers == {Finalizer, Foreground}

HasFinalizer(o, f) == \E i \in 1..Len(o.fins) : o.fins[i] = f

(***************************************************************************)
(* What garbage collection and deletion do with an object: deletion of an  *)
(* object that has finalizers only marks it, and a marked object is        *)
(* removed when its last finalizer goes.                                   *)
(***************************************************************************)
Marked(o, foreground) ==
  [o EXCEPT !.deleting = TRUE,
            !.fins = IF foreground THEN Append(@, Foreground) ELSE @]

Removable(o) == o.deleting /\ o.fins = <<>>
==============================================================================
