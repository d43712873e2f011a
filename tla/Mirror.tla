------------------------------- MODULE Mirror --------------------------------
(***************************************************************************)
(* What a reconciler promises that keeps one object, the mirror, equal to  *)
(* another, the source: here the ConfigMap and the VillipRules resource.   *)
(*                                                                         *)
(* There is no cache, no resourceVersion, no finalizer, no failed call and *)
(* no restart at this level: the reconciler reads versions of the source,  *)
(* possibly late but never going back, and writes what it has read.        *)
(***************************************************************************)
EXTENDS Naturals

VARIABLES
  source,  \* [exists, uid, version, deleting]; version counts the edits
  read,    \* the version of the source that the reconciler goes by
  mirror,  \* [exists, owner, text]; owner is the uid of a source, 0 for none
  ops      \* how often anybody else has intervened

vars == <<source, read, mirror, ops>>

NoMirror == [exists |-> FALSE, owner |-> 0, text |-> 0]

\* A source was just created.
Init ==
  /\ source = [exists |-> TRUE, uid |-> 1, version |-> 1, deleting |-> FALSE]
  /\ read = 0
  /\ mirror = NoMirror
  /\ ops = 0

\* Users edit, mark or create the source, or tamper with the mirror.
Intervene ==
  /\ ops' = ops + 1
  /\ \/ /\ source'.uid >= source.uid /\ source'.version >= source.version
        /\ UNCHANGED mirror
     \/ UNCHANGED source
  /\ UNCHANGED read

\* The reconciler looks at the source again.
Read ==
  /\ read' \in (read + 1)..source.version
  /\ UNCHANGED <<source, mirror, ops>>

\* It stores what it has read: in the mirror there is, or in a new one that the
\* source owns, and only while there is a source.
Write ==
  /\ source.exists
  /\ mirror' = [exists |-> TRUE, text |-> read,
                owner |-> IF mirror.exists THEN mirror.owner ELSE source.uid]
  /\ UNCHANGED <<source, read, ops>>

\* It lets go of a source that users have marked, and of no other; the source
\* is never changed in any other way but by users.
Release ==
  /\ source.exists /\ source.deleting
  /\ source' = [source EXCEPT !.exists = FALSE, !.deleting = FALSE]
  /\ UNCHANGED <<read, mirror, ops>>

\* The garbage collector removes a mirror that an earlier source owned, or that
\* goes before a source that is being deleted.
Collect ==
  /\ mirror.exists /\ mirror.owner # 0
  /\ source.exists /\ mirror.owner = source.uid => source.deleting
  /\ mirror' = NoMirror
  /\ UNCHANGED <<source, read, ops>>

Next == Intervene \/ Read \/ Write \/ Release \/ Collect

Spec == Init /\ [][Next]_vars
==============================================================================
