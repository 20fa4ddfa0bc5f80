---------------------------- MODULE DurableObjects ----------------------------
(***************************************************************************)
(* What the records of the store may rely on from its objects, without     *)
(* files, directories, locks or processes: an object that is referenced is *)
(* available, and stays available.                                         *)
(***************************************************************************)
CONSTANT Object

VARIABLES available,   \* objects whose bytes survive whatever happens
          referenced   \* objects that committed records refer to

durableVars == <<available, referenced>>

Init == available = {} /\ referenced = {}

Publish ==
  /\ available \subseteq available'
  /\ available' \subseteq Object
  /\ UNCHANGED referenced

\* Records refer to what is available by the time they are committed.
Refer ==
  /\ referenced \subseteq referenced'
  /\ available \subseteq available'
  /\ referenced' \subseteq available'
  /\ available' \subseteq Object

Collect ==
  /\ \E o \in Object \ referenced : available' = available \ {o}
  /\ UNCHANGED referenced

Next == Publish \/ Refer \/ Collect

Spec == Init /\ [][Next]_durableVars
=============================================================================
