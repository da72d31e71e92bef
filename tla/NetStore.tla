------------------------------ MODULE NetStore ------------------------------
(***************************************************************************)
(* What the table of saved networks promises its users, without slots or   *)
(* shifting: the camera knows at most Capacity networks, each with one     *)
(* password; a network it learns it knows from then on; one that is        *)
(* forgotten is known no more and takes no other with it; a network that   *)
(* has to go is only ever one, and only when there is no room.  What is    *)
(* kept over a restart is what was known before or after a step, never a   *)
(* mixture, and a camera with nothing kept starts with one network or none.*)
(***************************************************************************)
EXTENDS Naturals, FiniteSets

CONSTANTS Names, Keys, Capacity

VARIABLES known,    \* the networks known, each with its key
          kept      \* what a restart finds

vars == <<known, kept>>

Nothing == [n \in {} |-> CHOOSE k \in Keys : TRUE]
Only(f, S) == [n \in DOMAIN f \cap S |-> f[n]]
With(f, n, k) == [m \in DOMAIN f \cup {n} |-> IF m = n THEN k ELSE f[m]]

Init == known = Nothing /\ kept = Nothing

(* A write reaches the store, or it does not.                              *)
Write == kept' = known' \/ kept' = kept

Learn(n, k) ==
  /\ \/ known' = With(known, n, k)
     \/ /\ Cardinality(DOMAIN known) = Capacity /\ n \notin DOMAIN known
        /\ \E old \in DOMAIN known : known' = With(Only(known, Names \ {old}), n, k)
  /\ Cardinality(DOMAIN known') <= Capacity
  /\ Write

Forget(n) == known' = Only(known, Names \ {n}) /\ Write

Off == known' = Nothing /\ UNCHANGED kept

(* A store that cannot be read is started anew with what the settings hold. *)
On ==
  /\ known = Nothing
  /\ \/ known' = kept /\ UNCHANGED kept
     \/ /\ known' \in {Nothing} \cup {With(Nothing, n, k) : n \in Names, k \in Keys}
        /\ Write

Next ==
  \/ \E n \in Names, k \in Keys : Learn(n, k)
  \/ \E n \in Names : Forget(n)
  \/ Off \/ On

Spec == Init /\ [][Next]_vars
=============================================================================
