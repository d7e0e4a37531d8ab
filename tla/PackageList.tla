---------------------------- MODULE PackageList ----------------------------
(***************************************************************************)
(* What the package manager promises, without pointers, locks or memory.   *)
(*                                                                         *)
(* ADDPACKAGE puts a package behind all others; REMPACKAGE removes the     *)
(* oldest package whose identifier begins with what the user typed, and    *)
(* no other; at shutdown all are gone.                                     *)
(***************************************************************************)
EXTENDS Naturals

CONSTANTS Entries,   \* positions a package may take, in the order of arrival
          Labels,    \* what an entry may hold
          Typed      \* identifiers a user may type: each is given as the set
                     \* of labels that begin with it

VARIABLES managed,   \* entries in the list
          label,     \* entry -> what it holds
          newest     \* the last entry made

listVars == <<managed, label, newest>>

ListInit ==
    /\ managed = {}
    /\ label \in [Entries -> Labels]
    /\ newest = 0

Append(l) ==
    /\ newest + 1 \in Entries
    /\ newest' = newest + 1
    /\ managed' = managed \cup {newest + 1}
    /\ label' = [label EXCEPT ![newest + 1] = l]

RemoveOldest(t) ==
    /\ \E n \in managed :
        /\ label[n] \in t
        /\ \A m \in managed : m < n => label[m] \notin t
        /\ managed' = managed \ {n}
    /\ UNCHANGED <<label, newest>>

RemoveAll ==
    /\ managed' = {}
    /\ UNCHANGED <<label, newest>>

ListNext ==
    \/ \E l \in Labels : Append(l)
    \/ \E t \in Typed : RemoveOldest(t)
    \/ RemoveAll

ListSpec == ListInit /\ [][ListNext]_listVars
=============================================================================
