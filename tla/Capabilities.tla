---------------------------- MODULE Capabilities ----------------------------
(***************************************************************************)
(* What the WASI host promises about rights, with no paths, no walks and   *)
(* no host file system: a guest starts with the directories it was         *)
(* granted, every descriptor it obtains descends from one of them with no  *)
(* more rights than that one passes down, and what a granted directory     *)
(* holds changes only while the guest holds a descriptor of that grant     *)
(* with a right to change it.                                              *)
(***************************************************************************)
EXTENDS Naturals

CONSTANTS Grant,        \* number of the granted directory -> its rights
          Mutating      \* the rights that allow a change

VARIABLES held,         \* descriptor -> the grant it descends from and its rights
          content       \* grant -> what the granted directory holds
vars == <<held, content>>

MayChange(g) == \E fd \in DOMAIN held : held[fd].grant = g /\ (held[fd].base \cup held[fd].inh) \cap Mutating # {}
Changes == \A g \in DOMAIN content : content'[g] # content[g] => MayChange(g)

\* The first descriptors are the grants, with exactly their rights.
Init ==
  /\ \A g \in DOMAIN Grant : \E fd \in DOMAIN held : held[fd].grant = g
  /\ \A fd \in DOMAIN held : held[fd].base = Grant[held[fd].grant] /\ held[fd].inh = Grant[held[fd].grant]

\* A new descriptor, under an unused number.
Derive ==
  /\ \E fd \in DOMAIN held' \ DOMAIN held :
       /\ DOMAIN held' = DOMAIN held \cup {fd}
       /\ \A x \in DOMAIN held : held'[x] = held[x]
       /\ \E d \in DOMAIN held :
            /\ held'[fd].grant = held[d].grant
            /\ held'[fd].base \subseteq held[d].inh
            /\ held'[fd].inh \subseteq held[d].inh
  /\ Changes

\* A descriptor is closed, possibly because another takes its number.
Drop ==
  /\ \E fd \in DOMAIN held : DOMAIN held' = DOMAIN held \ {fd}
  /\ \A x \in DOMAIN held' : held'[x] = held[x]
  /\ UNCHANGED content
Move ==
  /\ \E from \in DOMAIN held, to \in DOMAIN held' :
       /\ DOMAIN held' = (DOMAIN held \ {from}) \cup {to}
       /\ \A x \in DOMAIN held' : held'[x] = IF x = to THEN held[from] ELSE held[x]
  /\ UNCHANGED content

Change == UNCHANGED held /\ Changes

Next == Derive \/ Drop \/ Move \/ Change
Spec == Init /\ [][Next]_vars
=============================================================================
