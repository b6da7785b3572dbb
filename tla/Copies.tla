------------------------------- MODULE Copies -------------------------------
(***************************************************************************)
(* What a coherent memory hierarchy promises the cores: the copies of a    *)
(* line that the caches next to the cores hold change only so that a       *)
(* writable copy is the only one.  How permission travels (directories,    *)
(* locks, requests, invalidations, arrays) is left to the specifications   *)
(* that implement this one, MESICC and DoppelgangerLLC.                    *)
(***************************************************************************)
CONSTANTS Cache, Line

VARIABLE copy    \* the MESI state of every line in every cache

Init == copy = [c \in Cache |-> [l \in Line |-> "I"]]

\* Caches give up a line, or their exclusive right to it, at any time.
Demoted(s) == CASE s \in {"E", "M"} -> {s, "S", "I"}
                [] s = "S" -> {"S", "I"}
                [] s = "I" -> {"I"}

\* What cache c may have of a line after a step in which the others keep at
\* most what they had: nothing new; a shared copy if no other is exclusive; an
\* exclusive one, or the right to write one, if there is no other.
Granted(c, l) ==
  Demoted(copy[c][l])
    \cup (IF \A d \in Cache \ {c} : copy'[d][l] \in {"S", "I"} THEN {"S"} ELSE {})
    \cup (IF \A d \in Cache \ {c} : copy'[d][l] = "I" THEN {"E", "M"} ELSE {})

\* A step changes the copies of one line, and one cache at most gains by it.
Change(c, l) ==
  /\ \A d \in Cache, k \in Line \ {l} : copy'[d][k] = copy[d][k]
  /\ \A d \in Cache \ {c} : copy'[d][l] \in Demoted(copy[d][l])
  /\ copy'[c][l] \in Granted(c, l)
  /\ copy' \in [Cache -> [Line -> {"M", "E", "S", "I"}]]

Next == \E c \in Cache, l \in Line : Change(c, l)

Spec == Init /\ [][Next]_copy
=============================================================================
