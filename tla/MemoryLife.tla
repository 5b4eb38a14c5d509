------------------------------ MODULE MemoryLife ------------------------------
(***************************************************************************)
(* What the lifecycle service promises about a memory, without saying how  *)
(* records look.  A memory is born live.  It leaves that phase at most     *)
(* once: closed by its replacement or by its expiry, or doomed by its      *)
(* owner's deletion.  Neither phase is ever left.  Only a memory that is   *)
(* not doomed can be replaced, and the replacement is born in the step     *)
(* that leaves its predecessor closed.                                     *)
(***************************************************************************)
CONSTANT Memories

VARIABLE phase

Phases == {"unborn", "live", "closed", "doomed"}

LifeInit == phase = [m \in Memories |-> "unborn"]

Birth(m) ==
  /\ phase[m] = "unborn"
  /\ phase' = [phase EXCEPT ![m] = "live"]

Retire(m) ==
  /\ phase[m] = "live"
  /\ phase' = [phase EXCEPT ![m] = "closed"]

Doom(m) ==
  /\ phase[m] = "live"
  /\ phase' = [phase EXCEPT ![m] = "doomed"]

Replace(m, n) ==
  /\ phase[m] \in {"live", "closed"}
  /\ phase[n] = "unborn"
  /\ phase' = [phase EXCEPT ![m] = "closed", ![n] = "live"]

LifeNext ==
  \E m \in Memories :
    \/ Birth(m)
    \/ Retire(m)
    \/ Doom(m)
    \/ \E n \in Memories : Replace(m, n)

LifeSpec == LifeInit /\ [][LifeNext]_phase
===============================================================================
