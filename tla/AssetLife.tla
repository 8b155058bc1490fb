----------------------------- MODULE AssetLife ------------------------------
(***************************************************************************)
(* What the asset store promises about a payload, stated without rows,     *)
(* locks, plans or retries: it is published once, stays readable byte for  *)
(* byte for as long as the asset is served or can be restored, and is      *)
(* erased only after the asset has been condemned for good.                *)
(***************************************************************************)
CONSTANTS Assets, Payloads, Missing

VARIABLES
  life,      \* unborn, reserved, served, retired, condemned or erased
  content    \* the payload promised to readers, or Missing

lifeVars == <<life, content>>

LifeInit ==
  /\ life = [a \in Assets |-> "unborn"]
  /\ content = [a \in Assets |-> Missing]

Move(a, from, to) == life[a] \in from /\ life' = [life EXCEPT ![a] = to]

Born(a) == Move(a, {"unborn"}, "reserved") /\ UNCHANGED content

Publish(a, n) ==
  /\ Move(a, {"reserved"}, "served")
  /\ content' = [content EXCEPT ![a] = n]

\* Out of service, but the payload is kept.
Suspend(a) == Move(a, {"served"}, "retired") /\ UNCHANGED content

Restore(a) == Move(a, {"retired"}, "served") /\ UNCHANGED content

\* The point of no return: from here on nothing is promised.
Condemn(a) ==
  /\ Move(a, {"reserved", "served", "retired"}, "condemned")
  /\ content' = [content EXCEPT ![a] = Missing]

Erase(a) == Move(a, {"condemned"}, "erased") /\ UNCHANGED content

LifeNext ==
  \E a \in Assets :
    \/ Born(a) \/ Suspend(a) \/ Restore(a) \/ Condemn(a) \/ Erase(a)
    \/ \E n \in Payloads : Publish(a, n)

LifeSpec == LifeInit /\ [][LifeNext]_lifeVars
=============================================================================
