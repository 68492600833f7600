----------------------------- MODULE MCAdcShare -----------------------------
(* Instances of AdcShare for TLC: two of the five flame inputs. *)
EXTENDS AdcShare

MCFlameChannel == [i \in 1 .. 2 |-> IF i = 1 THEN 0 ELSE 15]

\* One input too few for a fire, and just enough.
MCHotSets == {{0}, {0, 15}}
=============================================================================
