----------------------------- MODULE MCTelemetry -----------------------------
(* An instance of Telemetry for TLC: variables that start at zero or at the *)
(* value with the longest text, and publications of the longest ones.       *)
EXTENDS Telemetry

Longest == [i |-> INT_MIN, d |-> INT_MIN]
LongestOf ==
  [x \in Shown |->
     CASE x = "g_methane_lel" -> 255 [] x = "Flame" -> 1
       [] x \in Counts \ {"g_methane_lel", "Flame"} -> 65535
       [] x = "g_temperature_c" -> [i |-> -45, d |-> 0]
       [] x = "g_humidity_rh" -> [i |-> 100, d |-> 0]
       [] x = "Displacement" -> [i |-> 1630, d |-> 92]
       [] x = "g_o2_concentration" -> [i |-> -89107, d |-> -20]
       [] OTHER -> Longest]
Zero == [x \in Shown |-> IF x \in Counts THEN 0 ELSE [i |-> 0, d |-> 0]]

MCProfiles == {Zero, LongestOf}
MCSamples ==
  [grp \in Groups \ {"sht30", "o2"} |-> {[k \in DOMAIN Stores[grp] |-> LongestOf[Stores[grp][k]]]}]

\* Air, and an uninitialised raw value.
MCO2Products == {501280, INT_MIN}

\* 0xBEEF, the data sheet's example; just below zero degrees; the largest.
MCMeasurements == {<<48879, 0>>, <<16665, 26214>>, <<65535, 65535>>}

\* Bursts of up to eight bits, and any two bits.
MCDisturbances ==
  UNION {{{b} \cup e : e \in SUBSET ((b + 1) .. (IF b + 7 < 48 THEN b + 7 ELSE 48))} : b \in 1 .. 48}
  \cup {{a, b} : a, b \in 1 .. 48}

ASSUME Detectable
=============================================================================
