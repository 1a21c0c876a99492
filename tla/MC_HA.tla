--------------------------------- MODULE MC_HA ---------------------------------
(* Instances of HA for TLC.                                                    *)
EXTENDS HA

CONSTANTS a, b

\* Two masters, one Icinga DB each.
TwoNodes == [i \in {a, b} |-> i]

\* Two incarnations at the same master, which remove each other's old rows too.
\* Everything that two masters can do is possible here as well.
OneEndpoint == [i \in {a, b} |-> "master"]
===============================================================================
