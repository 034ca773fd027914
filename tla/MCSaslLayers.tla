---------------------------- MODULE MCSaslLayers ----------------------------
(* Values of the constants of SaslLayers for TLC. *)
EXTENDS SaslLayers

\* An empty frame has 8 bytes, the others a few more.
SmallFrames == [n \in Names |-> IF n \in {"header", "empty"} THEN 8
                                ELSE IF n \in {"mechanisms", "open"} THEN 11 ELSE 9]

TwoMechanisms == <<"EXTERNAL", "PLAIN">>

KnownMechanisms == {{}, {"PLAIN"}, {"other"}}
=============================================================================
