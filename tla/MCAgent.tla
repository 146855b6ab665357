------------------------------- MODULE MCAgent -------------------------------
(* Small instances of Agent.  The specs: "a" and "b" differ in the unit     *)
(* text, "a" and "c" in the environment; "b" runs from an OCI artifact.     *)
EXTENDS Agent

MCUnitOf == [s \in ProcessSpec |-> IF s = "b" THEN "unit b" ELSE "unit a"]
MCEnvOf == [s \in ProcessSpec |-> IF s = "c" THEN "env c" ELSE "env a"]
MCClass == [s \in ProcessSpec |->
              CASE s = "b" -> "oci" [] s = "bad" -> "invalid" [] s = "foreign" -> "foreign"
                [] OTHER -> "run"]
==============================================================================
