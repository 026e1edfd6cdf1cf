---------------------------- MODULE MCExecution ----------------------------
(* Four calls: two that prove or build on one sink, the first awaiting its  *)
(* transaction, one on the sink of another signer, and a check.             *)
EXTENDS Execution

MCPath == [c \in Calls |-> CASE c = "a" -> "prove" [] c = "b" -> "fast"
                             [] c = "c" -> "local" [] OTHER -> "check"]
MCAwaits == [c \in Calls |-> c = "a"]
MCSink == [c \in Calls |-> IF c \in {"a", "b"} THEN "s1" ELSE "s2"]

=============================================================================
