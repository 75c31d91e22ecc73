--------------------------- MODULE MCRequestPipeline ---------------------------
(* A small instance of RequestPipeline for TLC. *)
EXTENDS RequestPipeline

\* One client deposits, and repeats its request once; the others trade, and give up.
MCDepositor == {CHOOSE c \in Client : TRUE}
MCMaxRetries == [c \in Client |-> IF c \in MCDepositor THEN 1 ELSE 0]
===============================================================================
