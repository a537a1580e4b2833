--------------------------- MODULE MCControlLease ---------------------------
(* Model-checking instances of ControlLease. *)
EXTENDS ControlLease

CONSTANTS w, t

\* A browser and the shared terminal.
BrowserAndTerminal == [c \in {w, t} |-> IF c = t THEN "terminal" ELSE "web"]

\* Messages are sent to the first runtime only, and no acquisition fails with
\* them: together with replacements they make too many states.
SendsOrReplacements ==
    \/ runtime.number <= 1 /\ failures = 0
    \/ sending = NoOp /\ \A a \in asks : a.kind = "acquire"
=============================================================================
