-------------------------- MODULE MC_TraceValidator --------------------------
(***************************************************************************)
(* A small instance of TraceValidator: three events, two of which share a *)
(* fingerprint (an event carrying an error "matches any error of that     *)
(* kind"), the nil event among the inputs and the expected outputs, and   *)
(* one safety property of each kind.                                       *)
(***************************************************************************)
EXTENDS TraceValidator

CONSTANTS a, a2, b

\* ComparableStr(): a and a2 differ only in an embedded error.
MCFp(e) == IF e = b THEN "B" ELSE "A"

\* A stateful checker: it rejects the event that repeats the fingerprint
\* of the event before it.
MCCheckerAccepts(s) == Len(s) < 2 \/ Fp(s[Len(s)]) # Fp(s[Len(s) - 1])

MCEvent == {a, a2, b}

MCTestInputs == {a, Nil}

MCTestOutputs == {a2, b, Nil}

\* ioPropAll is left out: with at most one property per case it gives the
\* verdict of an empty property list.
MCProps == {[kind |-> "direct", ref |-> <<a, b>>],
            [kind |-> "wrapper", ref |-> << >>],
            [kind |-> "wrapDirect", ref |-> <<a, b>>]}
=============================================================================
