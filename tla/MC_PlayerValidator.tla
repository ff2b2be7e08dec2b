------------------------- MODULE MC_PlayerValidator -------------------------
(***************************************************************************)
(* A small instance of PlayerValidator, with the events, fingerprints,    *)
(* checker and properties of MC_TraceValidator.  The actions the player   *)
(* yields are events of the same set: a wrapped action's ComparableStr is *)
(* the action's, and may equal the fingerprint of a test event.           *)
(***************************************************************************)
EXTENDS PlayerValidator

CONSTANTS a, a2, b

\* ComparableStr(): a and a2 differ only in an embedded error.
MCFp(e) == IF e = b THEN "B" ELSE "A"

\* A stateful checker: it rejects the event that repeats the fingerprint
\* of the event before it.
MCCheckerAccepts(s) == Len(s) < 2 \/ Fp(s[Len(s)]) # Fp(s[Len(s) - 1])

MCEvent == {a, a2, b}

MCTestInputs == {a, Nil}

MCTestOutputs == {a2, b, Nil}

\* The wrapper around directMatch is left out: property evaluation is the
\* same code for both adapters, and MC_TraceValidator covers it.
MCProps == {[kind |-> "direct", ref |-> <<a, b>>],
            [kind |-> "wrapper", ref |-> << >>]}
=============================================================================
