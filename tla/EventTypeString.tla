-------------------------- MODULE EventTypeString --------------------------
(***************************************************************************)
(* The stringer output of src/agreement/eventtype_string.go.  The names of *)
(* all event types are one string constant, `_eventType_name`; the table  *)
(* `_eventType_index` holds the offset where each name starts.             *)
(* `eventType.String` returns the slice between two offsets, or           *)
(* "eventType(<decimal>)" for a value outside the table.  The function    *)
(* `_()` makes the build fail when the constants no longer have the       *)
(* values the tables were generated for; `EventTypeValue` is that         *)
(* numbering.                                                              *)
(*                                                                         *)
(* A call of `String` is one step: its argument is drawn from a bounded   *)
(* range of integers and its result is kept.  A Go run-time panic (an     *)
(* index or a slice out of range) is a result of its own.                 *)
(***************************************************************************)
EXTENDS Integers, Sequences

CONSTANT ProbeBound  \* String is called on every value from -ProbeBound to ProbeBound

ASSUME ProbeAssumption == ProbeBound \in Nat

VARIABLES
  i,    \* the argument of the last call
  out   \* its result: Returned(s) or Panicked

vars == <<i, out>>

Probes == -ProbeBound..ProbeBound

-----------------------------------------------------------------------------
(* The numbering asserted by `_()`: `_ = x[name-N]` compiles only when     *)
(* the constant `name` equals N.                                           *)
EventTypeValue ==
  [none |-> 0, votePresent |-> 1, payloadPresent |-> 2, bundlePresent |-> 3,
   voteVerified |-> 4, payloadVerified |-> 5, bundleVerified |-> 6,
   roundInterruption |-> 7, timeout |-> 8, fastTimeout |-> 9,
   speculationTimeout |-> 10, softThreshold |-> 11, certThreshold |-> 12,
   nextThreshold |-> 13, proposalCommittable |-> 14, proposalAccepted |-> 15,
   voteFiltered |-> 16, voteMalformed |-> 17, bundleFiltered |-> 18,
   bundleMalformed |-> 19, payloadRejected |-> 20, payloadMalformed |-> 21,
   payloadPipelined |-> 22, payloadAccepted |-> 23, proposalFrozen |-> 24,
   voteAccepted |-> 25, newRound |-> 26, newPeriod |-> 27, readStaging |-> 28,
   readPinned |-> 29, readLowestValue |-> 30, readLowestPayload |-> 31,
   voteFilterRequest |-> 32, voteFilteredStep |-> 33,
   nextThresholdStatusRequest |-> 34, nextThresholdStatus |-> 35,
   freshestBundleRequest |-> 36, freshestBundle |-> 37,
   dumpVotesRequest |-> 38, dumpVotes |-> 39, wrappedAction |-> 40,
   checkpointReached |-> 41]

\* `_eventType_name`: every name, concatenated in the order of the values.
EventTypeName ==
  "nonevotePresentpayloadPresentbundlePresentvoteVerifiedpayloadVerifiedbundleVerifiedroundInterruptiontimeoutfastTimeoutspeculationTimeoutsoftThresholdcertThresholdnextThresholdproposalCommittableproposalAcceptedvoteFilteredvoteMalformedbundleFilteredbundleMalformedpayloadRejectedpayloadMalformedpayloadPipelinedpayloadAcceptedproposalFrozenvoteAcceptednewRoundnewPeriodreadStagingreadPinnedreadLowestValuereadLowestPayloadvoteFilterRequestvoteFilteredStepnextThresholdStatusRequestnextThresholdStatusfreshestBundleRequestfreshestBundledumpVotesRequestdumpVoteswrappedActioncheckpointReached"

\* Mutant: a table left over from an earlier edit, one offset short.
EventTypeIndexStale ==
  <<0, 4, 15, 29, 42, 54, 69, 83, 100, 107, 118, 136, 149, 162, 175, 194, 210,
    222, 235, 249, 264, 279, 295, 311, 326, 340, 352, 360, 368, 380, 390, 405,
    422, 439, 455, 481, 500, 521, 535, 551, 560, 573, 590>>

\* `_eventType_index` ([...]uint16; every entry is far below 2^16). Go's
\* a[k] is EventTypeIndex[k + 1].
EventTypeIndex ==
  <<0, 4, 15, 29, 42, 54, 69, 83, 100, 107, 118, 136, 149, 162, 175, 194, 210,
    222, 235, 249, 264, 279, 295, 311, 326, 340, 352, 360, 369, 380, 390, 405,
    422, 439, 455, 481, 500, 521, 535, 551, 560, 573, 590>>

(* The stringer writes the table so that its last offset is the length of *)
(* the name string.  TLC evaluates this on every run; the proofs take it  *)
(* from here, since the provers cannot count the characters of a string.  *)
ASSUME NameLengthAssumption == Len(EventTypeName) = EventTypeIndex[Len(EventTypeIndex)]

-----------------------------------------------------------------------------
(* The two results of a call.                                              *)
Returned(s) == [kind |-> "return", val |-> s]
Panicked == [kind |-> "panic", val |-> ""]

\* Go's bounds check on a[k].
InBounds(a, k) == k \in 0..(Len(a) - 1)

\* Go's s[lo:hi] on a string: panics unless 0 <= lo <= hi <= len(s).
GoSlice(s, lo, hi) ==
  IF 0 <= lo /\ lo <= hi /\ hi <= Len(s)
  THEN Returned(SubSeq(s, lo + 1, hi))
  ELSE Panicked

\* strconv.FormatInt(n, 10): the decimal digits, with a leading "-" when
\* n is negative.
Digit(d) == SubSeq("0123456789", d + 1, d + 1)
Decimal[n \in Nat] ==
  IF n < 10 THEN Digit(n) ELSE Decimal[n \div 10] \o Digit(n % 10)

FormatInt(n) == IF n < 0 THEN "-" \o Decimal[-n] ELSE Decimal[n]

\* Mutant: the range check lets through i = len(_eventType_index) - 1.
StringGuardOffByOne(n) ==
  IF n < 0 \/ n > Len(EventTypeIndex) - 1
  THEN Returned("eventType(" \o FormatInt(n) \o ")")
  ELSE IF ~(InBounds(EventTypeIndex, n) /\ InBounds(EventTypeIndex, n + 1))
       THEN Panicked
       ELSE GoSlice(EventTypeName, EventTypeIndex[n + 1], EventTypeIndex[n + 2])

\* eventType.String.
String(n) ==
  IF n < 0 \/ n >= Len(EventTypeIndex) - 1
  THEN Returned("eventType(" \o FormatInt(n) \o ")")
  ELSE IF ~(InBounds(EventTypeIndex, n) /\ InBounds(EventTypeIndex, n + 1))
       THEN Panicked
       ELSE GoSlice(EventTypeName, EventTypeIndex[n + 1], EventTypeIndex[n + 2])

-----------------------------------------------------------------------------
(* One call of String with an argument from the probed range.              *)
Call(n) == i' = n /\ out' = String(n)

Init == i \in Probes /\ out = String(i)

Next == \E n \in Probes : Call(n)

Spec == Init /\ [][Next]_vars

-----------------------------------------------------------------------------
(* Every event-type constant renders as its own identifier: the index     *)
(* table and the name string agree with the numbering `_()` asserts.       *)
(* This is what goes wrong when the constants change and the stringer is  *)
(* not re-run.                                                             *)
StringNamesConstant ==
  \A name \in DOMAIN EventTypeValue :
    i = EventTypeValue[name] => out = Returned(name)

(* String never panics, on the boundary value len(_eventType_index) - 1   *)
(* and on negative values included.                                        *)
StringNeverPanics == out.kind = "return"

=============================================================================
