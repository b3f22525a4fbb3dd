-------------------------------- MODULE When --------------------------------
(***************************************************************************)
(* whenAll and whenAny: one promise out of several, which other threads    *)
(* settle while it is being put together.  Source: pistache/async.h.       *)
(*                                                                         *)
(* That a continuation runs once, when its promise is settled or when it   *)
(* is attached to one that is, is what Promise shows; here it is taken     *)
(* for granted.  What it does is one action, under the mutex of the data.  *)
(***************************************************************************)
EXTENDS Integers, FiniteSets

CONSTANTS
  MaxInputs,    \* how many promises are put together, at most
  None          \* no value yet

VARIABLES
  policy,       \* "all" or "any" of some promises, or "range": all of a vector
  total,        \* how many there are
  input,        \* promise -> how it is settled
  attached,     \* how many continuations are attached
  waiting,      \* the promises whose continuation is called, and has not run
  resolved, rejected, done,    \* the data of the policy
  results,      \* promise -> its value, in the data
  outcome,      \* how the promise that was returned is settled
  taken,        \* the promises whose values, or whose exception, it has
  thrown,       \* the promises whose continuation ended in an Error
  first         \* history: the promise whose continuation ran first, or None

data == <<resolved, rejected, done, results>>
vars == <<policy, total, input, attached, waiting, data, outcome, taken, thrown, first>>

Inputs == 1..total
Settled(i) == input[i] # "pending"

\* Somebody settles one of the promises; its continuation is called, if there
\* is one already.
Settle(i, how) ==
  /\ i \in Inputs /\ input[i] = "pending"
  /\ input' = [input EXCEPT ![i] = how]
  /\ waiting' = IF i <= attached THEN waiting \cup {i} ELSE waiting
  /\ UNCHANGED <<policy, total, attached, data, outcome, taken, thrown, first>>

\* whenArgs and the loop over the range attach to one after the other, and go
\* on when the continuation of the one before has run, if it was settled; an
\* Error that it threw leaves the loop.
Attach ==
  /\ attached < total /\ attached \notin waiting
  /\ attached > 0 => attached \notin thrown
  /\ attached' = attached + 1
  /\ waiting' = IF Settled(attached') THEN waiting \cup {attached'} ELSE waiting
  /\ UNCHANGED <<policy, total, input, data, outcome, taken, thrown, first>>

\* Resolver and Rejection: what is settled already cannot be again.
SettleResult(how, values, i) ==
  IF outcome = "pending"
  THEN outcome' = how /\ taken' = values /\ UNCHANGED thrown
  ELSE thrown' = thrown \cup {i} /\ UNCHANGED <<outcome, taken>>

\* Mutant of Runs: the continuation stays to be called.
Runs_Again(i) ==
  /\ i \in waiting
  /\ first' = IF first = None THEN i ELSE first
  /\ UNCHANGED <<policy, total, input, attached, waiting>>

\* The continuation of a promise runs.
Runs(i) ==
  /\ i \in waiting
  /\ waiting' = waiting \ {i}
  /\ first' = IF first = None THEN i ELSE first
  /\ UNCHANGED <<policy, total, input, attached>>

\* Mutant of AllDone: the last one is not waited for.
AllDone_OneLess == resolved' >= total - 1
\* Mutant of AllDone: the number is looked at before it is counted up.
AllDone_Before == resolved = total
AllDone == resolved' = total

\* All::resolveT and the continuation of a range, when the promise has a value.
ResolveAll(i) ==
  /\ Runs(i) /\ policy # "any" /\ input[i] = "fulfilled"
  /\ IF rejected THEN UNCHANGED <<data, outcome, taken, thrown>>
     ELSE /\ results' = results \cup {i} /\ resolved' = resolved + 1
          /\ IF AllDone THEN SettleResult("fulfilled", results', i)
             ELSE UNCHANGED <<outcome, taken, thrown>>
          /\ UNCHANGED <<rejected, done>>

\* Any::resolveT.
ResolveAny(i) ==
  /\ Runs(i) /\ policy = "any" /\ input[i] = "fulfilled"
  /\ IF done THEN UNCHANGED <<data, outcome, taken, thrown>>
     ELSE /\ SettleResult("fulfilled", {i}, i)
          /\ done' = TRUE
          /\ UNCHANGED <<resolved, rejected, results>>

\* All::reject and Any::reject do not look whether they are the first.
RejectPolicy(i) ==
  /\ Runs(i) /\ policy # "range" /\ input[i] = "rejected"
  /\ rejected' = (policy = "all" \/ rejected) /\ done' = (policy = "any" \/ done)
  /\ SettleResult("rejected", {i}, i)
  /\ UNCHANGED <<resolved, results>>

RejectRange(i) ==
  /\ Runs(i) /\ policy = "range" /\ input[i] = "rejected"
  /\ rejected' = TRUE
  /\ IF rejected THEN UNCHANGED <<outcome, taken, thrown>>
     ELSE SettleResult("rejected", {i}, i)
  /\ UNCHANGED <<resolved, done, results>>

Continue(i) == ResolveAll(i) \/ ResolveAny(i) \/ RejectPolicy(i) \/ RejectRange(i)

Init ==
  /\ policy \in {"all", "any", "range"} /\ total \in 1..MaxInputs
  /\ input = [i \in Inputs |-> "pending"]
  /\ attached = 0 /\ waiting = {}
  /\ resolved = 0 /\ rejected = FALSE /\ done = FALSE /\ results = {}
  /\ outcome = "pending" /\ taken = {} /\ thrown = {} /\ first = None

Next ==
  \/ Attach
  \/ \E i \in Inputs :
       Continue(i) \/ Settle(i, "fulfilled") \/ Settle(i, "rejected")

\* What has begun to be attached is attached, and a continuation that is called
\* gets the mutex and runs.
Spec == Init /\ [][Next]_vars /\ WF_vars(Attach) /\ WF_vars(\E i \in Inputs : Continue(i))

-----------------------------------------------------------------------------
TypeOK ==
  /\ input \in [Inputs -> {"pending", "fulfilled", "rejected"}]
  /\ attached \in 0..total /\ waiting \subseteq Inputs
  /\ resolved \in 0..total /\ {rejected, done} \subseteq BOOLEAN
  /\ results \subseteq Inputs /\ taken \subseteq Inputs /\ thrown \subseteq Inputs
  /\ outcome \in {"pending", "fulfilled", "rejected"} /\ first \in Inputs \cup {None}

\* All of the promises give all of their values, or the exception of one; any
\* of them gives what came first (async.h:1190-1277, 1410-1416, 1478-1490).
RightOutcome ==
  /\ policy # "any" /\ outcome = "fulfilled" => taken = Inputs
  /\ outcome # "pending" => \A i \in taken : input[i] = outcome
  /\ policy = "any" /\ outcome # "pending" => taken = {first}

\* Settling a promise ends in an Error, in the thread that settles it, only for
\* an exception that comes after the result is settled, and never for a range
\* (async.h:1222-1223, 1275-1276 against 1413-1416).
ErrorOnlyForLateReject ==
  \A i \in thrown : policy # "range" /\ input[i] = "rejected" /\ i \notin taken

\* Once every promise is settled so is the result, whatever Errors were thrown.
Answers == (\A i \in Inputs : Settled(i)) ~> (outcome # "pending")
=============================================================================
