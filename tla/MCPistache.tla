----------------------------- MODULE MCPistache -----------------------------
(***************************************************************************)
(* What the server takes from the headers of Pistache, on small instances: *)
(* the queue over which it hands work to its worker (MailQueue), the       *)
(* bounded queue (BoundedQueue), promises (Promise) and promises put       *)
(* together (When).  They share nothing; a behaviour is about one of them, *)
(* and the variables of the others stay as they are at the start.          *)
(***************************************************************************)
EXTENDS MailQueue

CONSTANTS
  Callers,      \* threads that use the bounded queue
  Few,          \* those of them with more calls each, for which liveness is checked
  QueueSize, MaxCalls,
  Settlers,     \* threads that use promises
  NumCores, NumRoots, Continuations,
  MaxInputs     \* promises put together

CONSTANTS p1, p2, t1, t2, t3

ASSUME SizesAssumption ==
  /\ QueueSize \in Nat /\ QueueSize >= 2 /\ MaxCalls \in Nat
  /\ MaxInputs \in Nat /\ None \notin 1..MaxInputs

\* An exception goes on through a callback that returns a promise.
ASSUME PromisesAssumption ==
  /\ NumCores \in Nat /\ NumRoots \in Nat
  /\ Continuations \subseteq
       {"value", "void"} \X {"ignore", "rethrow"} \cup {<<"promise", "rethrow">>}
  /\ None \notin Settlers \cup {"Pending", "Fulfilled", "Rejected"}

TheProducers == {p1, p2}
TheCallers == {t1, t2, t3}
TheFew == {t1, t2}

\* Callbacks of every kind.
AllKinds ==
  {<<"value", "ignore">>, <<"value", "rethrow">>, <<"void", "ignore">>, <<"promise", "rethrow">>}

VARIABLES
  part,         \* what the behaviour is about
  enqueueIndex, dequeueIndex, sequence, data, at, index, item, called, verdict, put, got,
  state, owner, settler, reason, requests, request, counts, stack, failed, ran, begun,
  policy, total, input, attached, waiting, resolved, rejected, done, results,
  outcome, taken, thrown, first

\* The queue without an eventfd, whose consumer pops again and again.
Asked == INSTANCE MailQueue WITH Polling <- FALSE

\* All threads with fewer calls each, or few of them with as many as there may be.
Bounded == INSTANCE BoundedQueue WITH Threads <- Callers, Size <- QueueSize

\* Promises somebody settles, callbacks of every kind hang on them.
Rules == INSTANCE Promise WITH
           Threads <- Settlers, Chained <- FALSE, TwoSettlers <- FALSE

\* A bound on then: the last core is used only if all callbacks are of two kinds.
LastOfTwo ==
  Cardinality(Rules!Free) <= Rules!Reserved =>
    \A r \in 1..NumCores : request[r].kind \in {"value", "void"} =>
                    request[r].kind = "value" /\ request[r].handler = "rethrow"

Several == INSTANCE When

boundedVars == <<enqueueIndex, dequeueIndex, sequence, data, at, index, item, called, verdict,
                 put, got>>
promiseVars == <<state, owner, settler, reason, requests, request, counts, stack, failed, ran,
                 begun>>
whenVars == <<policy, total, input, attached, waiting, resolved, rejected, done, results,
              outcome, taken, thrown, first>>

-----------------------------------------------------------------------------
MCInit ==
  /\ part \in {"polled", "asked", "bounded", "few", "promise", "when"}
  /\ IF part = "asked" THEN Asked!Init ELSE Init
  /\ Bounded!Init
  /\ Rules!Init
  /\ Several!Init /\ (part # "when" => policy = "all" /\ total = 1)

MCNext ==
  /\ UNCHANGED part
  /\ \/ part = "polled" /\ Next /\ UNCHANGED <<boundedVars, promiseVars, whenVars>>
     \/ part = "asked" /\ Asked!Next /\ UNCHANGED <<boundedVars, promiseVars, whenVars>>
     \/ /\ part \in {"bounded", "few"} /\ Bounded!Next
        /\ IF part = "few" THEN \A t \in Callers \ Few : called'[t] = 0
           ELSE \A t \in Callers : called'[t] < MaxCalls
        /\ UNCHANGED <<vars, promiseVars, whenVars>>
     \/ part = "promise" /\ Rules!Next /\ LastOfTwo' /\ UNCHANGED <<vars, boundedVars, whenVars>>
     \/ part = "when" /\ Several!Next /\ UNCHANGED <<vars, boundedVars, promiseVars>>

mcVars == <<part, vars, boundedVars, promiseVars, whenVars>>

\* The fairness of each module, for the behaviours that are about it.
MCFairness ==
  /\ WF_mcVars(/\ part = "asked" /\ Asked!Consume
               /\ UNCHANGED <<part, boundedVars, promiseVars, whenVars>>)
  /\ \A p \in Producers :
       WF_mcVars(/\ part = "asked" /\ Asked!Finish(p)
                 /\ UNCHANGED <<part, boundedVars, promiseVars, whenVars>>)
  /\ \A t \in Few :
       /\ WF_mcVars(/\ part = "few" /\ (Bounded!Work(t) \/ Bounded!ClaimFails(t))
                    /\ UNCHANGED <<part, vars, promiseVars, whenVars>>)
       /\ SF_mcVars(/\ part = "few" /\ Bounded!Claim(t)
                    /\ UNCHANGED <<part, vars, promiseVars, whenVars>>)
  /\ \A t \in Settlers :
       SF_mcVars(/\ part = "promise" /\ Rules!Continue(t)
                 /\ UNCHANGED <<part, vars, boundedVars, whenVars>>)
  /\ WF_mcVars(part = "when" /\ Several!Attach /\ UNCHANGED <<part, vars, boundedVars, promiseVars>>)
  /\ WF_mcVars(/\ part = "when" /\ \E i \in Several!Inputs : Several!Continue(i)
               /\ UNCHANGED <<part, vars, boundedVars, promiseVars>>)

MCSpec == MCInit /\ [][MCNext]_mcVars /\ MCFairness

-----------------------------------------------------------------------------
\* The types of all the modules.
Types ==
  /\ TypeOK
  /\ part \in {"bounded", "few"} => Bounded!TypeOK
  /\ part = "promise" => Rules!TypeOK
  /\ part = "when" => Several!TypeOK

\* A consumer that asks again and again gets every message (mailbox.h:213-240).
ReceivedWhenAsked == part = "asked" => AllReceived

\* Of the bounded queue no cell is accessed by two, and what is read with a
\* ticket is what was stored with it, once (mailbox.h:374-419).
Handed == Bounded!Exclusive /\ Bounded!Handed

\* The bounded queue refuses a lone call only when it is full, or empty
\* (mailbox.h:387 and 409-410).
RefusedRightly == Bounded!RefusedRightly

\* Callbacks run once, are never forgotten and tell what hangs on them, values
\* and exceptions that are thrown on alike; using a promise by its rules ends in
\* no Error (async.h:186-196, 289-312, 1052-1060).
Told == part = "promise" => Rules!RunOnce /\ Rules!NoneLost /\ Rules!Follows /\ Rules!NoErrors

\* No thread loops for ever in the bounded queue, or waits for ever for the
\* mutex of a promise (mailbox.h:377, async.h:774 and 1052).
CallsReturn == (part = "bounded" \/ Bounded!CallsReturn) /\ Rules!CallsReturn

\* Promises put together give all values, one exception or what came first, and
\* only an exception that comes too late ends in an Error (async.h:1190-1277).
RightOutcome == Several!RightOutcome /\ Several!ErrorOnlyForLateReject

\* Once all are settled so is the promise they are put together to
\* (async.h:1396-1421).
Answers == Several!Answers
=============================================================================
