------------------------------- MODULE Promise -------------------------------
(***************************************************************************)
(* Async::Promise: the promises with which Pistache answers a write, and   *)
(* what a thread that settles one, and a thread that attaches to it, do to *)
(* each other.  Source: pistache/async.h.                                  *)
(*                                                                         *)
(* A core is what the copies of one promise share.  then makes a core of   *)
(* its own, and a request that is named here by that core.  The calls of a *)
(* thread nest in each other; they are its stack, and one action is what a *)
(* thread does between two points where another can see the difference.    *)
(* What a callback computes is left out; it returns, or returns a promise. *)
(***************************************************************************)
EXTENDS Integers, Sequences, FiniteSets, SequencesExt

CONSTANTS
  Threads,
  NumCores,     \* how many cores there are room for
  NumRoots,     \* the first of them are promises somebody has a Deferred of
  Continuations,\* <<kind, handler>>: what then is called with; kind is what the
                \* callback returns, handler what is done with an exception
  Chained,      \* whether a thread attaches to the promise that then returned
                \* while another may be settling what it hangs on
  TwoSettlers,  \* whether two threads may settle the same promise
  None

Cores == 1..NumCores
Kinds == {"value", "void", "promise"}
Handlers == {"ignore", "rethrow"}

VARIABLES
  state,        \* core -> None, or Pending, Fulfilled or Rejected
  owner,        \* core -> the thread that holds its mutex
  settler,      \* core -> the thread that constructed its value, or None
  reason,       \* core -> whether it has an exception
  requests,     \* core -> the requests attached, in this order
  request,      \* request -> its kind, its handler and its target
  counts,       \* request -> how often resolve and reject came to their end
  stack,        \* thread -> its calls, the innermost first
  failed,       \* thread -> whether its last call ended in an Error
  ran,          \* history: request -> the callbacks of it that were called
  begun         \* history: the promises somebody began to settle

cores == <<state, owner, settler, reason, requests>>
vars == <<cores, request, counts, stack, failed, ran, begun>>

Settled(c) == state[c] \in {"Fulfilled", "Rejected"}
Free == {c \in Cores : state[c] = None}
Least(S) == CHOOSE c \in S : \A d \in S : c <= d

-----------------------------------------------------------------------------
(* Frames.                                                                 *)

Settle(c, how)        == [op |-> "settle", core |-> c, how |-> how]
Each(c, how, locked)  == [op |-> "each", core |-> c, how |-> how, k |-> 1, locked |-> locked]
Call(r, how, c)       == [op |-> "call", req |-> r, how |-> how, core |-> c]
Called(r, how)        == [op |-> "called", req |-> r, how |-> how]
Then(c, r)            == [op |-> "then", core |-> c, req |-> r]
Attach(c, r)          == [op |-> "attach", core |-> c, req |-> r]

Idle(t) == stack[t] = <<>>
Top(t) == Head(stack[t])
At(t, op) == ~Idle(t) /\ Top(t).op = op
Return(t) == stack' = [stack EXCEPT ![t] = Tail(@)]
Replace(t, frames) == stack' = [stack EXCEPT ![t] = frames \o Tail(@)]

\* An Error leaves all the calls of the thread; their locks are released.
Throw(t) ==
  /\ stack' = [stack EXCEPT ![t] = <<>>]
  /\ owner' = [c \in Cores |-> IF owner[c] = t THEN None ELSE owner[c]]
  /\ failed' = [failed EXCEPT ![t] = TRUE]
  /\ UNCHANGED <<state, settler, reason, requests, request, counts, ran, begun>>

-----------------------------------------------------------------------------
(* Resolver and Rejection.                                                 *)

\* Whether the rules of the run let a thread begin: as long as Chained is
\* false, what hangs on a promise is attached while nobody settles it.
OnChain(t) == \E k \in 1..Len(stack[t]) :
  stack[t][k].op \in {"then", "attach"} /\ stack[t][k].core > NumRoots
MaySettle(c) ==
  /\ TwoSettlers \/ c \notin begun
  /\ Chained \/ \A u \in Threads : ~OnChain(u)
MayAttach(c) == Chained \/ c <= NumRoots \/ \A u \in Threads : Idle(u)

\* The state is looked at before the mutex is taken.
Begin(t, c, how) ==
  /\ Idle(t) /\ state[c] # None /\ request[c].kind = "root" /\ MaySettle(c)
  /\ begun' = begun \cup {c}
  /\ IF state[c] # "Pending"
     THEN failed' = [failed EXCEPT ![t] = TRUE] /\ UNCHANGED stack
     ELSE failed' = [failed EXCEPT ![t] = FALSE]
          /\ stack' = [stack EXCEPT ![t] = <<Settle(c, how)>>]
  /\ UNCHANGED <<cores, request, counts, ran>>

\* Core::construct, or the exception: the core is settled.
SettledBy(c, how, t) ==
  /\ state' = [state EXCEPT ![c] = IF how = "resolve" THEN "Fulfilled" ELSE "Rejected"]
  /\ settler' = [settler EXCEPT ![c] = t]
  /\ reason' = [reason EXCEPT ![c] = @ \/ how = "reject"]

SettleLocked(t) ==
  /\ At(t, "settle") /\ owner[Top(t).core] = None
  /\ owner' = [owner EXCEPT ![Top(t).core] = t]
  /\ SettledBy(Top(t).core, Top(t).how, t)
  /\ Replace(t, <<Each(Top(t).core, Top(t).how, TRUE)>>)
  /\ UNCHANGED <<requests, request, counts, failed, ran, begun>>

\* for (const auto& req: requests): the next one is called, or the loop ends
\* and with it the guard of whoever took one.
EachRequest(t) ==
  /\ At(t, "each")
  /\ LET f == Top(t) IN
       IF f.k <= Len(requests[f.core])
       THEN /\ Replace(t, <<Call(requests[f.core][f.k], f.how, f.core), [f EXCEPT !.k = @ + 1]>>)
            /\ UNCHANGED owner
       ELSE /\ Return(t)
            /\ owner' = IF f.locked THEN [owner EXCEPT ![f.core] = None] ELSE owner
  /\ UNCHANGED <<state, settler, reason, requests, request, counts, failed, ran, begun>>

-----------------------------------------------------------------------------
(* Continuable and its specialisations.                                    *)

CalledBefore(r, how) == counts[r][how] >= 1

CallTwice(t) ==
  /\ At(t, "call") /\ CalledBefore(Top(t).req, Top(t).how)
  /\ Throw(t)

\* A call that goes on: its callback has run, and frames come after it.
Runs(t, frames) ==
  /\ At(t, "call") /\ ~CalledBefore(Top(t).req, Top(t).how)
  /\ ran' = [ran EXCEPT ![Top(t).req] = Append(@, Top(t).how)]
  /\ Replace(t, frames \o <<Called(Top(t).req, Top(t).how)>>)
  /\ UNCHANGED <<owner, requests, counts, failed, begun>>

TopKind(t) == request[Top(t).req].kind

\* Mutant of Chain: what hangs on the new value is not told of it.
Chain_NotTold(t, c, how) ==
  /\ SettledBy(c, how, t)
  /\ Runs(t, <<>>)
  /\ UNCHANGED request

\* The core of the chain is settled and what hangs on it is told, without the
\* mutex of that core.
Chain(t, c, how) ==
  /\ SettledBy(c, how, t)
  /\ Runs(t, <<Each(c, how, FALSE)>>)
  /\ UNCHANGED request

\* doResolve where the callback returns nothing.
ResolveVoid(t) ==
  /\ At(t, "call") /\ Top(t).how = "resolve" /\ TopKind(t) = "void"
  /\ Runs(t, <<>>)
  /\ UNCHANGED <<state, settler, reason, request>>

\* doResolve where it returns a value.
ResolveValue(t) ==
  /\ At(t, "call") /\ Top(t).how = "resolve" /\ TopKind(t) = "value"
  /\ Chain(t, Top(t).req, "resolve")

\* The Chainer: the promise that a callback returned is settled, and its value,
\* or its exception, goes on to the chain of that callback.
RunChainer(t) ==
  /\ At(t, "call") /\ TopKind(t) = "chainer"
  /\ Chain(t, request[Top(t).req].target, Top(t).how)

\* doResolve where it returns a promise, here one that is pending: then is
\* called for it with the Chainer.
ResolvePromise(t) ==
  /\ At(t, "call") /\ Top(t).how = "resolve" /\ TopKind(t) = "promise"
  /\ LET inner == Least(Free)
         r == Least(Free \ {inner})
     IN /\ state' = [state EXCEPT ![inner] = "Pending", ![r] = "Pending"]
        /\ request' = [request EXCEPT ![inner].kind = "root",
             ![r] = [kind |-> "chainer", handler |-> "ignore", target |-> Top(t).req]]
        /\ Runs(t, <<Then(inner, r)>>)
  /\ UNCHANGED <<settler, reason>>

\* doReject where the handler returns: the chain stays pending all the same.
\* A callback that returns a promise calls the requests of the core it hangs on
\* itself, not those of its chain.
Reject(t) ==
  /\ At(t, "call") /\ Top(t).how = "reject"
  /\ TopKind(t) # "chainer" /\ request[Top(t).req].handler = "ignore"
  /\ Runs(t, CASE TopKind(t) = "value"   -> <<Each(Top(t).req, "reject", FALSE)>>
               [] TopKind(t) = "void"    -> <<>>
               [] TopKind(t) = "promise" -> <<Each(Top(t).core, "reject", FALSE)>>)
  /\ UNCHANGED <<state, settler, reason, request>>

\* Continuable::reject catches InternalRethrow and rejects the chain.
RejectRethrow(t) ==
  /\ At(t, "call") /\ Top(t).how = "reject"
  /\ TopKind(t) # "chainer" /\ request[Top(t).req].handler = "rethrow"
  /\ Chain(t, Top(t).req, "reject")

\* The count goes up when the call is over.
EndCall(t) ==
  /\ At(t, "called")
  /\ counts' = [counts EXCEPT ![Top(t).req][Top(t).how] = @ + 1]
  /\ Return(t)
  /\ UNCHANGED <<cores, request, failed, ran, begun>>

-----------------------------------------------------------------------------
(* then.                                                                   *)

\* The bound: a callback that is going to return a promise needs two cores then.
Needed(kind) == IF kind = "promise" THEN 3 ELSE 1
Reserved == 2 * Cardinality({r \in Cores : request[r].kind = "promise" /\ ran[r] = <<>>})

NewThen(t, c, kind, handler) ==
  /\ Idle(t) /\ state[c] # None /\ MayAttach(c)
  /\ Cardinality(Free) >= Reserved + Needed(kind)
  /\ request[c].kind # "chainer"
  /\ LET r == Least(Free) IN
       /\ state' = [state EXCEPT ![r] = "Pending"]
       /\ request' = [request EXCEPT ![r] = [kind |-> kind, handler |-> handler, target |-> r]]
       /\ stack' = [stack EXCEPT ![t] = <<Then(c, r)>>]
  /\ failed' = [failed EXCEPT ![t] = FALSE]
  /\ UNCHANGED <<owner, settler, reason, requests, counts, ran, begun>>

\* The state is read under the mutex; a request that comes late is called here.
ThenLocked(t) ==
  /\ At(t, "then") /\ owner[Top(t).core] = None
  /\ LET f == Top(t)
         now == CASE state[f.core] = "Fulfilled" -> <<Call(f.req, "resolve", f.core)>>
                  [] state[f.core] = "Rejected" -> <<Call(f.req, "reject", f.core)>>
                  [] OTHER -> <<>>
     IN /\ owner' = [owner EXCEPT ![f.core] = t]
        /\ Replace(t, now \o <<Attach(f.core, f.req)>>)
  /\ UNCHANGED <<state, settler, reason, requests, request, counts, failed, ran, begun>>

\* Mutant of PushBack: the guard is not released.
PushBack_KeepsLock(t) ==
  /\ At(t, "attach")
  /\ requests' = [requests EXCEPT ![Top(t).core] = Append(@, Top(t).req)]
  /\ Return(t)
  /\ UNCHANGED <<state, owner, settler, reason, request, counts, failed, ran, begun>>

PushBack(t) ==
  /\ At(t, "attach")
  /\ requests' = [requests EXCEPT ![Top(t).core] = Append(@, Top(t).req)]
  /\ owner' = [owner EXCEPT ![Top(t).core] = None]
  /\ Return(t)
  /\ UNCHANGED <<state, settler, reason, request, counts, failed, ran, begun>>

-----------------------------------------------------------------------------
Init ==
  /\ state = [c \in Cores |-> IF c <= NumRoots THEN "Pending" ELSE None]
  /\ owner = [c \in Cores |-> None] /\ settler = [c \in Cores |-> None]
  /\ reason = [c \in Cores |-> FALSE] /\ requests = [c \in Cores |-> <<>>]
  /\ request = [c \in Cores |-> [kind |-> IF c <= NumRoots THEN "root" ELSE "none",
                                 handler |-> "ignore", target |-> c]]
  /\ counts = [c \in Cores |-> [resolve |-> 0, reject |-> 0]]
  /\ stack = [t \in Threads |-> <<>>] /\ failed = [t \in Threads |-> FALSE]
  /\ ran = [c \in Cores |-> <<>>] /\ begun = {}

Continue(t) ==
  \/ SettleLocked(t) \/ EachRequest(t) \/ CallTwice(t)
  \/ ResolveVoid(t) \/ ResolveValue(t) \/ ResolvePromise(t) \/ RunChainer(t)
  \/ Reject(t) \/ RejectRethrow(t) \/ EndCall(t)
  \/ ThenLocked(t) \/ PushBack(t)

Start(t) ==
  \E c \in Cores :
    \/ \E how \in {"resolve", "reject"} : Begin(t, c, how)
    \/ \E k \in Continuations : NewThen(t, c, k[1], k[2])

Next == \E t \in Threads : Start(t) \/ Continue(t)

\* Threads are scheduled; a mutex that is free again and again is got.
Spec == Init /\ [][Next]_vars /\ \A t \in Threads : SF_vars(Continue(t))

-----------------------------------------------------------------------------
(* Properties.                                                             *)

TypeOK ==
  /\ state \in [Cores -> {None, "Pending", "Fulfilled", "Rejected"}]
  /\ owner \in [Cores -> Threads \cup {None}]
  /\ settler \in [Cores -> Threads \cup {None}]
  /\ reason \in [Cores -> BOOLEAN]
  /\ requests \in [Cores -> Seq(Cores)]
  /\ request \in [Cores -> [kind : Kinds \cup {"root", "none", "chainer"},
                            handler : Handlers, target : Cores]]
  /\ counts \in [Cores -> [resolve : 0..1, reject : 0..1]]
  /\ failed \in [Threads -> BOOLEAN]
  /\ ran \in [Cores -> Seq({"resolve", "reject"})] /\ begun \subseteq Cores

\* A callback is called once, and not both ways (async.h:289-312, "must not be
\* called more than once").
RunOnce == \A r \in Cores : Len(ran[r]) <= 1

\* When nobody is at work, whatever was attached to a promise that is settled
\* has been called, in the way it was settled: also what was attached while it
\* was being settled, and what came after (async.h:186-196 and 1052-1060).
NoneLost ==
  (\A t \in Threads : Idle(t)) =>
    \A c \in Cores : Settled(c) =>
      \A r \in ToSet(requests[c]) :
        ran[r] = IF state[c] = "Fulfilled" THEN <<"resolve">> ELSE <<"reject">>

\* The promise that then returned follows the one it hangs on: over a value, and
\* over a promise when that is settled, and over an exception that is thrown on
\* (async.h:301-309, 391-397, 550-579).
Follows ==
  (\A t \in Threads : Idle(t)) =>
    \A r \in Cores :
      /\ request[r].kind = "value" /\ ran[r] = <<"resolve">> => state[r] = "Fulfilled"
      /\ request[r].kind \in Kinds /\ request[r].handler = "rethrow" /\ ran[r] = <<"reject">> =>
           state[r] = "Rejected" /\ reason[r]
      /\ request[r].kind = "chainer" /\ ran[r] # <<>> =>
           Settled(request[r].target)

\* No use of a promise by its rules ends in an Error (async.h:291, 299, 764,
\* 832).
NoErrors == \A t \in Threads : ~failed[t]

\* Every call comes back: nobody waits for ever for a mutex (async.h:774, 1052).
CallsReturn == []<>(\A t \in Threads : Idle(t))
=============================================================================
