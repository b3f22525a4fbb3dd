--------------------------- MODULE PistacheProofs ---------------------------
(***************************************************************************)
(* Proofs about MCPistache, whatever the numbers of threads, messages,     *)
(* cells, calls and promises: what MailQueueProofs, BoundedQueueProofs and *)
(* PromiseProofs say of their modules holds in the sum of the modules;     *)
(* and promises put together (When) give what they should.  At the end,    *)
(* what holds of the calendar of Pistache's date.h for all days.           *)
(***************************************************************************)
EXTENDS MCPistache, MailQueueProofs, FiniteSetTheorems

BP == INSTANCE BoundedQueueProofs WITH Threads <- Callers, Size <- QueueSize
PP == INSTANCE PromiseProofs WITH Threads <- Settlers, Chained <- FALSE, TwoSettlers <- FALSE
AP == INSTANCE MailQueueProofs WITH Polling <- FALSE

LEMMA Legal == BP!LegalSize /\ PP!LegalRules
<1>1. BP!LegalSize
  BY SizesAssumption DEF BP!LegalSize
<1>2. Continuations \subseteq (PP!Kinds \X PP!Handlers) \ {<<"promise", "ignore">>}
  BY PromisesAssumption DEF PP!Kinds, PP!Handlers
<1>3. QED
  BY <1>1, <1>2, PromisesAssumption DEF PP!LegalRules

-----------------------------------------------------------------------------
(* The queue to the worker, with an eventfd and without.                   *)

\* Without an eventfd the invariant says the same.
LEMMA SameMail ==
  /\ Asked!Init <=> AP!Init
  /\ Asked!Next <=> AP!Next
  /\ AP!IInv <=> IInv
  /\ AP!vars = vars
<1>1. Asked!Init <=> AP!Init
  BY DEF Asked!Init, AP!Init, Asked!Entries, AP!Entries, Asked!Messages, AP!Messages
<1>2. ASSUME NEW p
      PROVE  /\ Asked!Push(p) <=> AP!Push(p)
             /\ Asked!Finish(p) <=> AP!Finish(p)
  BY DEF Asked!Push, AP!Push, Asked!Exchange, AP!Exchange, Asked!Finish, AP!Finish,
         Asked!Link, AP!Link, Asked!Notify, AP!Notify, Asked!shared, AP!shared,
         Asked!consumer, AP!consumer
<1>3. Asked!Consume <=> AP!Consume
  BY DEF Asked!Consume, AP!Consume, Asked!Wake, AP!Wake, Asked!PopNothing, AP!PopNothing,
         Asked!AfterPop, AP!AfterPop, Asked!PopEntry, AP!PopEntry, Asked!Moved, AP!Moved,
         Asked!Drain, AP!Drain, Asked!Take, AP!Take, Asked!shared, AP!shared,
         Asked!producers, AP!producers
<1>4. Asked!Next <=> AP!Next
  BY <1>2, <1>3 DEF Asked!Next, AP!Next
<1>5. /\ AP!Messages = Messages /\ AP!Entries = Entries
      /\ \A o, k : AP!Entry(o, k) = Entry(o, k)
      /\ AP!Popped = Popped
  BY DEF AP!Messages, Messages, AP!Entries, Entries, AP!Entry, Entry, AP!Popped, Popped
<1>6. AP!TypeOK <=> TypeOK
  BY <1>5 DEF AP!TypeOK, TypeOK
<1>7. /\ AP!OnceInv <=> OnceInv
      /\ AP!HeadInv <=> HeadInv
      /\ AP!PushInv <=> PushInv
      /\ AP!LinkInv <=> LinkInv
  BY <1>5 DEF AP!OnceInv, OnceInv, AP!HeadInv, HeadInv, AP!PushInv, PushInv, AP!LinkInv, LinkInv
<1>8. /\ AP!TailInv <=> TailInv
      /\ AP!StorageInv <=> StorageInv
  BY <1>5 DEF AP!TailInv, TailInv, AP!StorageInv, StorageInv
<1>9. AP!IInv <=> IInv
  BY <1>6, <1>7, <1>8 DEF AP!IInv, IInv
<1>10. AP!vars = vars
  BY DEF AP!vars, vars, AP!shared, shared, AP!producers, producers, AP!consumer, consumer
<1>11. QED
  BY <1>1, <1>4, <1>9, <1>10

THEOREM MailInvariance == MCSpec => []IInv
<1> USE MaxPushAssumption, NamesAssumption
<1>1. MCInit => IInv
  BY SameMail, InitInv, AP!InitInv DEF MCInit
<1>2. IInv /\ [MCNext]_mcVars => IInv'
  <2> SUFFICES ASSUME IInv, [MCNext]_mcVars PROVE IInv'
    OBVIOUS
  <2>1. CASE [Next]_vars
    BY <2>1, NextInv
  <2>2. CASE Asked!Next
    <3>1. AP!IInv'
      BY <2>2, SameMail, AP!NextInv
    <3>2. AP!IInv' <=> IInv'
      BY SameMail, PTL
    <3>3. QED
      BY <3>1, <3>2
  <2>3. QED
    BY <2>1, <2>2 DEF MCNext, mcVars
<1>3. QED
  BY <1>1, <1>2, PTL DEF MCSpec

\* Messages come out in the order in which they took the head, each once; nobody
\* reaches an entry that was deleted; and only a push in progress hides messages
\* (mailbox.h:204-255): for any number of producers and of messages, whether the
\* consumer sleeps on an eventfd or pops again and again.
THEOREM MailDelivered == MCSpec => [](InOrder /\ NoUseAfterFree /\ Hidden)
BY MailInvariance, InvInOrder, InvNoUseAfterFree, InvHidden, PTL

-----------------------------------------------------------------------------
(* The bounded queue.                                                      *)

\* The two instances of the queue are one.
LEMMA SameBounded ==
  /\ Bounded!Init <=> BP!Init
  /\ Bounded!Next <=> BP!Next
<1>1. Bounded!Init <=> BP!Init
  BY DEF Bounded!Init, BP!Init, Bounded!Cells, BP!Cells
<1>2. ASSUME NEW t \in Callers
      PROVE  (Bounded!enqueue(t) <=> BP!enqueue(t)) /\ (Bounded!dequeue(t) <=> BP!dequeue(t))
  BY DEF Bounded!enqueue, Bounded!dequeue, Bounded!Begin, Bounded!Idle, Bounded!Go,
         Bounded!queue, Bounded!history,
         BP!enqueue, BP!dequeue, BP!Begin, BP!Idle, BP!Go, BP!queue, BP!history
<1>3. ASSUME NEW t \in Callers
      PROVE  (Bounded!Looking(t) <=> BP!Looking(t)) /\ Bounded!Diff(t) = BP!Diff(t)
  BY DEF Bounded!Looking, Bounded!Diff, Bounded!Turn, Bounded!cell,
         BP!Looking, BP!Diff, BP!Turn, BP!cell
<1>4. ASSUME NEW t \in Callers
      PROVE  /\ Bounded!Refused(t) <=> BP!Refused(t)
             /\ Bounded!Reload(t) <=> BP!Reload(t)
             /\ Bounded!MyTurn(t) <=> BP!MyTurn(t)
  BY <1>3 DEF Bounded!Refused, Bounded!Reload, Bounded!MyTurn, Bounded!Return, Bounded!Go,
              Bounded!queue, Bounded!history,
              BP!Refused, BP!Reload, BP!MyTurn, BP!Return, BP!Go, BP!queue, BP!history
<1>5. ASSUME NEW t \in Callers
      PROVE  (Bounded!Claim(t) <=> BP!Claim(t)) /\ (Bounded!ClaimFails(t) <=> BP!ClaimFails(t))
  BY DEF Bounded!Claim, Bounded!ClaimFails, Bounded!Go, Bounded!queue, Bounded!history,
         BP!Claim, BP!ClaimFails, BP!Go, BP!queue, BP!history
<1>6. ASSUME NEW t \in Callers
      PROVE  (Bounded!Move(t) <=> BP!Move(t)) /\ (Bounded!HandOver(t) <=> BP!HandOver(t))
  BY DEF Bounded!Move, Bounded!Access, Bounded!HandOver, Bounded!NextTurn, Bounded!Go,
         Bounded!Return, Bounded!cell, Bounded!history,
         BP!Move, BP!Access, BP!HandOver, BP!NextTurn, BP!Go, BP!Return, BP!cell, BP!history
<1>7. QED
  BY <1>1, <1>2, <1>4, <1>5, <1>6 DEF Bounded!Next, Bounded!Work, BP!Next, BP!Work

LEMMA BoundedStep == [MCNext]_mcVars => [BP!Next]_(BP!vars)
<1> SUFFICES ASSUME [MCNext]_mcVars PROVE BP!Next \/ UNCHANGED BP!vars
  OBVIOUS
<1>1. Bounded!Next \/ UNCHANGED boundedVars
  BY DEF MCNext, mcVars
<1>2. QED
  BY <1>1, SameBounded DEF boundedVars, BP!vars, BP!queue, BP!history

THEOREM BoundedInvariance == MCSpec => []BP!IInv
<1>1. MCInit => BP!IInv
  BY Legal, SameBounded, BP!InitInv DEF MCInit
<1>2. BP!IInv /\ [MCNext]_mcVars => BP!IInv'
  BY Legal, BoundedStep, BP!NextInv
<1>3. QED
  BY <1>1, <1>2, PTL DEF MCSpec

\* Of the bounded queue no cell is accessed by two threads at once, and what is
\* read with a ticket is what was stored with it, once (mailbox.h:374-419):
\* however many threads there are, and cells, two or more.
THEOREM QueueHands == MCSpec => []Handed
<1>1. BP!IInv => Bounded!Exclusive /\ Bounded!Handed
  <2>1. BP!Exclusive <=> Bounded!Exclusive
    BY DEF BP!Exclusive, Bounded!Exclusive, BP!cell, Bounded!cell
  <2>2. BP!Handed <=> Bounded!Handed
    BY DEF BP!Handed, Bounded!Handed
  <2>3. QED
    BY <2>1, <2>2, Legal, BP!InvExclusive, BP!InvHanded
<1>2. QED
  BY <1>1, BoundedInvariance, PTL DEF Handed

\* A call of the bounded queue that no other runs beside is refused only by a
\* full queue, or by an empty one (mailbox.h:387 and 409-410).
THEOREM QueueRefuses == MCSpec => RefusedRightly
<1> DEFINE Right == \A t \in Callers :
                      ~Bounded!Idle(t) /\ Bounded!Return(t, "false") /\ Bounded!Alone(t) =>
                        enqueueIndex - dequeueIndex = IF at[t] = "enqueue" THEN QueueSize ELSE 0
<1>1. BP!IInv /\ [MCNext]_mcVars => [Right]_(Bounded!vars)
  <2> SUFFICES ASSUME BP!IInv, [MCNext]_mcVars PROVE [Right]_(Bounded!vars)
    OBVIOUS
  <2>1. [BP!RefusesRightly]_(BP!vars)
    BY Legal, BoundedStep, BP!RefusalStep
  <2>2. BP!RefusesRightly <=> Right
    BY DEF BP!RefusesRightly, BP!Idle, BP!Return, BP!Go, BP!Alone,
           Bounded!Idle, Bounded!Return, Bounded!Go, Bounded!Alone
  <2>3. UNCHANGED BP!vars <=> UNCHANGED Bounded!vars
    BY DEF BP!vars, BP!queue, BP!history, Bounded!vars, Bounded!queue, Bounded!history
  <2>4. QED
    BY <2>1, <2>2, <2>3
<1>2. QED
  BY <1>1, BoundedInvariance, PTL DEF MCSpec, RefusedRightly, Bounded!RefusedRightly

-----------------------------------------------------------------------------
(* Promises.                                                               *)

LEMMA SameRules ==
  /\ Rules!Init <=> PP!Init
  /\ Rules!Next <=> PP!Next
<1>1. Rules!Cores = PP!Cores /\ Rules!Kinds = PP!Kinds
  BY DEF Rules!Cores, PP!Cores, Rules!Kinds, PP!Kinds
<1>2. Rules!Init <=> PP!Init
  BY <1>1 DEF Rules!Init, PP!Init
<1>3. ASSUME NEW t
      PROVE  /\ Rules!SettleLocked(t) <=> PP!SettleLocked(t)
             /\ Rules!EachRequest(t) <=> PP!EachRequest(t)
             /\ Rules!CallTwice(t) <=> PP!CallTwice(t)
  BY <1>1 DEF Rules!SettleLocked, PP!SettleLocked, Rules!EachRequest, PP!EachRequest,
      Rules!CallTwice, PP!CallTwice, Rules!CalledBefore, PP!CalledBefore, Rules!Throw,
      PP!Throw, Rules!SettledBy, PP!SettledBy, Rules!Each, PP!Each, Rules!Call, PP!Call,
      Rules!At, PP!At, Rules!Idle, PP!Idle, Rules!Top, PP!Top, Rules!Return, PP!Return,
      Rules!Replace, PP!Replace
<1>4. ASSUME NEW t
      PROVE  /\ Rules!ResolveVoid(t) <=> PP!ResolveVoid(t)
             /\ Rules!ResolveValue(t) <=> PP!ResolveValue(t)
             /\ Rules!RunChainer(t) <=> PP!RunChainer(t)
             /\ Rules!RejectRethrow(t) <=> PP!RejectRethrow(t)
             /\ Rules!Reject(t) <=> PP!Reject(t)
  BY <1>1 DEF Rules!ResolveVoid, PP!ResolveVoid, Rules!ResolveValue, PP!ResolveValue,
      Rules!RunChainer, PP!RunChainer, Rules!RejectRethrow, PP!RejectRethrow, Rules!Reject,
      PP!Reject, Rules!Chain, PP!Chain, Rules!SettledBy, PP!SettledBy, Rules!Each, PP!Each,
      Rules!Runs, PP!Runs, Rules!CalledBefore, PP!CalledBefore, Rules!TopKind, PP!TopKind,
      Rules!Called, PP!Called, Rules!At, PP!At, Rules!Idle, PP!Idle, Rules!Top, PP!Top,
      Rules!Return, PP!Return, Rules!Replace, PP!Replace
<1>5. ASSUME NEW t PROVE Rules!ResolvePromise(t) <=> PP!ResolvePromise(t)
  BY <1>1 DEF Rules!ResolvePromise, PP!ResolvePromise, Rules!Least, PP!Least, Rules!Free,
      PP!Free, Rules!Then, PP!Then, Rules!Runs, PP!Runs, Rules!CalledBefore, PP!CalledBefore,
      Rules!TopKind, PP!TopKind, Rules!Called, PP!Called, Rules!At, PP!At, Rules!Idle,
      PP!Idle, Rules!Top, PP!Top, Rules!Return, PP!Return, Rules!Replace, PP!Replace
<1>6. ASSUME NEW t
      PROVE  /\ Rules!EndCall(t) <=> PP!EndCall(t)
             /\ Rules!ThenLocked(t) <=> PP!ThenLocked(t)
             /\ Rules!PushBack(t) <=> PP!PushBack(t)
  BY <1>1 DEF Rules!EndCall, PP!EndCall, Rules!ThenLocked, PP!ThenLocked, Rules!PushBack,
      PP!PushBack, Rules!Call, PP!Call, Rules!Attach, PP!Attach, Rules!cores, PP!cores,
      Rules!At, PP!At, Rules!Idle, PP!Idle, Rules!Top, PP!Top, Rules!Return, PP!Return,
      Rules!Replace, PP!Replace
<1>7. ASSUME NEW t, NEW c, NEW how PROVE Rules!Begin(t, c, how) <=> PP!Begin(t, c, how)
  BY <1>1 DEF Rules!Begin, PP!Begin, Rules!MaySettle, PP!MaySettle, Rules!OnChain, PP!OnChain,
      Rules!Idle, PP!Idle, Rules!Settle, PP!Settle, Rules!cores, PP!cores
<1>8. ASSUME NEW t, NEW c, NEW kind, NEW handler
      PROVE  Rules!NewThen(t, c, kind, handler) <=> PP!NewThen(t, c, kind, handler)
  <2>1. ASSUME NEW S PROVE Rules!Cardinality(S) = PP!Cardinality(S)
    BY DEF Rules!Cardinality, PP!Cardinality
  <2>2. Rules!Free = PP!Free /\ Rules!Reserved = PP!Reserved /\ Rules!Needed(kind) = PP!Needed(kind)
    BY <1>1, <2>1 DEF Rules!Free, PP!Free, Rules!Reserved, PP!Reserved, Rules!Needed, PP!Needed
  <2>3. Rules!Least(Rules!Free) = PP!Least(PP!Free)
    BY <2>2 DEF Rules!Least, PP!Least
  <2>4. Rules!MayAttach(c) <=> PP!MayAttach(c)
    BY DEF Rules!MayAttach, PP!MayAttach, Rules!Idle, PP!Idle
  <2>5. QED
    BY <2>1, <2>2, <2>3, <2>4 DEF Rules!NewThen, PP!NewThen, Rules!Idle, PP!Idle, Rules!Then, PP!Then
<1>9. Rules!Cores = PP!Cores /\ \A t : Rules!Continue(t) <=> PP!Continue(t)
  BY <1>1, <1>3, <1>4, <1>5, <1>6 DEF Rules!Continue, PP!Continue
<1>10. ASSUME NEW t PROVE Rules!Start(t) <=> PP!Start(t)
  BY <1>1, <1>7, <1>8 DEF Rules!Start, PP!Start
<1>11. QED
  BY <1>2, <1>9, <1>10 DEF Rules!Next, PP!Next

LEMMA RulesStep == [MCNext]_mcVars => [PP!Next]_(PP!vars)
<1> SUFFICES ASSUME [MCNext]_mcVars PROVE PP!Next \/ UNCHANGED PP!vars
  OBVIOUS
<1>1. Rules!Next \/ UNCHANGED promiseVars
  BY DEF MCNext, mcVars
<1>2. QED
  BY <1>1, SameRules DEF promiseVars, PP!vars, PP!cores

THEOREM PromiseInvariance == MCSpec => []PP!IInv
<1>1. MCInit => PP!IInv
  BY Legal, SameRules, PP!InitInv DEF MCInit
<1>2. PP!IInv /\ [MCNext]_mcVars => PP!IInv'
  BY Legal, RulesStep, PP!NextInv
<1>3. QED
  BY <1>1, <1>2, PTL DEF MCSpec

\* Callbacks run once, are never forgotten and tell what hangs on them, values
\* and exceptions that are thrown on alike; using a promise by its rules ends in
\* no Error (async.h:186-196, 289-312, 1052-1060): whoever settles, attaches and
\* calls what, and however many promises there are.
THEOREM PromisesTold == MCSpec => []Told
<1>1. PP!IInv => Rules!RunOnce /\ Rules!NoneLost /\ Rules!Follows /\ Rules!NoErrors
  <2>1. Rules!Cores = PP!Cores /\ Rules!Kinds = PP!Kinds
    BY DEF Rules!Cores, PP!Cores, Rules!Kinds, PP!Kinds
  <2>2. \A c, t : /\ Rules!Settled(c) <=> PP!Settled(c)
                  /\ Rules!Idle(t) <=> PP!Idle(t)
    BY DEF Rules!Settled, PP!Settled, Rules!Idle, PP!Idle
  <2>3. PP!RunOnce <=> Rules!RunOnce
    BY <2>1 DEF PP!RunOnce, Rules!RunOnce
  <2>4. PP!NoneLost <=> Rules!NoneLost
    BY <2>1, <2>2 DEF PP!NoneLost, Rules!NoneLost, PP!ToSet, Rules!ToSet
  <2>5. PP!Follows <=> Rules!Follows
    BY <2>1, <2>2 DEF PP!Follows, Rules!Follows
  <2>6. PP!NoErrors <=> Rules!NoErrors
    BY DEF PP!NoErrors, Rules!NoErrors
  <2>7. PP!IInv => PP!NoErrors
    BY DEF PP!IInv
  <2>8. QED
    BY <2>3, <2>4, <2>5, <2>6, <2>7, PP!InvRunOnce, PP!InvNoneLost, PP!InvFollows
<1>2. QED
  BY <1>1, PromiseInvariance, PTL DEF Told

-----------------------------------------------------------------------------
(* Promises put together.                                                  *)

\* A continuation runs once, and who has run is told apart from who has not by
\* what is settled, attached and not waiting.  The data of a policy count those
\* that have run: all have a value just when as many have run as there are, and
\* none can come after that.

\* The promises whose continuation has run.
Ran == {i \in Several!Inputs : i <= attached /\ Several!Settled(i) /\ i \notin waiting}

-----------------------------------------------------------------------------
(* The inductive invariant, in parts.                                      *)

TotalInv == policy \in {"all", "any", "range"} /\ total \in 1..MaxInputs

\* What waits was attached and is settled; somebody is first once one has run.
WaitInv ==
  /\ \A i \in waiting : i <= attached /\ Several!Settled(i)
  /\ first # None => first \in Ran
  /\ first = None => Ran = {}

\* Nothing is given, and nothing thrown, before the result is settled, and what
\* settled it has run.
OutcomeInv ==
  /\ outcome = "pending" => taken = {} /\ thrown = {}
  /\ outcome # "pending" => \A i \in taken : i \in Ran /\ input[i] = outcome
  /\ \A i \in thrown : policy # "range" /\ i \in Ran /\ input[i] = "rejected" /\ i \notin taken

\* All of them: the values counted are those of promises that have run, the
\* result is an exception just when one was seen, and values when all are there.
AllInv ==
  policy # "any" =>
    /\ \A i \in results : i \in Ran /\ input[i] = "fulfilled"
    /\ resolved = Cardinality(results)
    /\ rejected <=> outcome = "rejected"
    /\ outcome = "fulfilled" => results = Several!Inputs /\ taken = Several!Inputs

\* Any of them: the first that ran has settled it.
AnyInv ==
  policy = "any" =>
    /\ done <=> outcome # "pending"
    /\ done <=> first # None
    /\ done => taken = {first}

WhenInv == Several!TypeOK /\ TotalInv /\ WaitInv /\ OutcomeInv /\ AllInv /\ AnyInv

-----------------------------------------------------------------------------
(* Promises are settled and continuations attached.                        *)

LEMMA WhenInit == Several!Init => WhenInv
<1> SUFFICES ASSUME Several!Init PROVE WhenInv
  OBVIOUS
<1>1. TotalInv /\ Ran = {} /\ total \in Nat
  BY SizesAssumption DEF Several!Init, TotalInv, Ran, Several!Inputs, Several!Settled
<1>2. Several!TypeOK
  <2>1. rejected = FALSE /\ done = FALSE
    BY DEF Several!Init
  <2>2. {rejected, done} \subseteq BOOLEAN
    BY <2>1
  <2>3. input \in [Several!Inputs -> {"pending", "fulfilled", "rejected"}]
    BY DEF Several!Init
  <2>4. QED
    BY <1>1, <2>2, <2>3 DEF Several!Init, Several!TypeOK
<1>3. WaitInv /\ OutcomeInv /\ AnyInv
  BY <1>1 DEF Several!Init, WaitInv, OutcomeInv, AnyInv
<1>4. AllInv
  BY FS_EmptySet DEF Several!Init, AllInv
<1>5. QED
  BY <1>1, <1>2, <1>3, <1>4 DEF WhenInv

\* Steps that run no continuation: what ran stays what it is.
LEMMA UntouchedStep ==
  ASSUME WhenInv, Ran' = Ran, WaitInv', Several!TypeOK', \A i \in Ran : input'[i] = input[i],
         UNCHANGED <<policy, total, resolved, rejected, done, results, outcome, taken, thrown,
                     first>>
  PROVE  WhenInv'
<1>1. TotalInv /\ OutcomeInv /\ AllInv /\ AnyInv /\ Several!Inputs' = Several!Inputs
  BY DEF WhenInv, Several!Inputs
<1>2. TotalInv'
  BY <1>1 DEF TotalInv
<1>3. OutcomeInv'
  BY <1>1 DEF OutcomeInv
<1>4. AllInv'
  BY <1>1 DEF AllInv
<1>5. AnyInv'
  BY <1>1 DEF AnyInv
<1>6. QED
  BY <1>2, <1>3, <1>4, <1>5 DEF WhenInv

LEMMA SettleStep ==
  ASSUME WhenInv, NEW i \in Several!Inputs, NEW how \in {"fulfilled", "rejected"},
         Several!Settle(i, how)
  PROVE  WhenInv'
<1>1. Several!TypeOK /\ TotalInv /\ WaitInv
  BY DEF WhenInv
<1>2. /\ input[i] = "pending" /\ input' = [input EXCEPT ![i] = how]
      /\ waiting' = IF i <= attached THEN waiting \cup {i} ELSE waiting
      /\ UNCHANGED <<policy, total, attached, resolved, rejected, done, results, outcome,
                     taken, thrown, first>>
  BY DEF Several!Settle, Several!data
<1>3. /\ \A j \in Several!Inputs : j # i => input'[j] = input[j]
      /\ input'[i] = how /\ Several!Inputs' = Several!Inputs
      /\ i \notin waiting /\ waiting \subseteq Several!Inputs
  BY <1>1, <1>2 DEF Several!TypeOK, WaitInv, Several!Settled, Several!Inputs
<1>4. Several!TypeOK'
  BY <1>1, <1>2, <1>3 DEF Several!TypeOK
<1>5. Ran' = Ran /\ \A j \in Ran : input'[j] = input[j]
  BY <1>2, <1>3 DEF Ran, Several!Settled
<1>6. WaitInv'
  BY <1>1, <1>2, <1>3, <1>5 DEF WaitInv, Several!Settled
<1>7. QED
  BY <1>2, <1>4, <1>5, <1>6, UntouchedStep

LEMMA AttachStep ==
  ASSUME WhenInv, Several!Attach
  PROVE  WhenInv'
<1>1. Several!TypeOK /\ TotalInv /\ WaitInv
  BY DEF WhenInv
<1>2. /\ attached < total /\ attached' = attached + 1
      /\ waiting' = IF Several!Settled(attached + 1) THEN waiting \cup {attached + 1} ELSE waiting
      /\ UNCHANGED <<policy, total, input, resolved, rejected, done, results, outcome,
                     taken, thrown, first>>
  BY DEF Several!Attach, Several!data, Several!Settled
<1>3. /\ attached \in Nat /\ total \in Nat /\ waiting \subseteq Several!Inputs
      /\ attached + 1 \in Several!Inputs /\ Several!Inputs' = Several!Inputs
      /\ \A i \in Several!Inputs : i \in Nat /\ (Several!Settled(i)' <=> Several!Settled(i))
  BY <1>1, <1>2 DEF Several!TypeOK, TotalInv, Several!Inputs, Several!Settled
<1>4. Several!TypeOK'
  BY <1>1, <1>2, <1>3 DEF Several!TypeOK
<1>5. Ran' = Ran
  BY <1>1, <1>2, <1>3 DEF Ran, WaitInv
<1>6. WaitInv'
  BY <1>1, <1>2, <1>3, <1>5 DEF WaitInv
<1>7. QED
  BY <1>2, <1>4, <1>5, <1>6, UntouchedStep

-----------------------------------------------------------------------------
(* Continuations run.                                                      *)

\* The one that runs has not run before, and nothing else changes but that.
LEMMA RunStep ==
  ASSUME WhenInv, NEW i \in Several!Inputs, Several!Runs(i)
  PROVE  /\ i \notin Ran /\ Ran' = Ran \cup {i} /\ Several!Inputs' = Several!Inputs
         /\ Several!Settled(i) /\ WaitInv' /\ TotalInv'
         /\ UNCHANGED <<policy, total, input, attached>>
         /\ waiting' \subseteq Several!Inputs /\ first' \in Several!Inputs
         /\ first = None => first' = i
         /\ first # None => first' = first
         /\ Ran \subseteq Several!Inputs /\ Ran' \subseteq Several!Inputs
<1>1. Several!TypeOK /\ TotalInv /\ WaitInv
  BY DEF WhenInv
<1>2. /\ i \in waiting /\ waiting' = waiting \ {i}
      /\ first' = IF first = None THEN i ELSE first
      /\ UNCHANGED <<policy, total, input, attached>>
  BY DEF Several!Runs
<1>3. Several!Inputs' = Several!Inputs /\ i <= attached /\ Several!Settled(i) /\ i # None
  BY <1>1, <1>2, SizesAssumption DEF Several!Inputs, WaitInv, TotalInv
<1>4. i \notin Ran /\ Ran' = Ran \cup {i}
  BY <1>2, <1>3 DEF Ran, Several!Settled
<1>5. WaitInv'
  BY <1>1, <1>2, <1>3, <1>4 DEF WaitInv, Several!Settled
<1>6. TotalInv'
  BY <1>1, <1>2 DEF TotalInv
<1>7. QED
  BY <1>1, <1>2, <1>3, <1>4, <1>5, <1>6 DEF Several!TypeOK, Ran

\* A continuation that settles the result, or comes too late and throws.
LEMMA SettleResultStep ==
  ASSUME WhenInv, NEW i, NEW how, NEW values, Several!SettleResult(how, values, i)
  PROVE  \/ /\ outcome = "pending" /\ outcome' = how /\ taken' = values
            /\ thrown' = thrown /\ taken = {} /\ thrown = {}
         \/ /\ outcome # "pending" /\ outcome' = outcome /\ taken' = taken
            /\ thrown' = thrown \cup {i}
BY DEF Several!SettleResult, WhenInv, OutcomeInv

LEMMA ResolveAllStep ==
  ASSUME WhenInv, NEW i \in Several!Inputs, Several!ResolveAll(i)
  PROVE  WhenInv'
<1>1. Several!TypeOK /\ TotalInv /\ OutcomeInv /\ AllInv /\ AnyInv /\ policy # "any"
  BY DEF WhenInv, Several!ResolveAll
<1>2. /\ i \notin Ran /\ Ran' = Ran \cup {i} /\ Several!Inputs' = Several!Inputs
      /\ WaitInv' /\ TotalInv'
      /\ input[i] = "fulfilled" /\ UNCHANGED <<policy, total, input, attached>>
      /\ waiting' \subseteq Several!Inputs /\ first' \in Several!Inputs
  BY RunStep DEF Several!ResolveAll
<1>3. total \in Nat /\ IsFiniteSet(Several!Inputs) /\ Cardinality(Several!Inputs) = total
  BY <1>1, FS_Interval DEF TotalInv, Several!Inputs
<1>4. IsFiniteSet(results) /\ i \notin results /\ results \subseteq Several!Inputs
  BY <1>1, <1>2, <1>3, FS_Subset DEF AllInv, Several!TypeOK
<1>5. outcome # "fulfilled"
  BY <1>1, <1>4 DEF AllInv
<1>6. CASE rejected
  <2>1. UNCHANGED <<resolved, rejected, done, results, outcome, taken, thrown>>
    BY <1>6 DEF Several!ResolveAll, Several!data
  <2>2. Several!TypeOK'
    BY <1>1, <1>2, <2>1 DEF Several!TypeOK
  <2>3. OutcomeInv'
    BY <1>1, <1>2, <2>1 DEF OutcomeInv
  <2>4. AllInv'
    BY <1>1, <1>2, <2>1 DEF AllInv
  <2>5. AnyInv'
    BY <1>1, <1>2 DEF AnyInv
  <2>6. QED
    BY <1>2, <2>2, <2>3, <2>4, <2>5 DEF WhenInv
<1>7. CASE ~rejected
  <2>1. /\ results' = results \cup {i} /\ resolved' = resolved + 1
        /\ IF resolved' = total THEN Several!SettleResult("fulfilled", results', i)
           ELSE UNCHANGED <<outcome, taken, thrown>>
        /\ rejected' = rejected /\ done' = done
    BY <1>7 DEF Several!ResolveAll, Several!AllDone
  <2>2. outcome = "pending" /\ taken = {} /\ thrown = {}
    BY <1>1, <1>5, <1>7 DEF AllInv, Several!TypeOK, OutcomeInv
  <2>3. /\ resolved' = Cardinality(results') /\ IsFiniteSet(results')
        /\ results' \subseteq Several!Inputs
    BY <1>1, <1>4, <2>1, FS_AddElement DEF AllInv
  <2>4. resolved' \in 0..total /\ (resolved' = total => results' = Several!Inputs)
    BY <1>3, <2>3, FS_Subset, FS_CardinalityType
  <2>5. \A j \in results' : j \in Ran' /\ input'[j] = "fulfilled"
    BY <1>1, <1>2, <2>1 DEF AllInv
  <2>6. /\ thrown' = {}
        /\ \/ outcome' = "pending" /\ taken' = {}
           \/ outcome' = "fulfilled" /\ taken' = Several!Inputs /\ results' = Several!Inputs
    BY <2>1, <2>2, <2>4 DEF Several!SettleResult
  <2>7. Several!TypeOK'
    BY <1>1, <1>2, <2>1, <2>3, <2>4, <2>6 DEF Several!TypeOK
  <2>8. OutcomeInv'
    BY <2>5, <2>6 DEF OutcomeInv
  <2>9. AllInv'
    <3>1. rejected' <=> outcome' = "rejected"
      BY <1>7, <2>1, <2>6
    <3>2. QED
      BY <1>2, <2>3, <2>5, <2>6, <3>1 DEF AllInv
  <2>10. AnyInv'
    BY <1>1, <1>2 DEF AnyInv
  <2>11. QED
    BY <1>2, <2>7, <2>8, <2>9, <2>10 DEF WhenInv
<1>8. QED
  BY <1>6, <1>7

LEMMA ResolveAnyStep ==
  ASSUME WhenInv, NEW i \in Several!Inputs, Several!ResolveAny(i)
  PROVE  WhenInv'
<1>1. Several!TypeOK /\ TotalInv /\ WaitInv /\ OutcomeInv /\ AllInv /\ AnyInv /\ policy = "any"
  BY DEF WhenInv, Several!ResolveAny
<1>2. /\ i \notin Ran /\ Ran' = Ran \cup {i} /\ Several!Inputs' = Several!Inputs
      /\ WaitInv' /\ TotalInv'
      /\ input[i] = "fulfilled" /\ UNCHANGED <<policy, total, input, attached>>
      /\ waiting' \subseteq Several!Inputs /\ first' \in Several!Inputs
      /\ first = None => first' = i
      /\ first # None => first' = first
  BY RunStep DEF Several!ResolveAny
<1>3. None \notin Several!Inputs
  BY <1>1, SizesAssumption DEF TotalInv, Several!Inputs
<1>4. CASE done
  <2>1. UNCHANGED <<resolved, rejected, done, results, outcome, taken, thrown>>
    BY <1>4 DEF Several!ResolveAny, Several!data
  <2>2. Several!TypeOK'
    BY <1>1, <1>2, <2>1 DEF Several!TypeOK
  <2>3. OutcomeInv'
    BY <1>1, <1>2, <2>1 DEF OutcomeInv
  <2>4. AnyInv'
    BY <1>1, <1>2, <1>4, <2>1 DEF AnyInv
  <2>5. AllInv'
    BY <1>1, <1>2 DEF AllInv
  <2>6. QED
    BY <1>2, <2>2, <2>3, <2>4, <2>5 DEF WhenInv
<1>5. CASE ~done
  <2>1. /\ outcome = "pending" /\ first = None
    BY <1>1, <1>5 DEF AnyInv, Several!TypeOK
  <2>2. /\ outcome' = "fulfilled" /\ taken' = {i} /\ thrown' = thrown /\ thrown = {}
        /\ done' = TRUE /\ UNCHANGED <<resolved, rejected, results>>
    BY <1>1, <1>5, <2>1 DEF Several!ResolveAny, Several!SettleResult, OutcomeInv
  <2>3. Several!TypeOK'
    BY <1>1, <1>2, <2>2 DEF Several!TypeOK
  <2>4. OutcomeInv'
    BY <1>1, <1>2, <2>2 DEF OutcomeInv
  <2>5. AnyInv'
    BY <1>2, <1>3, <2>1, <2>2 DEF AnyInv
  <2>6. AllInv'
    BY <1>1, <1>2 DEF AllInv
  <2>7. QED
    BY <1>2, <2>3, <2>4, <2>5, <2>6 DEF WhenInv
<1>6. QED
  BY <1>4, <1>5

LEMMA RejectPolicyStep ==
  ASSUME WhenInv, NEW i \in Several!Inputs, Several!RejectPolicy(i)
  PROVE  WhenInv'
<1>1. Several!TypeOK /\ TotalInv /\ WaitInv /\ OutcomeInv /\ AllInv /\ AnyInv
      /\ policy \in {"all", "any"}
  BY DEF WhenInv, Several!RejectPolicy, TotalInv
<1>2. /\ i \notin Ran /\ Ran' = Ran \cup {i} /\ Several!Inputs' = Several!Inputs
      /\ WaitInv' /\ TotalInv'
      /\ input[i] = "rejected" /\ UNCHANGED <<policy, total, input, attached>>
      /\ waiting' \subseteq Several!Inputs /\ first' \in Several!Inputs
      /\ first = None => first' = i
      /\ first # None => first' = first
      /\ Ran \subseteq Several!Inputs
  BY RunStep DEF Several!RejectPolicy
<1>3. /\ rejected' = (policy = "all" \/ rejected) /\ done' = (policy = "any" \/ done)
      /\ Several!SettleResult("rejected", {i}, i)
      /\ UNCHANGED <<resolved, results>>
  BY DEF Several!RejectPolicy
<1>4. None \notin Several!Inputs
  BY <1>1, SizesAssumption DEF TotalInv, Several!Inputs
<1>5. \/ /\ outcome = "pending" /\ outcome' = "rejected" /\ taken' = {i}
         /\ thrown' = {} /\ taken = {}
      \/ /\ outcome # "pending" /\ outcome' = outcome /\ taken' = taken
         /\ thrown' = thrown \cup {i}
  BY <1>3, SettleResultStep
<1>6. i \notin taken
  BY <1>1, <1>2 DEF OutcomeInv
<1>7. Several!TypeOK'
  <2>1. {rejected', done'} \subseteq BOOLEAN
    BY <1>3
  <2>2. /\ outcome' \in {"pending", "fulfilled", "rejected"}
        /\ taken' \subseteq Several!Inputs /\ thrown' \subseteq Several!Inputs
    BY <1>1, <1>5 DEF Several!TypeOK
  <2>3. QED
    BY <1>1, <1>2, <1>3, <2>1, <2>2 DEF Several!TypeOK
<1>8. OutcomeInv'
  <2>1. ASSUME NEW j \in thrown'
        PROVE  policy # "range" /\ j \in Ran' /\ input[j] = "rejected" /\ j \notin taken'
    BY <1>1, <1>2, <1>5, <1>6, <2>1 DEF OutcomeInv
  <2>2. ASSUME NEW j \in taken' PROVE j \in Ran' /\ input[j] = outcome'
    BY <1>1, <1>2, <1>5 DEF OutcomeInv
  <2>3. outcome' # "pending"
    BY <1>5
  <2>4. QED
    BY <1>2, <2>1, <2>2, <2>3 DEF OutcomeInv
<1>9. CASE policy = "all"
  <2>1. outcome # "fulfilled"
    BY <1>1, <1>2, <1>9 DEF AllInv
  <2>2. outcome' = "rejected" /\ rejected'
    BY <1>1, <1>3, <1>5, <1>9, <2>1 DEF Several!TypeOK
  <2>3. AllInv'
    BY <1>1, <1>2, <1>3, <1>9, <2>2 DEF AllInv
  <2>4. AnyInv'
    BY <1>2, <1>9 DEF AnyInv
  <2>5. QED
    BY <1>2, <1>7, <1>8, <2>3, <2>4 DEF WhenInv
<1>10. CASE policy = "any"
  <2>1. done'
    BY <1>3, <1>10
  <2>2. first' # None /\ taken' = {first'}
    <3>1. CASE outcome = "pending"
      BY <1>1, <1>2, <1>4, <1>5, <1>10, <3>1 DEF AnyInv
    <3>2. CASE outcome # "pending"
      BY <1>1, <1>2, <1>4, <1>5, <1>10, <3>2 DEF AnyInv
    <3>3. QED
      BY <3>1, <3>2
  <2>3. outcome' # "pending"
    BY <1>5
  <2>4. AnyInv'
    BY <2>1, <2>2, <2>3 DEF AnyInv
  <2>5. AllInv'
    BY <1>2, <1>10 DEF AllInv
  <2>6. QED
    BY <1>2, <1>7, <1>8, <2>4, <2>5 DEF WhenInv
<1>11. QED
  BY <1>1, <1>9, <1>10

LEMMA RejectRangeStep ==
  ASSUME WhenInv, NEW i \in Several!Inputs, Several!RejectRange(i)
  PROVE  WhenInv'
<1>1. Several!TypeOK /\ TotalInv /\ WaitInv /\ OutcomeInv /\ AllInv /\ AnyInv /\ policy = "range"
  BY DEF WhenInv, Several!RejectRange
<1>2. /\ i \notin Ran /\ Ran' = Ran \cup {i} /\ Several!Inputs' = Several!Inputs
      /\ WaitInv' /\ TotalInv'
      /\ input[i] = "rejected" /\ UNCHANGED <<policy, total, input, attached>>
      /\ waiting' \subseteq Several!Inputs /\ first' \in Several!Inputs
  BY RunStep DEF Several!RejectRange
<1>3. /\ rejected' = TRUE
      /\ IF rejected THEN UNCHANGED <<outcome, taken, thrown>>
         ELSE Several!SettleResult("rejected", {i}, i)
      /\ UNCHANGED <<resolved, done, results>>
  BY DEF Several!RejectRange
<1>4. outcome # "fulfilled"
  BY <1>1, <1>2 DEF AllInv
<1>5. thrown = {}
  BY <1>1 DEF OutcomeInv
<1>6. /\ outcome' = "rejected" /\ thrown' = {}
      /\ (taken' = taken /\ outcome = "rejected") \/ taken' = {i}
  <2>1. CASE rejected
    BY <1>1, <1>3, <1>5, <2>1 DEF AllInv
  <2>2. CASE ~rejected
    <3>1. outcome = "pending"
      BY <1>1, <1>4, <2>2 DEF AllInv, Several!TypeOK
    <3>2. QED
      BY <1>3, <1>5, <2>2, <3>1 DEF Several!SettleResult
  <2>3. QED
    BY <2>1, <2>2
<1>7. Several!TypeOK'
  <2>1. {rejected', done'} \subseteq BOOLEAN
    BY <1>1, <1>3 DEF Several!TypeOK
  <2>2. QED
    BY <1>1, <1>2, <1>3, <1>6, <2>1 DEF Several!TypeOK
<1>8. OutcomeInv'
  BY <1>1, <1>2, <1>6 DEF OutcomeInv
<1>9. AllInv'
  BY <1>1, <1>2, <1>3, <1>6 DEF AllInv
<1>10. AnyInv'
  BY <1>1, <1>2 DEF AnyInv
<1>11. QED
  BY <1>2, <1>7, <1>8, <1>9, <1>10 DEF WhenInv

LEMMA WhenNext == WhenInv /\ [Several!Next]_(Several!vars) => WhenInv'
<1> SUFFICES ASSUME WhenInv, [Several!Next]_(Several!vars) PROVE WhenInv'
  OBVIOUS
<1>1. CASE UNCHANGED Several!vars
  <2>1. /\ UNCHANGED <<policy, total, input, attached, waiting, resolved, rejected, done, results,
                       outcome, taken, thrown, first>>
    BY <1>1 DEF Several!vars, Several!data
  <2>2. Several!TypeOK' /\ WaitInv' /\ Ran' = Ran
    BY <2>1 DEF WhenInv, Several!TypeOK, WaitInv, Ran, Several!Settled, Several!Inputs
  <2>3. QED
    BY <2>1, <2>2, UntouchedStep
<1>2. QED
  BY <1>1, AttachStep, SettleStep, ResolveAllStep, ResolveAnyStep, RejectPolicyStep,
     RejectRangeStep DEF Several!Next, Several!Continue

LEMMA WhenInvOutcome == WhenInv => Several!RightOutcome
<1> SUFFICES ASSUME WhenInv PROVE Several!RightOutcome
  OBVIOUS
<1>1. OutcomeInv /\ AllInv /\ AnyInv
  BY DEF WhenInv
<1>2. policy # "any" /\ outcome = "fulfilled" => taken = Several!Inputs
  BY <1>1 DEF AllInv
<1>3. outcome # "pending" => \A i \in taken : input[i] = outcome
  BY <1>1 DEF OutcomeInv
<1>4. policy = "any" /\ outcome # "pending" => taken = {first}
  BY <1>1 DEF AnyInv
<1>5. QED
  BY <1>2, <1>3, <1>4 DEF Several!RightOutcome

LEMMA WhenInvErrors == WhenInv => Several!ErrorOnlyForLateReject
BY DEF WhenInv, OutcomeInv, Several!ErrorOnlyForLateReject

LEMMA WhenStep == [MCNext]_mcVars => [Several!Next]_(Several!vars)
<1> SUFFICES ASSUME [MCNext]_mcVars PROVE Several!Next \/ UNCHANGED Several!vars
  OBVIOUS
<1>1. Several!Next \/ UNCHANGED whenVars
  BY DEF MCNext, mcVars
<1>2. QED
  BY <1>1 DEF whenVars, Several!vars, Several!data

THEOREM WhenInvariance == MCSpec => []WhenInv
<1>1. MCInit => WhenInv
  BY WhenInit DEF MCInit
<1>2. WhenInv /\ [MCNext]_mcVars => WhenInv'
  BY WhenStep, WhenNext
<1>3. QED
  BY <1>1, <1>2, PTL DEF MCSpec

\* Promises put together give all values, one exception or what came first, and
\* only an exception that comes too late ends in an Error (async.h:1190-1277):
\* however many they are.
THEOREM WhenGives == MCSpec => []RightOutcome
BY WhenInvOutcome, WhenInvErrors, WhenInvariance, PTL DEF RightOutcome

-----------------------------------------------------------------------------
(* Types.                                                                  *)

\* Whatever a behaviour is about, the variables of all modules keep their types.
THEOREM AllTypes == MCSpec => []Types
<1>1. IInv => TypeOK
  BY DEF IInv
<1>2. BP!IInv => Bounded!TypeOK
  BY DEF BP!IInv, BP!TypeOK, Bounded!TypeOK, BP!Cells, Bounded!Cells, BP!Values, Bounded!Values
<1>3. PP!IInv => Rules!TypeOK
  BY DEF PP!IInv, PP!TypeOK, Rules!TypeOK, PP!Cores, Rules!Cores, PP!Kinds, Rules!Kinds,
         PP!Handlers, Rules!Handlers
<1>4. WhenInv => Several!TypeOK
  BY DEF WhenInv
<1>5. IInv /\ BP!IInv /\ PP!IInv /\ WhenInv => Types
  BY <1>1, <1>2, <1>3, <1>4 DEF Types
<1>6. QED
  BY <1>5, MailInvariance, BoundedInvariance, PromiseInvariance, WhenInvariance, PTL
-----------------------------------------------------------------------------
(* The calendar of pistache/date.h.  Its days are computed in years that    *)
(* begin in March and eras of 400 of them (2549-2564, 2659-2676).           *)
INSTANCE Calendar

\* Of the years of an era those with 366 days; a year of an era and a day of it.
LongYear(yoe) == yoe % 4 = 3 /\ (yoe % 100 # 99 \/ yoe = 399)
InEra(yoe, doy) ==
  /\ yoe \in Nat /\ yoe <= 399 /\ doy \in Nat /\ doy <= 365
  /\ doy = 365 => LongYear(yoe)

\* A number has one quotient and one remainder.
LEMMA Quotient ==
  ASSUME NEW n \in Int, NEW a \in Int, NEW b \in Int, NEW k \in Nat, k > 0,
         n = k * a + b, 0 <= b, b < k
  PROVE  n \div k = a /\ n % k = b
OBVIOUS

\* The year of a day of an era (2670) is the one the day was counted in (2563).
LEMMA EraYear ==
  ASSUME NEW yoe, NEW doy, InEra(yoe, doy)
  PROVE  /\ DayOfEra(yoe, doy) \in Nat /\ DayOfEra(yoe, doy) <= 146096
         /\ YearOfEra(DayOfEra(yoe, doy)) = yoe
<1> USE DEF InEra
<1>1. PICK c \in Nat, q \in Nat, t \in Nat :
        c <= 3 /\ q <= 24 /\ t <= 3 /\ yoe = 100 * c + 4 * q + t
  <2>1. yoe = 100 * (yoe \div 100) + 4 * ((yoe % 100) \div 4) + ((yoe % 100) % 4)
    OBVIOUS
  <2>2. /\ yoe \div 100 \in Nat /\ yoe \div 100 <= 3
        /\ (yoe % 100) \div 4 \in Nat /\ (yoe % 100) \div 4 <= 24
        /\ (yoe % 100) % 4 \in Nat /\ (yoe % 100) % 4 <= 3
    OBVIOUS
  <2>3. QED
    BY <2>1, <2>2
<1>2. yoe \div 4 = 25 * c + q /\ yoe \div 100 = c /\ yoe % 4 = t /\ yoe % 100 = 4 * q + t
  BY <1>1
<1>3. DayOfEra(yoe, doy) = 36524 * c + 1461 * q + 365 * t + doy
  BY <1>1, <1>2 DEF DayOfEra
<1>4. doy = 365 => t = 3 /\ (q # 24 \/ c = 3)
  BY <1>1, <1>2 DEF LongYear
<1>5. PICK doe \in Nat : doe = DayOfEra(yoe, doy) /\ doe <= 146096
  BY <1>1, <1>3, <1>4
<1>6. doe \div 36524 = IF doe = 146096 THEN c + 1 ELSE c
  BY <1>1, <1>3, <1>4, <1>5
<1>7. doe \div 146096 = IF doe = 146096 THEN 1 ELSE 0
  BY <1>5
<1>8. doe \div 1460 = IF 24 * c + q + 365 * t + doy < 1460 THEN 25 * c + q ELSE 25 * c + q + 1
  BY <1>1, <1>3, <1>4, <1>5
<1>9. doe - doe \div 1460 + doe \div 36524 - doe \div 146096 = 
         365 * yoe + doy - (IF 24 * c + q + 365 * t + doy < 1460 THEN 0 ELSE 1)
  BY <1>1, <1>3, <1>4, <1>5, <1>6, <1>7, <1>8
<1>10. 24 * c + q + 365 * t + doy >= 1460 => doy > 0
  BY <1>1
<1>11. YearOfEra(doe) = yoe
  BY <1>4, <1>9, <1>10 DEF YearOfEra
<1>12. QED
  BY <1>5, <1>11

\* Every day of an era is a day of one of its years.
LEMMA EraDay ==
  ASSUME NEW doe \in Nat, doe <= 146096
  PROVE  \E yoe, doy : InEra(yoe, doy) /\ doe = DayOfEra(yoe, doy)
<1>1. PICK c \in Nat, r \in Nat : c <= 3 /\ doe = 36524 * c + r /\ r <= 36524 /\ (r = 36524 => c = 3)
  <2>1. CASE doe = 146096
    <3>1. doe = 36524 * 3 + 36524
      BY <2>1
    <3>2. QED
      BY <3>1
  <2>2. CASE doe # 146096
    BY <2>2, doe \div 36524 \in Nat, doe % 36524 \in Nat, doe = 36524 * (doe \div 36524) + (doe % 36524)
  <2>3. QED
    BY <2>1, <2>2
<1>2. PICK q \in Nat, s \in Nat : q <= 24 /\ r = 1461 * q + s /\ s <= 1460
  BY <1>1, r = 1461 * (r \div 1461) + (r % 1461), r \div 1461 \in Nat, r % 1461 \in Nat
<1>3. PICK t \in Nat, doy \in Nat : t <= 3 /\ s = 365 * t + doy /\ doy <= 365 /\ (doy = 365 => t = 3)
  <2>1. CASE s = 1460
    <3>1. s = 365 * 3 + 365
      BY <2>1
    <3>2. QED
      BY <3>1
  <2>2. CASE s # 1460
    BY <1>2, <2>2, s = 365 * (s \div 365) + (s % 365), s \div 365 \in Nat, s % 365 \in Nat
  <2>3. QED
    BY <2>1, <2>2
<1>4. PICK yoe \in Nat : yoe = 100 * c + 4 * q + t /\ yoe <= 399
  BY <1>1, <1>2, <1>3
<1>5. yoe \div 4 = 25 * c + q /\ yoe \div 100 = c /\ yoe % 4 = t /\ yoe % 100 = 4 * q + t
  BY <1>1, <1>2, <1>3, <1>4
<1>6. doe = DayOfEra(yoe, doy)
  BY <1>1, <1>2, <1>3, <1>4, <1>5 DEF DayOfEra
<1>7. doy = 365 => LongYear(yoe)
  BY <1>1, <1>2, <1>3, <1>4, <1>5 DEF LongYear
<1>8. InEra(yoe, doy)
  BY <1>3, <1>4, <1>7 DEF InEra
<1>9. QED
  BY <1>6, <1>8

\* The rounding of division towards zero is made up for (2560).
LEMMA Eras ==
  ASSUME NEW n \in Int
  PROVE  EraOf(n) = n \div 400
BY SMT DEF EraOf, Over

\* The same (2668).
LEMMA EraOfDay ==
  ASSUME NEW n \in Int
  PROVE  Over(IF n >= 0 THEN n ELSE n - 146096, 146097) = n \div 146097
BY SMT DEF Over

\* The table of year_month_day_last::day (2333-2347).
LEMMA MonthLengths ==
  ASSUME NEW y, NEW m \in Nat, 1 <= m, m <= 12
  PROVE  LastDay(YmdLast(y, m)) =
           IF m = 2 THEN (IF IsLeap(y) THEN 29 ELSE 28) ELSE IF m \in {4, 6, 9, 11} THEN 30 ELSE 31
<1>1. m \in {1, 2, 3, 4, 5, 6, 7, 8, 9, 10, 11, 12}
  OBVIOUS
<1>2. QED
  BY <1>1 DEF LastDay, YmdLast

\* Months, and their days in a leap year.
Month(m) == m \in Nat /\ 1 <= m /\ m <= 12
LengthOf(m) == IF m = 2 THEN 29 ELSE IF m \in {4, 6, 9, 11} THEN 30 ELSE 31

\* A day of a month, as a day of the year, says which it was (2562, 2673-2675).
LEMMA DayInYear ==
  ASSUME NEW m, Month(m), NEW d \in Nat, 1 <= d, d <= LengthOf(m)
  PROVE  /\ DayOfYear(m, d) \in Nat /\ DayOfYear(m, d) <= 365
         /\ DayOfYear(m, d) = 365 <=> m = 2 /\ d = 29
         /\ MonthOfYear((5 * DayOfYear(m, d) + 2) \div 153) = m
         /\ DayOfYear(m, d) - (153 * ((5 * DayOfYear(m, d) + 2) \div 153) + 2) \div 5 + 1 = d
<1>1. m \in {1, 2, 3, 4, 5, 6, 7, 8, 9, 10, 11, 12}
  BY DEF Month
<1>2. QED
  BY <1>1 DEF DayOfYear, MonthOfYear, LengthOf

\* Every day of the year is a day of some month.
LEMMA DateInYear ==
  ASSUME NEW doy \in Nat, doy <= 365
  PROVE  LET mp == (5 * doy + 2) \div 153
             m  == MonthOfYear(mp)
             d  == doy - (153 * mp + 2) \div 5 + 1
         IN Month(m) /\ d \in Nat /\ 1 <= d /\ d <= LengthOf(m) /\ DayOfYear(m, d) = doy
<1>1. PICK mp \in Nat : mp = (5 * doy + 2) \div 153
  OBVIOUS
<1>2. mp <= 11
  BY <1>1
<1>3. mp \in {0, 1, 2, 3, 4, 5, 6, 7, 8, 9, 10, 11}
  BY <1>2
<1>4. 153 * mp <= 5 * doy + 2 /\ 5 * doy + 2 < 153 * mp + 153
  BY <1>1
<1>5. LET m == MonthOfYear(mp)
          d == doy - (153 * mp + 2) \div 5 + 1
      IN Month(m) /\ d \in Nat /\ 1 <= d /\ d <= LengthOf(m) /\ DayOfYear(m, d) = doy
  BY <1>3, <1>4 DEF DayOfYear, MonthOfYear, LengthOf, Month
<1>6. QED
  BY <1>1, <1>5

\* A year that begins in March, and a day of it.
InYear(n, doy) ==
  /\ n \in Int /\ doy \in Nat /\ doy <= 365
  /\ doy = 365 => IsLeap(n + 1)

\* The years of an era that are long end in a leap day.
LEMMA YearInEra ==
  ASSUME NEW n \in Int
  PROVE  /\ n \div 400 \in Int /\ n % 400 \in Nat /\ n % 400 <= 399
         /\ n = 400 * (n \div 400) + (n % 400)
         /\ LongYear(n % 400) <=> IsLeap(n + 1)
<1>1. PICK era \in Int, yoe \in Nat : era = n \div 400 /\ yoe = n % 400 /\ yoe <= 399 /\ n = 400 * era + yoe
  OBVIOUS
<1>2. (n + 1) % 4 = (yoe + 1) % 4 /\ (n + 1) % 100 = (yoe + 1) % 100 /\ (n + 1) % 400 = (yoe + 1) % 400
  BY <1>1
<1>3. /\ yoe % 4 = 3 <=> (yoe + 1) % 4 = 0
      /\ yoe % 100 = 99 <=> (yoe + 1) % 100 = 0
      /\ yoe = 399 <=> (yoe + 1) % 400 = 0
  BY <1>1
<1>4. LongYear(yoe) <=> IsLeap(n + 1)
  BY <1>2, <1>3 DEF LongYear, IsLeap
<1>5. QED
  BY <1>1, <1>4

\* From a day of a year to its number and back.
LEMMA DaysOfYear ==
  ASSUME NEW n, NEW doy, InYear(n, doy)
  PROVE  /\ ToDaysFrom(n, doy) \in Int
         /\ FromDays(ToDaysFrom(n, doy)) = FromDayOfYear(n, doy)
<1>1. PICK era \in Int, yoe \in Nat : era = n \div 400 /\ yoe = n % 400 /\ n = 400 * era + yoe /\ InEra(yoe, doy)
  BY YearInEra DEF InYear, InEra
<1>2. PICK doe \in Nat : doe = DayOfEra(yoe, doy) /\ doe <= 146096 /\ YearOfEra(doe) = yoe
  BY <1>1, EraYear
<1>3. EraOf(n) = era
  BY <1>1, Eras, SMT DEF InYear
<1>4. n - era * 400 = yoe
  BY <1>1
<1>5. PICK z \in Int : z = ToDaysFrom(n, doy) /\ z + 719468 = era * 146097 + doe
  BY <1>1, <1>2, <1>3, <1>4, SMT DEF ToDaysFrom
<1>6. (z + 719468) \div 146097 = era /\ (z + 719468) - era * 146097 = doe
  BY <1>2, <1>5
<1>7. FromDays(z) = FromEra(era, z + 719468)
  BY <1>6, EraOfDay, SMT, z + 719468 \in Int DEF FromDays
<1>8. FromEra(era, z + 719468) = FromYearOfEra(era, doe, yoe)
  BY <1>2, <1>6 DEF FromEra
<1>9. doe - DayOfEra(yoe, 0) = doy /\ yoe + era * 400 = n
  BY <1>1, <1>2 DEF DayOfEra, InYear
<1>10. QED
  BY <1>5, <1>7, <1>8, <1>9 DEF FromYearOfEra

\* Every number is the one of a day of a year.
LEMMA YearOfDay ==
  ASSUME NEW z \in Int
  PROVE  \E n, doy : InYear(n, doy) /\ z = ToDaysFrom(n, doy)
<1>1. PICK era \in Int, doe \in Nat : z + 719468 = era * 146097 + doe /\ doe <= 146096
  <2>1. PICK k \in Int : k = z + 719468
    BY SMT
  <2>2. /\ k \div 146097 \in Int /\ k % 146097 \in Nat /\ k % 146097 <= 146096
        /\ k = (k \div 146097) * 146097 + (k % 146097)
    BY SMT
  <2>3. k = (k \div 146097) * 146097 + (k % 146097) /\ k % 146097 <= 146096 =>
          \E era \in Int, doe \in Nat : k = era * 146097 + doe /\ doe <= 146096
    BY <2>2, SMT
  <2>4. QED
    BY <2>1, <2>2, <2>3, SMT
<1>2. PICK yoe, doy : InEra(yoe, doy) /\ doe = DayOfEra(yoe, doy)
  BY <1>1, EraDay
<1>3. PICK n \in Int : n = yoe + era * 400
  BY <1>2 DEF InEra
<1>4. n \div 400 = era /\ n % 400 = yoe /\ n - era * 400 = yoe
  BY <1>2, <1>3 DEF InEra
<1>5. InYear(n, doy)
  BY <1>2, <1>4, YearInEra DEF InYear, InEra
<1>6. EraOf(n) = era
  BY <1>4, Eras, SMT
<1>7. ToDaysFrom(n, doy) = z
  <2>1. n - EraOf(n) * 400 = yoe
    BY <1>4, <1>6
  <2>2. ToDaysFrom(n, doy) = era * 146097 + doe - 719468
    BY <1>2, <1>6, <2>1, SMT DEF ToDaysFrom
  <2>3. QED
    BY <1>1, <2>2, SMT
<1>8. QED
  BY <1>5, <1>7

\* The days and dates of the header: years fit into the short that holds them.
Date(y, m, d) ==
  /\ y \in Int /\ -32767 <= y /\ y <= 32767
  /\ Month(m) /\ d \in Nat /\ 1 <= d /\ d <= LastDay(YmdLast(y, m))

\* The year that begins in March, of a date.
March(y, m) == y - (IF m <= 2 THEN 1 ELSE 0)

\* What a date is in years that begin in March.
LEMMA DateFields ==
  ASSUME NEW y, NEW m, NEW d, Date(y, m, d)
  PROVE  /\ InYear(March(y, m), DayOfYear(m, d))
         /\ ToDays(Ymd(y, m, d)) = ToDaysFrom(March(y, m), DayOfYear(m, d))
         /\ d <= LengthOf(m)
<1>1. d <= LengthOf(m) /\ (m = 2 /\ d = 29 => IsLeap(y))
  BY MonthLengths DEF Date, Month, LengthOf
<1>2. /\ DayOfYear(m, d) \in Nat /\ DayOfYear(m, d) <= 365
      /\ DayOfYear(m, d) = 365 <=> m = 2 /\ d = 29
  BY <1>1, DayInYear DEF Date
<1>3. March(y, m) \in Int /\ (m = 2 => March(y, m) + 1 = y)
  BY DEF Date, Month, March
<1>4. InYear(March(y, m), DayOfYear(m, d))
  BY <1>1, <1>2, <1>3 DEF InYear
<1>5. QED
  BY <1>1, <1>4 DEF ToDays, Ymd, March

\* A date becomes a number of days and the same date again (date.h:2549-2564,
\* 2659-2676), for every valid date of the years a short holds; so no two dates
\* have one number, and no field overflows.
THEOREM DateAgain ==
  ASSUME NEW y, NEW m, NEW d, Date(y, m, d)
  PROVE  /\ ToDays(Ymd(y, m, d)) \in Int
         /\ FromDays(ToDays(Ymd(y, m, d))) = Ymd(y, m, d)
<1> DEFINE n == March(y, m)
           doy == DayOfYear(m, d)
           mp == (5 * doy + 2) \div 153
<1>1. ToDays(Ymd(y, m, d)) = ToDaysFrom(n, doy) /\ ToDaysFrom(n, doy) \in Int
      /\ FromDays(ToDaysFrom(n, doy)) = FromDayOfYear(n, doy)
  BY DateFields, DaysOfYear
<1>2. MonthOfYear(mp) = m /\ doy - (153 * mp + 2) \div 5 + 1 = d
  BY DateFields, DayInYear DEF Date
<1>3. n + (IF m <= 2 THEN 1 ELSE 0) = y
  BY DEF Date, Month, March
<1>4. Short(y) = y
  BY DEF Date, Short
<1>5. d <= 31 /\ Byte(m) = m /\ Byte(d) = d
  BY DateFields DEF Date, Month, Byte, LengthOf
<1>6. FromDayOfYear(n, doy) = FromMonthOfYear(n, doy, mp)
  BY DEF FromDayOfYear
<1> HIDE DEF n, doy, mp
<1>7. FromMonthOfYear(n, doy, mp) = Ymd(y, m, d)
  BY <1>2, <1>3, <1>4, <1>5 DEF FromMonthOfYear
<1>8. QED
  BY <1>1, <1>6, <1>7

\* Later years begin with later days.
LEMMA EraOrder ==
  ASSUME NEW yoe, NEW doy, InEra(yoe, doy), NEW yoe2, NEW doy2, InEra(yoe2, doy2), yoe < yoe2
  PROVE  DayOfEra(yoe, doy) < DayOfEra(yoe2, doy2)
<1> DEFINE leaps(n) == n \div 4 - n \div 100
<1>1. \A a, b \in Nat : a <= b => leaps(a) <= leaps(b)
  <2> SUFFICES ASSUME NEW a \in Nat, NEW b \in Nat, a <= b
               PROVE  leaps(a) <= leaps(b)
    OBVIOUS
  <2>1. /\ a \div 4 = 25 * (a \div 100) + (a % 100) \div 4
        /\ b \div 4 = 25 * (b \div 100) + (b % 100) \div 4
    BY SMT
  <2>2. /\ (a % 100) \div 4 \in Nat /\ (a % 100) \div 4 <= 24
        /\ (b % 100) \div 4 \in Nat /\ (b % 100) \div 4 <= 24
        /\ a \div 100 \in Nat /\ b \div 100 \in Nat /\ a \div 100 <= b \div 100
    BY SMT
  <2>3. a \div 100 = b \div 100 => a \div 4 <= b \div 4
    BY SMT
  <2>4. QED
    BY <2>1, <2>2, <2>3, SMT
<1>2. \A n \in Nat : LongYear(n) /\ n # 399 => leaps(n + 1) = leaps(n) + 1
  BY SMT DEF LongYear
<1>3. /\ DayOfEra(yoe, doy) = 365 * yoe + leaps(yoe) + doy
      /\ DayOfEra(yoe2, doy2) = 365 * yoe2 + leaps(yoe2) + doy2
  BY SMT DEF DayOfEra, InEra
<1>4. leaps(yoe) \in Int /\ leaps(yoe2) \in Int /\ leaps(yoe + 1) \in Int
  BY DEF InEra
<1>5. yoe \in Nat /\ yoe2 \in Nat /\ yoe + 1 \in Nat /\ yoe + 1 <= yoe2 /\ yoe # 399
      /\ doy \in Nat /\ doy <= 365 /\ doy2 \in Nat /\ (doy = 365 => LongYear(yoe))
  BY DEF InEra
<1> HIDE DEF leaps
<1>6. leaps(yoe) <= leaps(yoe2) /\ leaps(yoe + 1) <= leaps(yoe2)
  BY <1>1, <1>5, SMT
<1>7. doy = 365 => leaps(yoe) + 1 <= leaps(yoe2)
  BY <1>2, <1>5, <1>6, SMT
<1>8. 365 * yoe + 365 <= 365 * yoe2
  BY <1>5, SMT
<1>9. QED
  BY <1>3, <1>4, <1>5, <1>6, <1>7, <1>8, SMT

\* Later days of years have larger numbers.
LEMMA YearOrder ==
  ASSUME NEW n, NEW doy, InYear(n, doy), NEW n2, NEW doy2, InYear(n2, doy2)
  PROVE  n < n2 \/ (n = n2 /\ doy < doy2) <=> ToDaysFrom(n, doy) < ToDaysFrom(n2, doy2)
<1>1. \A a, x : InYear(a, x) =>
        /\ a \in Int /\ x \in Nat
        /\ a \div 400 \in Int /\ a % 400 \in Nat /\ a = 400 * (a \div 400) + (a % 400)
        /\ InEra(a % 400, x) /\ a % 400 <= 399
        /\ DayOfEra(a % 400, x) \in Nat /\ DayOfEra(a % 400, x) <= 146096
        /\ ToDaysFrom(a, x) = (a \div 400) * 146097 + DayOfEra(a % 400, x) - 719468
  <2> SUFFICES ASSUME NEW a, NEW x, InYear(a, x)
               PROVE  /\ a \in Int /\ x \in Nat
                      /\ a \div 400 \in Int /\ a % 400 \in Nat /\ a = 400 * (a \div 400) + (a % 400)
                      /\ InEra(a % 400, x) /\ a % 400 <= 399
                      /\ DayOfEra(a % 400, x) \in Nat /\ DayOfEra(a % 400, x) <= 146096
                      /\ ToDaysFrom(a, x) = (a \div 400) * 146097 + DayOfEra(a % 400, x) - 719468
    OBVIOUS
  <2>1. a \in Int /\ x \in Nat
    BY DEF InYear
  <2>2. /\ a \div 400 \in Int /\ a % 400 \in Nat /\ a % 400 <= 399 /\ a = 400 * (a \div 400) + (a % 400)
        /\ InEra(a % 400, x)
    BY YearInEra DEF InYear, InEra
  <2>3. a - EraOf(a) * 400 = a % 400 /\ EraOf(a) = a \div 400
    BY <2>1, <2>2, Eras
  <2>4. QED
    BY <2>1, <2>2, <2>3, EraYear, SMT DEF ToDaysFrom
<1>2. \A a, x, b, v : InYear(a, x) /\ InYear(b, v) /\ a < b => ToDaysFrom(a, x) < ToDaysFrom(b, v)
  <2> SUFFICES ASSUME NEW a, NEW x, NEW b, NEW v, InYear(a, x), InYear(b, v), a < b
               PROVE  ToDaysFrom(a, x) < ToDaysFrom(b, v)
    OBVIOUS
  <2>1. CASE a \div 400 = b \div 400
    BY <1>1, <2>1, EraOrder, SMT
  <2>2. CASE a \div 400 < b \div 400
    BY <1>1, <2>2, SMT
  <2>3. a \div 400 <= b \div 400
    <3>1. a \in Int /\ b \in Int
      BY <1>1
    <3>2. QED
      BY <3>1, SMT
  <2>4. QED
    BY <1>1, <2>1, <2>2, <2>3, SMT
<1>3. n = n2 => (doy < doy2 <=> ToDaysFrom(n, doy) < ToDaysFrom(n2, doy2))
  <2>1. n = n2 => DayOfEra(n % 400, doy2) - DayOfEra(n % 400, doy) = doy2 - doy
    BY <1>1, SMT DEF DayOfEra
  <2>2. QED
    BY <1>1, <2>1, SMT
<1>4. ToDaysFrom(n, doy) \in Int /\ ToDaysFrom(n2, doy2) \in Int
  BY DaysOfYear
<1>5. QED
  BY <1>1, <1>2, <1>3, <1>4, SMT

\* The days from -32767-01-01 to 32767-12-31.
Counted(z) == z \in Int /\ -12687428 <= z /\ z <= 11248737

\* A number of days becomes a valid date and the same number again
\* (date.h:2659-2676, 2549-2564, ok at 2581-2591), for all days that fall into
\* the years a short holds.
THEOREM DayAgain ==
  ASSUME NEW z, Counted(z)
  PROVE  \E y, m, d : /\ Date(y, m, d)
                      /\ FromDays(z) = Ymd(y, m, d) /\ YmdOk(FromDays(z))
                      /\ ToDays(FromDays(z)) = z
<1>1. PICK n, doy : InYear(n, doy) /\ z = ToDaysFrom(n, doy)
  BY YearOfDay DEF Counted
<1> DEFINE mp == (5 * doy + 2) \div 153
           m == MonthOfYear(mp)
           d == doy - (153 * mp + 2) \div 5 + 1
           y == n + (IF m <= 2 THEN 1 ELSE 0)
<1>2. Month(m) /\ d \in Nat /\ 1 <= d /\ d <= LengthOf(m) /\ DayOfYear(m, d) = doy
  BY <1>1, DateInYear DEF InYear
<1>3. FromDays(z) = FromMonthOfYear(n, doy, mp)
  BY <1>1, DaysOfYear DEF FromDayOfYear
<1> HIDE DEF mp, m, d, y
<1>4. n \in Int /\ y \in Int /\ March(y, m) = n
  BY <1>1, <1>2 DEF InYear, March, Month, y
<1>5. doy = 365 <=> m = 2 /\ d = 29
  BY <1>2, DayInYear
<1>6. d <= LastDay(YmdLast(y, m))
  BY <1>1, <1>2, <1>4, <1>5, MonthLengths DEF InYear, LengthOf, Month, March
<1>7. -32767 <= y /\ y <= 32767
  <2>1. (m <= 2 => doy >= 306) /\ (m > 2 => doy <= 305)
    BY <1>2, SMT DEF Month, DayOfYear, LengthOf
  <2>2. InYear(-32768, 306) /\ InYear(32767, 305)
    BY SMT DEF InYear
  <2>3. ToDaysFrom(-32768, 306) = -12687428 /\ ToDaysFrom(32767, 305) = 11248737
    BY SMT DEF ToDaysFrom, EraOf, Over, DayOfEra
  <2>4. /\ ~ToDaysFrom(n, doy) < ToDaysFrom(-32768, 306)
        /\ ~ToDaysFrom(32767, 305) < ToDaysFrom(n, doy)
    BY <1>1, <2>3, SMT DEF Counted
  <2>5. /\ ~(n < -32768 \/ (n = -32768 /\ doy < 306))
        /\ ~(32767 < n \/ (32767 = n /\ 305 < doy))
    BY <1>1, <2>2, <2>4, YearOrder
  <2>6. n \in Int /\ doy \in Nat
    BY <1>1 DEF InYear
  <2>7. QED
    <3>1. m \in Nat
      BY <1>2 DEF Month
    <3>2. QED
      BY <1>4, <2>1, <2>5, <2>6, <3>1, SMT DEF y
<1>8. Date(y, m, d)
  BY <1>2, <1>4, <1>6, <1>7 DEF Date
<1>9. Short(y) = y /\ Byte(m) = m /\ Byte(d) = d
  BY <1>2, <1>4, <1>7 DEF Short, Byte, Month, LengthOf
<1>10. FromDays(z) = Ymd(y, m, d)
  BY <1>3, <1>9 DEF FromMonthOfYear, y, m, d
<1>11. YmdOk(Ymd(y, m, d))
  BY <1>2, <1>6, <1>7, SMT DEF YmdOk, Ymd, YearOk, MonthOk, Month
<1>12. QED
  BY <1>1, <1>2, <1>4, <1>8, <1>10, <1>11, DateFields

\* operator< (date.h:2606-2641) of valid dates is < of their numbers of days, and
\* these numbers are the ones that DayAgain is about.
THEOREM DatesInOrder ==
  ASSUME NEW y, NEW m, NEW d, Date(y, m, d), NEW y2, NEW m2, NEW d2, Date(y2, m2, d2)
  PROVE  /\ YmdLess(Ymd(y, m, d), Ymd(y2, m2, d2)) <=> ToDays(Ymd(y, m, d)) < ToDays(Ymd(y2, m2, d2))
         /\ Counted(ToDays(Ymd(y, m, d)))
<1> DEFINE n == March(y, m)
           n2 == March(y2, m2)
           doy == DayOfYear(m, d)
           doy2 == DayOfYear(m2, d2)
<1>1. /\ InYear(n, doy) /\ InYear(n2, doy2)
      /\ ToDays(Ymd(y, m, d)) = ToDaysFrom(n, doy) /\ ToDays(Ymd(y2, m2, d2)) = ToDaysFrom(n2, doy2)
      /\ d <= LengthOf(m) /\ d2 <= LengthOf(m2)
  BY DateFields
<1>2. YmdLess(Ymd(y, m, d), Ymd(y2, m2, d2)) <=>
        y < y2 \/ (y = y2 /\ (m < m2 \/ (m = m2 /\ d < d2)))
  BY DEF YmdLess, MonthDayLess, Ymd
<1>3. y \in Int /\ y2 \in Int /\ m \in Nat /\ m2 \in Nat /\ d \in Nat /\ d2 \in Nat
      /\ 1 <= m /\ m <= 12 /\ 1 <= m2 /\ m2 <= 12 /\ 1 <= d /\ 1 <= d2
  BY DEF Date, Month
<1>4. /\ n = y - (IF m <= 2 THEN 1 ELSE 0) /\ n2 = y2 - (IF m2 <= 2 THEN 1 ELSE 0)
      /\ n \in Int /\ n2 \in Int
  BY <1>3, SMT DEF March
<1>5. doy \in Nat /\ doy2 \in Nat
  BY <1>1 DEF InYear
<1>6. (m <= 2 <=> doy >= 306) /\ (m2 <= 2 <=> doy2 >= 306)
  BY <1>1, <1>3, SMT DEF DayOfYear, LengthOf
<1>7. (m <= 2 <=> m2 <= 2) => (doy < doy2 <=> m < m2 \/ (m = m2 /\ d < d2))
  BY <1>1, <1>3, SMT DEF DayOfYear, LengthOf
<1>8. n < n2 \/ (n = n2 /\ doy < doy2) <=> y < y2 \/ (y = y2 /\ (m < m2 \/ (m = m2 /\ d < d2)))
  <2> HIDE DEF n, n2, doy, doy2
  <2>1. QED
    BY <1>3, <1>4, <1>5, <1>6, <1>7, SMT
<1>9. Counted(ToDaysFrom(n, doy))
  <2>1. InYear(-32768, 306) /\ InYear(32767, 305)
    BY SMT DEF InYear
  <2>2. ToDaysFrom(-32768, 306) = -12687428 /\ ToDaysFrom(32767, 305) = 11248737
    BY SMT DEF ToDaysFrom, EraOf, Over, DayOfEra
  <2>3. y \in Int /\ -32767 <= y /\ y <= 32767
    BY DEF Date
  <2> HIDE DEF n, doy
  <2>4. ~(n < -32768 \/ (n = -32768 /\ doy < 306)) /\ ~(32767 < n \/ (32767 = n /\ 305 < doy))
    BY <1>3, <1>4, <1>5, <1>6, <2>3, SMT
  <2>5. ToDaysFrom(n, doy) \in Int
    BY <1>1, DaysOfYear
  <2>6. ~ToDaysFrom(n, doy) < ToDaysFrom(-32768, 306) /\ ~ToDaysFrom(32767, 305) < ToDaysFrom(n, doy)
    BY <1>1, <2>1, <2>4, YearOrder
  <2>7. QED
    BY <2>2, <2>5, <2>6, SMT DEF Counted
<1>10. QED
  BY <1>1, <1>2, <1>8, <1>9, YearOrder

\* The weekday of a day number (date.h:1567-1576) is valid, ++ and -- of it
\* (1595-1598) are the weekdays of the next and the previous day, and day 0, the
\* first of January of 1970, is a Thursday: for every number, negative or not, that
\* the int of the code can count on from.
THEOREM WeekdaysInTurn ==
  ASSUME NEW z \in Int
  PROVE  /\ WeekdayOk(WeekdayFromDays(z)) /\ WeekdayFromDays(z) \in Nat
         /\ WeekdayFromDays(z + 1) = NextWeekday(WeekdayFromDays(z))
         /\ WeekdayFromDays(z) = PreviousWeekday(WeekdayFromDays(z + 1))
         /\ ToDays(Ymd(1970, 1, 1)) = 0 /\ WeekdayFromDays(0) = 4
<1>1. WeekdayFromDays(z) = (z + 4) % 7
  BY SMT DEF WeekdayFromDays
<1>2. WeekdayFromDays(z + 1) = (z + 5) % 7
  BY SMT DEF WeekdayFromDays
<1>3. WeekdayFromDays(0) = 4
  BY SMT DEF WeekdayFromDays
<1>4. ToDays(Ymd(1970, 1, 1)) = 0
  BY SMT DEF ToDays, Ymd, DayOfYear, ToDaysFrom, EraOf, Over, DayOfEra
<1>5. QED
  BY <1>1, <1>2, <1>3, <1>4, SMT DEF WeekdayOk, NextWeekday, PreviousWeekday, Byte

\* Months added to a month of a year count on in twelves.
LEMMA MonthPlus12 ==
  ASSUME NEW y \in Int, NEW m, Month(m), NEW k \in Int,
         NEW y2 \in Int, NEW m2, Month(m2), y2 * 12 + m2 = y * 12 + m + k,
         -32767 <= y2, y2 <= 32767
  PROVE  YearMonthPlus(YearMonth(y, m), k) = YearMonth(y2, m2)
<1> DEFINE dmi == m - 1 + k
           dy == Over(IF dmi >= 0 THEN dmi ELSE dmi - 11, 12)
<1>1. dmi \in Int /\ m \in Nat /\ m2 \in Nat /\ 1 <= m2 /\ m2 <= 12
  BY DEF Month
<1>2. dmi = 12 * (y2 - y) + (m2 - 1)
  BY <1>1, SMT
<1>3. dy = dmi \div 12
  BY <1>1, SMT DEF Over
<1>4. dmi \div 12 = y2 - y
  BY <1>1, <1>2, SMT
<1>5. YearMonthPlus(YearMonth(y, m), k) = YearMonth(YearPlus(y, dy), Byte(dmi - dy * 12 + 1))
  BY DEF YearMonthPlus, YearMonth
<1> HIDE DEF dy
<1>6. YearPlus(y, dy) = y2
  BY <1>3, <1>4, SMT DEF YearPlus, Short
<1>7. dmi - dy * 12 + 1 = m2
  BY <1>1, <1>2, <1>3, <1>4, SMT
<1>8. Byte(m2) = m2
  BY <1>1, SMT DEF Byte
<1>9. QED
  BY <1>5, <1>6, <1>7, <1>8

\* Adding any number of months to a month of a year (date.h:1956-1981) gives a
\* valid one, the difference (1983-1990) is that number, and taking it away
\* again gives the month one began with: while the years fit into a short.
THEOREM MonthsBack ==
  ASSUME NEW y \in Int, -32767 <= y, y <= 32767, NEW m, Month(m), NEW k \in Int,
         -32767 * 12 <= y * 12 + m - 1 + k, y * 12 + m - 1 + k <= 32767 * 12 + 11
  PROVE  LET ym == YearMonthPlus(YearMonth(y, m), k)
         IN /\ YearMonthOk(ym)
            /\ YearMonthMinus(ym, YearMonth(y, m)) = k
            /\ YearMonthPlus(ym, -k) = YearMonth(y, m)
<1>1. m \in Nat /\ 1 <= m /\ m <= 12
  BY DEF Month
<1>2. PICK s \in Int : s = y * 12 + m - 1 + k
  BY <1>1
<1>3. PICK y2 \in Int, m2 \in Nat : y2 * 12 + m2 = s + 1 /\ 1 <= m2 /\ m2 <= 12 /\ -32767 <= y2 /\ y2 <= 32767
  <2>1. s \div 12 \in Int /\ (s % 12) + 1 \in Nat /\ s = 12 * (s \div 12) + (s % 12) /\ s % 12 <= 11
    BY SMT
  <2>2. (s \div 12) * 12 + ((s % 12) + 1) = s + 1 /\ 1 <= (s % 12) + 1 /\ (s % 12) + 1 <= 12
        /\ -32767 <= s \div 12 /\ s \div 12 <= 32767
    BY <1>2, <2>1, SMT
  <2>3. QED
    BY <2>1, <2>2
<1>4. YearMonthPlus(YearMonth(y, m), k) = YearMonth(y2, m2)
  BY <1>1, <1>2, <1>3, MonthPlus12 DEF Month
<1>5. YearMonthPlus(YearMonth(y2, m2), -k) = YearMonth(y, m)
  <2>1. -k \in Int /\ y * 12 + m = y2 * 12 + m2 + (-k)
    BY <1>1, <1>2, <1>3, SMT
  <2>2. QED
    BY <1>1, <1>3, <2>1, MonthPlus12 DEF Month
<1>6. YearMonthMinus(YearMonth(y2, m2), YearMonth(y, m)) = k
  BY <1>1, <1>2, <1>3, SMT DEF YearMonthMinus, YearMonth
<1>7. YearMonthOk(YearMonth(y2, m2))
  BY <1>3, SMT DEF YearMonthOk, YearMonth, YearOk, MonthOk
<1>8. QED
  BY <1>4, <1>5, <1>6, <1>7

\* A day as the n-th of its weekday in a month (date.h:2842-2851) is valid
\* (2828-2841) and becomes the same day again (2853-2861).
THEOREM NthWeekdayAgain ==
  ASSUME NEW z, Counted(z)
  PROVE  YmwOk(YmwFromDays(z)) /\ YmwToDays(YmwFromDays(z)) = z
<1>1. PICK y, m, d : Date(y, m, d) /\ FromDays(z) = Ymd(y, m, d) /\ ToDays(FromDays(z)) = z
  BY DayAgain
<1>2. /\ y \in Int /\ -32767 <= y /\ y <= 32767 /\ m \in Nat /\ 1 <= m /\ m <= 12
      /\ d \in Nat /\ 1 <= d /\ d <= 31 /\ d <= LastDay(YmdLast(y, m))
  BY <1>1, DateFields DEF Date, Month, LengthOf
<1>3. Date(y, m, 1)
  BY <1>2, MonthLengths, SMT DEF Date, Month
<1>4. PICK start \in Int : start = ToDays(Ymd(y, m, 1)) /\ z = start + d - 1
  <2>1. DayOfYear(m, d) = DayOfYear(m, 1) + (d - 1) /\ DayOfYear(m, d) \in Nat /\ DayOfYear(m, 1) \in Nat
    BY <1>1, <1>2, <1>3, DateFields, SMT DEF DayOfYear, InYear
  <2>2. z = ToDaysFrom(March(y, m), DayOfYear(m, d)) /\ ToDays(Ymd(y, m, 1)) = ToDaysFrom(March(y, m), DayOfYear(m, 1))
        /\ ToDays(Ymd(y, m, 1)) \in Int
    BY <1>1, <1>3, DateFields, DateAgain
  <2>3. March(y, m) \in Int /\ March(y, m) - EraOf(March(y, m)) * 400 \in Int /\ EraOf(March(y, m)) \in Int
    <3>1. March(y, m) \in Int
      BY <1>2, SMT DEF March
    <3>2. QED
      BY <3>1, Eras, SMT
  <2>4. ToDaysFrom(March(y, m), DayOfYear(m, d)) = ToDaysFrom(March(y, m), DayOfYear(m, 1)) + (d - 1)
    BY <1>2, <2>1, <2>3, SMT DEF ToDaysFrom, DayOfEra
  <2>5. QED
    BY <1>2, <2>2, <2>4, SMT
<1> DEFINE wd == WeekdayFromDays(z)
           nth == (d - 1) \div 7 + 1
<1>5. z \in Int /\ wd = (z + 4) % 7 /\ WeekdayFromDays(start) = (start + 4) % 7
  BY <1>4, SMT DEF Counted, WeekdayFromDays
<1>6. wd \in Nat /\ wd <= 6 /\ nth \in Nat /\ 1 <= nth /\ nth <= 5
  BY <1>2, <1>5, SMT
<1>7. Nibble(wd) = wd /\ Nibble(nth) = nth
  BY <1>6, SMT DEF Nibble
<1>8. YmwFromDays(z) = Ymw(y, m, [is |-> "weekday_indexed", weekday |-> wd, index |-> nth])
  BY <1>1, <1>7 DEF YmwFromDays, WeekdayIndexed, Ymd
<1>9. WeekdayMinus(wd, WeekdayFromDays(start)) = (d - 1) % 7
  <2>1. PICK a \in Nat, b \in Nat : /\ a = (start + 4) % 7 /\ b = (d - 1) % 7 /\ a <= 6 /\ b <= 6
    BY <1>2, <1>4, SMT
  <2>2. z + 4 = (start + 4) + (d - 1)
    BY <1>2, <1>4, SMT
  <2>3. (z + 4) % 7 = IF a + b <= 6 THEN a + b ELSE a + b - 7
    <3>1. /\ (start + 4) \div 7 \in Int /\ start + 4 = 7 * ((start + 4) \div 7) + a
          /\ (d - 1) \div 7 \in Int /\ d - 1 = 7 * ((d - 1) \div 7) + b
      BY <1>2, <1>4, <2>1, SMT
    <3>2. PICK q \in Int, r \in Int : start + 4 = 7 * q + a /\ d - 1 = 7 * r + b
      BY <3>1
    <3>3. CASE a + b <= 6
      <4>1. z + 4 = 7 * (q + r) + (a + b) /\ z + 4 \in Int /\ q + r \in Int /\ a + b \in Int /\ 0 <= a + b /\ a + b < 7
        BY <1>5, <2>1, <2>2, <3>2, <3>3, SMT
      <4>2. (z + 4) % 7 = a + b
        BY <4>1, Quotient, SMT
      <4>3. QED
        BY <3>3, <4>2
    <3>4. CASE a + b > 6
      <4>1. /\ z + 4 = 7 * (q + r + 1) + (a + b - 7) /\ z + 4 \in Int
            /\ q + r + 1 \in Int /\ a + b - 7 \in Int /\ 0 <= a + b - 7 /\ a + b - 7 < 7
        BY <1>5, <2>1, <2>2, <3>2, <3>4, SMT
      <4>2. (z + 4) % 7 = a + b - 7
        BY <4>1, Quotient, SMT
      <4>3. QED
        BY <3>4, <4>2, <2>1, SMT
    <3>5. QED
      BY <2>1, <3>3, <3>4, SMT
  <2> HIDE DEF wd
  <2>4. QED
    BY <1>5, <2>1, <2>3, SMT DEF WeekdayMinus
<1>10. ((d - 1) % 7) + (nth - 1) * 7 = d - 1
  BY <1>2, SMT
<1> HIDE DEF wd, nth
<1>11. YmwToDays(YmwFromDays(z)) = start + ((d - 1) % 7) + (nth - 1) * 7
  BY <1>4, <1>8, <1>9 DEF YmwToDays, Ymw
<1>12. YmwOk(YmwFromDays(z))
  <2>1. Weekday(Ymd(y, m, 1)) = WeekdayFromDays(start)
    BY <1>4 DEF Weekday
  <2>2. ((d - 1) % 7) + (nth - 1) * 7 + 1 <= LastDay(YmdLast(y, m))
    BY <1>2, <1>10, MonthLengths, SMT
  <2>3. YearOk(y) /\ MonthOk(m) /\ WeekdayOk(wd)
    BY <1>2, <1>6, SMT DEF YearOk, MonthOk, WeekdayOk
  <2>4. QED
    BY <1>6, <1>8, <1>9, <2>1, <2>2, <2>3 DEF YmwOk, Ymw
<1>13. (d - 1) % 7 \in Int /\ (nth - 1) * 7 \in Int
  BY <1>2, <1>6, SMT
<1>14. QED
  BY <1>2, <1>4, <1>5, <1>10, <1>11, <1>12, <1>13, SMT
=============================================================================
