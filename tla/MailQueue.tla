----------------------------- MODULE MailQueue ------------------------------
(***************************************************************************)
(* Queue and PollableQueue: the lock-free queue over which Pistache hands  *)
(* new peers, answers and timers to the worker that runs requestHandler.   *)
(* Many threads push, one pops and sleeps on an eventfd in between.        *)
(* Source: pistache/mailbox.h, pistache/transport.h; the loop of the one   *)
(* that pops is external (transport.cc), taken from what popSafe returns.  *)
(*                                                                         *)
(* An entry is named by the message pushed in it; one action is one        *)
(* access to memory or to the eventfd that another thread can see.         *)
(***************************************************************************)
EXTENDS Integers, Sequences, FiniteSets

CONSTANTS
  Producers,    \* the threads that push
  MaxPush,      \* how many messages each pushes
  Polling,      \* whether the queue is bound to an epoll (PollableQueue), or
                \* popped again and again (Queue)
  Sentinel, Null, None    \* model values

ASSUME MaxPushAssumption == MaxPush \in Nat \ {0}
ASSUME PollingAssumption == Polling \in BOOLEAN
ASSUME NamesAssumption == Sentinel \notin Producers \X (1..MaxPush)
                       /\ Null \notin (Producers \X (1..MaxPush)) \cup {Sentinel}
                       /\ None \notin (Producers \X (1..MaxPush)) \cup {Sentinel, Null}

Messages == Producers \X (1..MaxPush)
Entries == Messages \cup {Sentinel}

VARIABLES
  head,         \* the entry pushed last
  tail,         \* the entry popped last, whose successor is popped next
  next,         \* entry -> the one pushed after it, or Null
  storage,      \* entry -> the message in it, or None when it was moved out
  freed,        \* the entries deleted
  event,        \* the counter of the eventfd
  pushing,      \* producer -> where it is in push
  prev,         \* producer -> the local variable of push
  sent,         \* producer -> how many messages it has begun to push
  popping,      \* where the consumer is
  result,       \* the entry pop is going to return, or Null
  order,        \* history: the messages in the order they took the head
  received      \* history: the messages popped

shared == <<head, tail, next, storage, freed>>
producers == <<pushing, prev, sent>>
consumer == <<popping, result, received>>
vars == <<shared, event, producers, consumer, order>>

-----------------------------------------------------------------------------
(* push.                                                                   *)

\* prev = head.exchange(entry).
Exchange(p, entry) ==
  /\ prev' = [prev EXCEPT ![p] = head]
  /\ head' = entry

\* A new entry holds the message; the head becomes the entry.
Push(p) ==
  /\ pushing[p] = "no" /\ sent[p] < MaxPush
  /\ LET entry == <<p, sent[p] + 1>> IN
       /\ Exchange(p, entry)
       /\ storage' = [storage EXCEPT ![entry] = entry]
       /\ order' = Append(order, entry)
  /\ sent' = [sent EXCEPT ![p] = @ + 1]
  /\ pushing' = [pushing EXCEPT ![p] = "link"]
  /\ UNCHANGED <<tail, next, freed, event, consumer>>

\* Mutant of Link: the head is followed instead of what exchange returned.
Link_FromHead(p) ==
  /\ pushing[p] = "link"
  /\ next' = [next EXCEPT ![head] = <<p, sent[p]>>]
  /\ pushing' = [pushing EXCEPT ![p] = IF Polling THEN "notify" ELSE "no"]
  /\ UNCHANGED <<head, tail, storage, freed, event, prev, sent, consumer, order>>

\* prev->next = entry.
Link(p) ==
  /\ pushing[p] = "link"
  /\ next' = [next EXCEPT ![prev[p]] = <<p, sent[p]>>]
  /\ pushing' = [pushing EXCEPT ![p] = IF Polling THEN "notify" ELSE "no"]
  /\ UNCHANGED <<head, tail, storage, freed, event, prev, sent, consumer, order>>

\* The event is written after the entry is linked.
Notify(p) ==
  /\ pushing[p] = "notify"
  /\ event' = event + 1
  /\ pushing' = [pushing EXCEPT ![p] = "no"]
  /\ UNCHANGED <<shared, prev, sent, consumer, order>>

-----------------------------------------------------------------------------
(* pop and popSafe, and the loop around them.                              *)

\* epoll_wait returns.
Wake ==
  /\ popping = "asleep" /\ event > 0
  /\ popping' = "pop"
  /\ UNCHANGED <<shared, event, producers, result, received, order>>

\* Mutant of Moved: the message stays in the entry that is the tail now.
Moved_FromTail(res) == [storage EXCEPT ![res] = storage[res]]

\* new (&res->storage) T(std::move(next->data())): the message of the next
\* entry moves to the one that is returned.
Moved(res) == [storage EXCEPT ![res] = storage[next[res]], ![next[res]] = None]

AfterPop == IF Polling THEN "drain" ELSE "take"

\* Queue::pop finds no successor of the tail.
PopNothing ==
  /\ popping = "pop" /\ next[tail] = Null
  /\ result' = Null
  /\ popping' = AfterPop
  /\ UNCHANGED <<shared, event, producers, received, order>>

\* Mutant of PopEntry: the entry that holds the message is returned, and so
\* deleted while it is the tail.
PopEntry_ReturnsNext ==
  /\ popping = "pop" /\ next[tail] # Null
  /\ tail' = next[tail]
  /\ result' = next[tail]
  /\ popping' = AfterPop
  /\ UNCHANGED <<head, next, storage, freed, event, producers, received, order>>

\* Queue::pop moves the tail and returns the entry it was.
PopEntry ==
  /\ popping = "pop" /\ next[tail] # Null
  /\ storage' = Moved(tail)
  /\ tail' = next[tail]
  /\ result' = tail
  /\ popping' = AfterPop
  /\ UNCHANGED <<head, next, freed, event, producers, received, order>>

\* PollableQueue::pop empties the eventfd until a read would block.
Drain ==
  /\ popping = "drain"
  /\ IF event > 0 THEN event' = 0 /\ UNCHANGED popping
     ELSE popping' = "take" /\ UNCHANGED event
  /\ UNCHANGED <<shared, producers, result, received, order>>

\* popSafe hands the message out and deletes the entry; the consumer asks for
\* the next one until there is none.
Take ==
  /\ popping = "take"
  /\ IF result = Null
     THEN /\ popping' = IF Polling THEN "asleep" ELSE "pop"
          /\ UNCHANGED <<freed, storage, received>>
     ELSE /\ received' = Append(received, storage[result])
          /\ storage' = [storage EXCEPT ![result] = None]
          /\ freed' = freed \cup {result}
          /\ popping' = "pop"
  /\ result' = Null
  /\ UNCHANGED <<head, tail, next, event, producers, order>>

-----------------------------------------------------------------------------
Init ==
  /\ head = Sentinel /\ tail = Sentinel
  /\ next = [e \in Entries |-> Null]
  /\ storage = [e \in Entries |-> None]
  /\ freed = {} /\ event = 0
  /\ pushing = [p \in Producers |-> "no"]
  /\ prev = [p \in Producers |-> Null]
  /\ sent = [p \in Producers |-> 0]
  /\ popping = (IF Polling THEN "asleep" ELSE "pop") /\ result = Null
  /\ order = <<>> /\ received = <<>>

Finish(p) == Link(p) \/ Notify(p)
Consume == Wake \/ PopNothing \/ PopEntry \/ Drain \/ Take

Next == Consume \/ \E p \in Producers : Push(p) \/ Finish(p)

\* Threads are scheduled: what push has begun it ends, and the consumer runs.
Spec == Init /\ [][Next]_vars /\ WF_vars(Consume) /\ \A p \in Producers : WF_vars(Finish(p))

-----------------------------------------------------------------------------
(* Properties.                                                             *)

TypeOK ==
  /\ head \in Entries /\ tail \in Entries /\ result \in Entries \cup {Null}
  /\ next \in [Entries -> Messages \cup {Null}]
  /\ storage \in [Entries -> Messages \cup {None}]
  /\ freed \subseteq Entries /\ event \in Nat
  /\ pushing \in [Producers -> {"no", "link", "notify"}]
  /\ prev \in [Producers -> Entries \cup {Null}]
  /\ sent \in [Producers -> 0..MaxPush]
  /\ popping \in {"asleep", "pop", "drain", "take"}
  /\ order \in Seq(Messages) /\ received \in Seq(Messages)

\* Messages come out in the order in which their producers took the head
\* (mailbox.h:204-240), each once, whatever the threads do in between.
IsPrefixOf(s, t) == Len(s) <= Len(t) /\ \A k \in 1..Len(s) : s[k] = t[k]
InOrder == IsPrefixOf(received, order)

\* No thread reaches an entry that popSafe has deleted: not the producer that
\* has still to link its predecessor (mailbox.h:210), not the consumer.
NoUseAfterFree ==
  /\ tail \notin freed /\ head \notin freed /\ result \notin freed
  /\ \A p \in Producers : pushing[p] = "link" => prev[p] \notin freed

\* pop returns nothing only when the next message is not linked yet: only a
\* push in progress hides the messages behind it.  And the queue is empty(),
\* head and tail being one, exactly when every message pushed has been popped, in
\* the middle of pushes as well (mailbox.h:213-227).
Waiting == Len(order) - Len(received) - (IF result = Null THEN 0 ELSE 1)
HiddenOnlyByPush ==
  popping = "pop" /\ Waiting > 0 /\ next[tail] = Null =>
    \E p \in Producers : pushing[p] = "link" /\ prev[p] = tail
EmptyWhenEqual == (head = tail) <=> (Waiting = 0)
Hidden == HiddenOnlyByPush /\ EmptyWhenEqual

\* Every message pushed is received by a consumer that goes on asking, though
\* pop returns nothing in between while messages wait (mailbox.h:213-240): there
\* are finitely many, and in the end none is left.  With an eventfd it fails:
\* pop reads the eventfd after it has looked at the queue, and takes the event of
\* a message pushed in between with it.
AllReceived == []<>(Len(received) = Len(order))
=============================================================================
