--------------------------- MODULE MailQueueProofs --------------------------
(***************************************************************************)
(* Proofs about MailQueue, for any number of producers and of messages,    *)
(* with an eventfd and without.                                            *)
(*                                                                         *)
(* The argument: the entries are a chain, the sentinel followed by the     *)
(* messages in the order in which they took the head.  Every link of the   *)
(* chain is there or is about to be made by the one producer that took the *)
(* head after it; the consumer stands at the end of the part it has popped *)
(* and what was deleted lies strictly before.                              *)
(***************************************************************************)
EXTENDS MailQueue, SequenceTheorems, TLAPS

\* The chain o: the sentinel and the messages in the order of the exchanges.
Entry(o, k) == IF k = 0 THEN Sentinel ELSE o[k]

\* How many messages were popped: those received and the one in result.
Popped == Len(received) + (IF result = Null THEN 0 ELSE 1)

-----------------------------------------------------------------------------
(* The inductive invariant, in parts.                                      *)

\* A message is in the chain once, and only after its producer began to push it.
OnceInv ==
  /\ \A k \in 1..Len(order) : order[k][2] <= sent[order[k][1]]
  /\ \A j, k \in 1..Len(order) : order[j] = order[k] => j = k

\* The head is the end of the chain; nothing follows it, nor what is not in it.
HeadInv ==
  /\ head = Entry(order, Len(order))
  /\ next[head] = Null
  /\ \A m \in Messages : m[2] > sent[m[1]] => next[m] = Null

\* A producer in the middle of push is between two neighbours not yet linked.
PushInv ==
  \A p \in Producers : pushing[p] = "link" =>
    \E k \in 1..Len(order) :
      /\ order[k] = <<p, sent[p]>> /\ prev[p] = Entry(order, k - 1)
      /\ next[prev[p]] = Null

\* Two neighbours are linked, or a producer is about to link them.
LinkInv ==
  \A k \in 1..Len(order) :
    \/ next[Entry(order, k - 1)] = order[k]
    \/ \E p \in Producers : pushing[p] = "link" /\ prev[p] = Entry(order, k - 1)

\* The tail is the last entry popped; all before it are linked, those deleted
\* are the ones before what is in result.
TailInv ==
  /\ Popped <= Len(order)
  /\ tail = Entry(order, Popped)
  /\ \A k \in 1..Popped : next[Entry(order, k - 1)] = order[k]
  /\ freed = {Entry(order, k) : k \in 0..(Len(received) - 1)}
  /\ result # Null => popping \in {"drain", "take"} /\ result = Entry(order, Len(received))

\* Messages not popped are in their entries, the one popped is in result, those
\* received came in the order of the chain.
StorageInv ==
  /\ \A k \in (Popped + 1)..Len(order) : storage[order[k]] = order[k]
  /\ result # Null => storage[result] = order[Popped]
  /\ \A k \in 1..Len(received) : received[k] = order[k]

IInv == TypeOK /\ OnceInv /\ HeadInv /\ PushInv /\ LinkInv /\ TailInv /\ StorageInv

-----------------------------------------------------------------------------
(* What the invariant says of the entries.                                 *)

\* The entries of the chain are entries, all different.
LEMMA Chain ==
  ASSUME TypeOK, OnceInv
  PROVE  /\ Len(order) \in Nat /\ Len(received) \in Nat
         /\ \A k \in 1..Len(order) : order[k] \in Messages /\ Entry(order, k) = order[k]
         /\ \A k \in 0..Len(order) : Entry(order, k) \in Entries
         /\ \A j, k \in 0..Len(order) : Entry(order, j) = Entry(order, k) => j = k
         /\ Sentinel \notin Messages /\ Null \notin Entries /\ None \notin Messages
<1>1. Len(order) \in Nat /\ Len(received) \in Nat
  BY LenProperties DEF TypeOK
<1>2. \A k \in 1..Len(order) : order[k] \in Messages /\ Entry(order, k) = order[k]
  BY <1>1, ElementOfSeq DEF TypeOK, Entry
<1>3. Sentinel \notin Messages /\ Null \notin Entries /\ None \notin Messages
  BY NamesAssumption DEF Messages, Entries
<1>4. \A k \in 0..Len(order) : Entry(order, k) \in Entries
  BY <1>1, <1>2 DEF Entry, Entries
<1>5. \A j, k \in 0..Len(order) : Entry(order, j) = Entry(order, k) => j = k
  BY <1>1, <1>2, <1>3 DEF Entry, OnceInv
<1>6. QED
  BY <1>1, <1>2, <1>3, <1>4, <1>5

\* The chain with a message appended begins as it did.
LEMMA Longer ==
  ASSUME NEW o \in Seq(Messages), NEW m \in Messages
  PROVE  /\ Append(o, m) \in Seq(Messages)
         /\ Len(Append(o, m)) = Len(o) + 1 /\ Len(o) \in Nat
         /\ \A k \in 1..Len(o) : Append(o, m)[k] = o[k]
         /\ Append(o, m)[Len(o) + 1] = m
         /\ \A k \in 0..Len(o) : Entry(Append(o, m), k) = Entry(o, k)
         /\ Entry(Append(o, m), Len(o) + 1) = m
<1>1. /\ Append(o, m) \in Seq(Messages)
      /\ Len(Append(o, m)) = Len(o) + 1 /\ Len(o) \in Nat
      /\ \A k \in 1..Len(o) : Append(o, m)[k] = o[k]
      /\ Append(o, m)[Len(o) + 1] = m
  BY AppendProperties, LenProperties
<1>2. QED
  BY <1>1 DEF Entry

\* Where the consumer is: between what was received and the end of the chain.
LEMMA Bounds ==
  ASSUME TypeOK, OnceInv, TailInv
  PROVE  /\ Popped \in 0..Len(order)
         /\ Len(received) \in 0..Len(order)
         /\ result = Null => Popped = Len(received)
         /\ result # Null => Popped = Len(received) + 1
         /\ tail = Entry(order, Popped)
         /\ result # Null => result = Entry(order, Len(received))
BY Chain DEF Popped, TailInv

-----------------------------------------------------------------------------
(* Types.                                                                  *)

LEMMA TypeInit == Init => TypeOK
BY PollingAssumption, MaxPushAssumption DEF Init, TypeOK, Entries, Messages

LEMMA TypeStep == IInv /\ [Next]_vars => TypeOK'
<1> SUFFICES ASSUME IInv, [Next]_vars PROVE TypeOK'
  OBVIOUS
<1> USE MaxPushAssumption, PollingAssumption, NamesAssumption
<1>0. TypeOK /\ OnceInv /\ TailInv
  BY DEF IInv
<1>1. ASSUME NEW p \in Producers, Push(p) PROVE TypeOK'
  <2> DEFINE m == <<p, sent[p] + 1>>
  <2>1. sent[p] \in Nat /\ sent[p] + 1 \in 1..MaxPush /\ m \in Messages
    BY <1>0, <1>1 DEF Push, TypeOK, Messages
  <2>2. order' = Append(order, m) /\ order' \in Seq(Messages)
    BY <1>0, <1>1, <2>1, AppendProperties DEF Push, TypeOK
  <2>3. head' \in Entries /\ prev' \in [Producers -> Entries \cup {Null}]
    BY <1>0, <1>1, <2>1 DEF Push, Exchange, TypeOK, Entries
  <2>4. storage' \in [Entries -> Messages \cup {None}]
    BY <1>0, <1>1, <2>1 DEF Push, TypeOK, Entries
  <2>5. sent' \in [Producers -> 0..MaxPush] /\ pushing' \in [Producers -> {"no", "link", "notify"}]
    BY <1>0, <1>1, <2>1 DEF Push, TypeOK
  <2>6. QED
    BY <1>0, <1>1, <2>2, <2>3, <2>4, <2>5 DEF Push, TypeOK, consumer
<1>2. ASSUME NEW p \in Producers, Link(p) PROVE TypeOK'
  <2>1. pushing[p] = "link"
    BY <1>2 DEF Link
  <2>2. PICK k \in 1..Len(order) : order[k] = <<p, sent[p]>>
    BY <2>1 DEF IInv, PushInv
  <2>3. <<p, sent[p]>> \in Messages
    BY <1>0, <2>2, Chain
  <2>4. QED
    BY <1>0, <1>2, <2>3 DEF Link, TypeOK, consumer
<1>3. ASSUME NEW p \in Producers, Notify(p) PROVE TypeOK'
  BY <1>0, <1>3 DEF Notify, TypeOK, consumer, shared
<1>4. CASE Consume
  <2>1. CASE Wake
    BY <1>0, <2>1 DEF Wake, TypeOK, shared, producers
  <2>2. CASE PopNothing
    BY <1>0, <2>2 DEF PopNothing, AfterPop, TypeOK, shared, producers
  <2>3. CASE PopEntry
    BY <1>0, <2>3 DEF PopEntry, Moved, AfterPop, TypeOK, producers, Entries
  <2>4. CASE Drain
    BY <1>0, <2>4 DEF Drain, TypeOK, shared, producers
  <2>5. CASE Take
    <3>1. result # Null => storage[result] \in Messages
      BY <1>0, Bounds, Chain DEF IInv, StorageInv
    <3>2. received \in Seq(Messages)
      BY <1>0 DEF TypeOK
    <3>3. received' \in Seq(Messages)
      BY <2>5, <3>1, <3>2, AppendProperties DEF Take
    <3>4. QED
      BY <1>0, <2>5, <3>3 DEF Take, TypeOK, producers
  <2>6. QED
    BY <1>4, <2>1, <2>2, <2>3, <2>4, <2>5 DEF Consume
<1>5. CASE UNCHANGED vars
  BY <1>0, <1>5 DEF vars, TypeOK, shared, producers, consumer
<1>6. QED
  BY <1>1, <1>2, <1>3, <1>4, <1>5 DEF Next, Finish

-----------------------------------------------------------------------------
(* push.                                                                   *)

\* The message that is pushed is new: it is not in the chain.
LEMMA NewMessage ==
  ASSUME TypeOK, OnceInv, NEW p \in Producers, Push(p)
  PROVE  /\ <<p, sent[p] + 1>> \in Messages
         /\ \A k \in 0..Len(order) : Entry(order, k) # <<p, sent[p] + 1>>
<1>1. sent[p] \in Nat /\ <<p, sent[p] + 1>> \in Messages
  BY MaxPushAssumption DEF Push, TypeOK, Messages
<1>2. \A k \in 1..Len(order) : order[k] # <<p, sent[p] + 1>>
  BY <1>1 DEF OnceInv
<1>3. QED
  BY <1>1, <1>2, Chain DEF Entry

LEMMA PushStep ==
  ASSUME IInv, NEW p \in Producers, Push(p)
  PROVE  OnceInv' /\ HeadInv' /\ PushInv' /\ LinkInv' /\ TailInv' /\ StorageInv'
<1> DEFINE m == <<p, sent[p] + 1>>
           n == Len(order)
<1>1. TypeOK /\ OnceInv /\ HeadInv /\ PushInv /\ LinkInv /\ TailInv /\ StorageInv
  BY DEF IInv
<1>2. m \in Messages /\ \A k \in 0..n : Entry(order, k) # m
  BY <1>1, NewMessage
<1>3. /\ pushing[p] = "no" /\ pushing' = [pushing EXCEPT ![p] = "link"]
      /\ prev' = [prev EXCEPT ![p] = head] /\ head' = m
      /\ storage' = [storage EXCEPT ![m] = m]
      /\ order' = Append(order, m)
      /\ sent' = [sent EXCEPT ![p] = @ + 1]
      /\ tail' = tail /\ next' = next /\ freed' = freed
      /\ popping' = popping /\ result' = result /\ received' = received
  BY DEF Push, Exchange, consumer
<1>4. /\ n \in Nat /\ Len(order') = n + 1
      /\ \A k \in 1..n : order'[k] = order[k]
      /\ order'[n + 1] = m
      /\ \A k \in 0..n : Entry(order', k) = Entry(order, k)
      /\ Entry(order', n + 1) = m
  BY <1>1, <1>2, <1>3, Longer DEF TypeOK
<1>5. /\ sent \in [Producers -> Nat] /\ prev \in [Producers -> Entries \cup {Null}]
      /\ pushing \in [Producers -> {"no", "link", "notify"}]
      /\ storage \in [Entries -> Messages \cup {None}] /\ m \in Entries
  BY <1>1, <1>2 DEF TypeOK, Entries
<1>6. \A k \in 1..n : order[k] \in Messages /\ order[k] # m /\ Entry(order, k) = order[k]
  BY <1>1, <1>2, Chain
<1> HIDE DEF m, n
<1>7. OnceInv'
  <2>1. \A k \in 1..n : order[k][2] <= sent'[order[k][1]]
    <3>1. \A q \in Producers : sent'[q] >= sent[q] /\ sent[q] \in Nat /\ sent'[q] \in Nat
      BY <1>3, <1>5
    <3>2. \A k \in 1..n : order[k][1] \in Producers /\ order[k][2] \in Nat
      BY <1>6, MaxPushAssumption DEF Messages
    <3>3. \A k \in 1..n : order[k][2] <= sent[order[k][1]]
      BY <1>1 DEF OnceInv, n
    <3>4. QED
      BY <3>1, <3>2, <3>3
  <2>2. m[2] <= sent'[m[1]]
    BY <1>3, <1>5 DEF m
  <2>3. \A k \in 1..(n + 1) : order'[k][2] <= sent'[order'[k][1]]
    BY <1>4, <2>1, <2>2
  <2>4. \A j, k \in 1..(n + 1) : order'[j] = order'[k] => j = k
    BY <1>1, <1>4, <1>6 DEF OnceInv, n
  <2>5. QED
    BY <1>4, <2>3, <2>4 DEF OnceInv
<1>8. HeadInv'
  <2>1. next[m] = Null
    BY <1>1, <1>2, <1>5 DEF HeadInv, m
  <2>2. ASSUME NEW q \in Messages, q[2] > sent'[q[1]] PROVE next[q] = Null
    <3>1. q[1] \in Producers /\ q[2] \in Nat
      BY MaxPushAssumption DEF Messages
    <3>2. q[2] > sent[q[1]]
      BY <1>3, <1>5, <2>2, <3>1
    <3>3. QED
      BY <1>1, <3>2 DEF HeadInv
  <2>3. QED
    BY <1>3, <1>4, <2>1, <2>2 DEF HeadInv
<1>9. PushInv'
  <2>1. SUFFICES ASSUME NEW q \in Producers, pushing'[q] = "link"
                 PROVE  \E k \in 1..Len(order') :
                          /\ order'[k] = <<q, sent'[q]>> /\ prev'[q] = Entry(order', k - 1)
                          /\ next'[prev'[q]] = Null
    BY DEF PushInv
  <2>2. CASE q = p
    <3>1. m = <<p, sent'[p]>> /\ prev'[p] = head
      BY <1>3, <1>5 DEF m
    <3>2. head = Entry(order', n) /\ next[head] = Null
      BY <1>1, <1>4 DEF HeadInv, n
    <3>3. QED
      BY <1>3, <1>4, <2>2, <3>1, <3>2
  <2>3. CASE q # p
    <3>1. pushing[q] = "link" /\ prev'[q] = prev[q] /\ sent'[q] = sent[q]
      BY <1>3, <1>5, <2>1, <2>3
    <3>2. PICK k \in 1..n : /\ order[k] = <<q, sent[q]>> /\ prev[q] = Entry(order, k - 1)
                            /\ next[prev[q]] = Null
      BY <1>1, <3>1 DEF PushInv, n
    <3>3. k \in 1..(n + 1) /\ k - 1 \in 0..n
      BY <1>4
    <3>4. QED
      BY <1>3, <1>4, <3>1, <3>2, <3>3
  <2>4. QED
    BY <2>2, <2>3
<1>10. LinkInv'
  <2>1. SUFFICES ASSUME NEW k \in 1..(n + 1)
                 PROVE  \/ next[Entry(order', k - 1)] = order'[k]
                        \/ \E q \in Producers : /\ pushing'[q] = "link"
                                                /\ prev'[q] = Entry(order', k - 1)
    BY <1>3, <1>4 DEF LinkInv
  <2>2. CASE k = n + 1
    <3>1. pushing'[p] = "link" /\ prev'[p] = head
      BY <1>3, <1>5
    <3>2. head = Entry(order', k - 1)
      BY <1>1, <1>4, <2>2 DEF HeadInv, n
    <3>3. QED
      BY <3>1, <3>2
  <2>3. CASE k \in 1..n
    <3>1. \/ next[Entry(order, k - 1)] = order[k]
          \/ \E q \in Producers : pushing[q] = "link" /\ prev[q] = Entry(order, k - 1)
      BY <1>1, <2>3 DEF LinkInv, n
    <3>2. Entry(order', k - 1) = Entry(order, k - 1) /\ order'[k] = order[k]
      BY <1>4, <2>3
    <3>3. \A q \in Producers : pushing[q] = "link" => q # p /\ pushing'[q] = "link" /\ prev'[q] = prev[q]
      BY <1>3, <1>5
    <3>4. QED
      BY <3>1, <3>2, <3>3
  <2>4. QED
    BY <1>4, <2>2, <2>3
<1>11. TailInv' /\ StorageInv'
  <2>1. Popped' = Popped /\ Popped \in 0..n /\ Len(received) \in 0..n
    BY <1>1, <1>3, Bounds DEF Popped, n
  <2>2. freed' = {Entry(order', k) : k \in 0..(Len(received) - 1)}
    <3>1. \A k \in 0..(Len(received) - 1) : Entry(order', k) = Entry(order, k)
      BY <1>4, <2>1
    <3>2. QED
      BY <1>1, <1>3, <3>1 DEF TailInv
  <2>3. \A k \in 1..Popped : next[Entry(order', k - 1)] = order'[k]
    <3>1. \A k \in 1..Popped : k \in 1..n /\ k - 1 \in 0..n
      BY <1>4, <2>1
    <3>2. QED
      BY <1>1, <1>4, <3>1 DEF TailInv
  <2>4. TailInv'
    BY <1>1, <1>3, <1>4, <2>1, <2>2, <2>3 DEF TailInv
  <2>5. result # Null => result # m
    BY <1>1, <1>2, <2>1, Bounds DEF n
  <2>6. result # Null => Popped \in 1..n
    BY <1>1, <2>1, Bounds
  <2>7. result # Null => storage'[result] = order'[Popped]
    BY <1>1, <1>3, <1>4, <1>5, <2>5, <2>6 DEF StorageInv, TypeOK
  <2>8. \A k \in (Popped + 1)..(n + 1) : storage'[order'[k]] = order'[k]
    <3>1. \A k \in (Popped + 1)..n : storage[order[k]] = order[k]
      BY <1>1 DEF StorageInv, n
    <3>2. \A k \in 1..n : storage'[order[k]] = storage[order[k]]
      BY <1>3, <1>5, <1>6 DEF Entries
    <3>3. storage'[m] = m
      BY <1>3, <1>5
    <3>4. QED
      BY <1>4, <2>1, <3>1, <3>2, <3>3
  <2>9. \A k \in 1..Len(received) : received[k] = order'[k]
    BY <1>1, <1>4, <2>1 DEF StorageInv
  <2>10. QED
    BY <1>3, <1>4, <2>1, <2>4, <2>7, <2>8, <2>9 DEF StorageInv
<1>12. QED
  BY <1>7, <1>8, <1>9, <1>10, <1>11

LEMMA LinkStep ==
  ASSUME IInv, NEW p \in Producers, Link(p)
  PROVE  OnceInv' /\ HeadInv' /\ PushInv' /\ LinkInv' /\ TailInv' /\ StorageInv'
<1> DEFINE m == <<p, sent[p]>>
           n == Len(order)
<1>1. TypeOK /\ OnceInv /\ HeadInv /\ PushInv /\ LinkInv /\ TailInv /\ StorageInv
  BY DEF IInv
<1>2. /\ pushing[p] = "link"
      /\ next' = [next EXCEPT ![prev[p]] = m]
      /\ pushing' = [pushing EXCEPT ![p] = IF Polling THEN "notify" ELSE "no"]
      /\ prev' = prev /\ head' = head /\ storage' = storage
      /\ order' = order /\ sent' = sent /\ tail' = tail /\ freed' = freed
      /\ popping' = popping /\ result' = result /\ received' = received
  BY DEF Link, consumer
<1>3. PICK k \in 1..n : order[k] = m /\ prev[p] = Entry(order, k - 1) /\ next[prev[p]] = Null
  BY <1>1, <1>2 DEF PushInv
<1>4. /\ n \in Nat /\ k - 1 \in 0..n
      /\ \A j \in 1..n : order[j] \in Messages /\ Entry(order, j) = order[j] /\ j - 1 \in 0..n
      /\ \A j \in 0..n : Entry(order, j) \in Entries
      /\ \A i, j \in 0..n : Entry(order, i) = Entry(order, j) => i = j
      /\ Sentinel \notin Messages /\ Null \notin Entries
  BY <1>1, Chain
<1> HIDE DEF m, n
<1>5. /\ pushing \in [Producers -> {"no", "link", "notify"}]
      /\ next \in [Entries -> Messages \cup {Null}]
      /\ prev[p] \in Entries /\ m \in Messages
  <2>1. prev[p] \in Entries /\ m \in Messages
    BY <1>3, <1>4
  <2>2. QED
    BY <1>1, <2>1 DEF TypeOK
<1>6. /\ next'[prev[p]] = m
      /\ \A e \in Entries : e # prev[p] => next'[e] = next[e]
  BY <1>2, <1>5
<1>7. /\ pushing'[p] # "link"
      /\ \A q \in Producers : q # p => pushing'[q] = pushing[q]
  BY <1>2, <1>5
<1>8. OnceInv'
  BY <1>1, <1>2 DEF OnceInv
<1>9. HeadInv'
  <2>1. head \in Entries /\ head # prev[p]
    BY <1>1, <1>3, <1>4 DEF HeadInv, n
  <2>2. ASSUME NEW q \in Messages, q[2] > sent[q[1]] PROVE q \in Entries /\ q # prev[p]
    <3>1. CASE k = 1
      BY <1>3, <1>4, <3>1 DEF Entry, Entries
    <3>2. CASE k # 1
      <4>1. k - 1 \in 1..n
        BY <1>4, <3>2
      <4>2. order[k - 1][2] <= sent[order[k - 1][1]] /\ prev[p] = order[k - 1]
        BY <1>1, <1>3, <1>4, <4>1 DEF OnceInv, n
      <4>3. ~(q[2] <= sent[q[1]])
        BY <1>1, <2>2, MaxPushAssumption DEF Messages, TypeOK
      <4>4. QED
        BY <4>2, <4>3 DEF Entries
    <3>3. QED
      BY <3>1, <3>2
  <2>3. QED
    BY <1>1, <1>2, <1>6, <2>1, <2>2 DEF HeadInv
<1>10. PushInv'
  <2> USE DEF m
  <2>1. SUFFICES ASSUME NEW q \in Producers, pushing'[q] = "link"
                 PROVE  \E j \in 1..n :
                          /\ order[j] = <<q, sent[q]>> /\ prev[q] = Entry(order, j - 1)
                          /\ next'[prev[q]] = Null
    BY <1>2 DEF PushInv, n
  <2>2. q # p /\ pushing[q] = "link"
    BY <1>7, <2>1
  <2>3. PICK j \in 1..n : /\ order[j] = <<q, sent[q]>> /\ prev[q] = Entry(order, j - 1)
                          /\ next[prev[q]] = Null
    BY <1>1, <2>2 DEF PushInv, n
  <2>4. j # k
    BY <1>3, <2>2, <2>3
  <2>5. prev[q] # prev[p] /\ prev[q] \in Entries
    BY <1>3, <1>4, <2>3, <2>4
  <2>6. QED
    BY <1>6, <2>3, <2>5
<1>11. LinkInv'
  <2>1. SUFFICES ASSUME NEW j \in 1..n
                 PROVE  \/ next'[Entry(order, j - 1)] = order[j]
                        \/ \E q \in Producers : /\ pushing'[q] = "link"
                                                /\ prev[q] = Entry(order, j - 1)
    BY <1>2 DEF LinkInv, n
  <2>2. CASE j = k
    BY <1>3, <1>6, <2>2
  <2>3. CASE j # k
    <3>1. Entry(order, j - 1) # prev[p] /\ Entry(order, j - 1) \in Entries
      BY <1>3, <1>4, <2>3
    <3>2. \/ next[Entry(order, j - 1)] = order[j]
          \/ \E q \in Producers : pushing[q] = "link" /\ prev[q] = Entry(order, j - 1)
      BY <1>1 DEF LinkInv, n
    <3>3. QED
      BY <1>6, <1>7, <3>1, <3>2
  <2>4. QED
    BY <2>2, <2>3
<1>12. TailInv'
  <2>1. Popped' = Popped /\ Popped \in 0..n
    BY <1>1, <1>2, Bounds DEF Popped, n
  <2>2. ASSUME NEW j \in 1..Popped PROVE next'[Entry(order, j - 1)] = order[j]
    <3>1. next[Entry(order, j - 1)] = order[j] /\ j \in 1..n
      BY <1>1, <1>4, <2>1 DEF TailInv
    <3>2. j # k
      BY <1>3, <1>4, <3>1 DEF Entries
    <3>3. Entry(order, j - 1) # prev[p] /\ Entry(order, j - 1) \in Entries
      BY <1>3, <1>4, <3>1, <3>2
    <3>4. QED
      BY <1>6, <3>1, <3>3
  <2>3. QED
    BY <1>1, <1>2, <2>1, <2>2 DEF TailInv
<1>13. StorageInv'
  BY <1>1, <1>2 DEF StorageInv, Popped
<1>14. QED
  BY <1>8, <1>9, <1>10, <1>11, <1>12, <1>13

\* Steps that leave the queue and the messages in flight alone: the event is
\* written or read, the consumer goes to sleep or wakes up.
LEMMA QuietStep ==
  ASSUME IInv, UNCHANGED <<head, tail, next, storage, freed, prev, sent, received, order>>,
         result' = result, result' # Null => popping' \in {"drain", "take"},
         \A p \in Producers : pushing'[p] = "link" <=> pushing[p] = "link"
  PROVE  OnceInv' /\ HeadInv' /\ PushInv' /\ LinkInv' /\ TailInv' /\ StorageInv'
<1>1. TypeOK /\ OnceInv /\ HeadInv /\ PushInv /\ LinkInv /\ TailInv /\ StorageInv
  BY DEF IInv
<1>2. OnceInv' /\ HeadInv'
  BY <1>1 DEF OnceInv, HeadInv
<1>3. PushInv' /\ LinkInv'
  BY <1>1 DEF PushInv, LinkInv
<1>4. TailInv' /\ StorageInv'
  BY <1>1 DEF TailInv, StorageInv, Popped
<1>5. QED
  BY <1>2, <1>3, <1>4

-----------------------------------------------------------------------------
(* pop and popSafe.                                                        *)

LEMMA PopStep ==
  ASSUME IInv, PopEntry
  PROVE  OnceInv' /\ HeadInv' /\ PushInv' /\ LinkInv' /\ TailInv' /\ StorageInv'
<1> DEFINE n == Len(order)
           r == Len(received)
<1>1. TypeOK /\ OnceInv /\ HeadInv /\ PushInv /\ LinkInv /\ TailInv /\ StorageInv
  BY DEF IInv
<1>2. /\ popping = "pop" /\ next[tail] # Null
      /\ storage' = [storage EXCEPT ![tail] = storage[next[tail]], ![next[tail]] = None]
      /\ tail' = next[tail] /\ result' = tail /\ popping' \in {"drain", "take"}
      /\ head' = head /\ next' = next /\ freed' = freed /\ pushing' = pushing
      /\ prev' = prev /\ sent' = sent /\ received' = received /\ order' = order
  BY DEF PopEntry, Moved, AfterPop, producers
<1>3. /\ n \in Nat /\ r \in Nat
      /\ \A j \in 1..n : order[j] \in Messages /\ Entry(order, j) = order[j]
      /\ \A j \in 0..n : Entry(order, j) \in Entries
      /\ \A i, j \in 0..n : Entry(order, i) = Entry(order, j) => i = j
      /\ Null \notin Entries
  BY <1>1, Chain
<1>4. result = Null /\ Popped = r /\ r \in 0..n /\ tail = Entry(order, r)
  BY <1>1, <1>2, Bounds DEF TailInv
<1> HIDE DEF n, r
<1>5. r # n
  BY <1>1, <1>2, <1>4 DEF HeadInv, n
<1>6. r + 1 \in 1..n /\ (r + 1) - 1 = r
  BY <1>3, <1>4, <1>5
<1>7. next[tail] = order[r + 1]
  <2>1. \/ next[tail] = order[r + 1]
        \/ \E p \in Producers : pushing[p] = "link" /\ prev[p] = tail
    BY <1>1, <1>4, <1>6 DEF LinkInv, n
  <2>2. ASSUME NEW p \in Producers, pushing[p] = "link", prev[p] = tail PROVE FALSE
    BY <1>1, <1>2, <2>2 DEF PushInv
  <2>3. QED
    BY <2>1, <2>2
<1>8. OnceInv' /\ HeadInv' /\ PushInv' /\ LinkInv'
  BY <1>1, <1>2 DEF OnceInv, HeadInv, PushInv, LinkInv
<1>9. Popped' = r + 1
  BY <1>1, <1>2, <1>3, <1>4 DEF Popped, r, TypeOK
<1>10. TailInv'
  <2>1. tail' = Entry(order, r + 1) /\ r + 1 <= n
    BY <1>2, <1>3, <1>6, <1>7
  <2>2. \A k \in 1..(r + 1) : next[Entry(order, k - 1)] = order[k]
    BY <1>1, <1>3, <1>4, <1>6, <1>7 DEF TailInv
  <2>3. QED
    BY <1>1, <1>2, <1>4, <1>9, <2>1, <2>2 DEF TailInv, n, r
<1>11. StorageInv'
  <2>1. storage \in [Entries -> Messages \cup {None}] /\ tail \in Entries /\ next[tail] \in Entries
    BY <1>1, <1>3, <1>4, <1>6, <1>7 DEF TypeOK, Entries
  <2>2. tail # next[tail]
    BY <1>3, <1>4, <1>6, <1>7
  <2>3. storage[order[r + 1]] = order[r + 1]
    BY <1>1, <1>4, <1>6 DEF StorageInv, n
  <2>4. storage'[tail] = order[r + 1]
    BY <1>2, <1>7, <2>1, <2>2, <2>3
  <2>5. ASSUME NEW k \in ((r + 1) + 1)..n PROVE storage'[order[k]] = order[k]
    <3>1. k \in 1..n /\ k \in 0..n /\ k # r /\ k # r + 1 /\ k \in (r + 1)..n
      BY <1>3, <1>4, <1>6
    <3>2. order[k] \in Entries /\ order[k] # tail /\ order[k] # next[tail]
      BY <1>3, <1>4, <1>6, <1>7, <3>1 DEF Entries
    <3>3. storage[order[k]] = order[k]
      BY <1>1, <1>4, <3>1 DEF StorageInv, n
    <3>4. QED
      BY <1>2, <2>1, <3>2, <3>3
  <2>6. QED
    BY <1>1, <1>2, <1>9, <2>4, <2>5 DEF StorageInv, n
<1>12. QED
  BY <1>8, <1>10, <1>11

LEMMA TakeStep ==
  ASSUME IInv, Take, result # Null
  PROVE  OnceInv' /\ HeadInv' /\ PushInv' /\ LinkInv' /\ TailInv' /\ StorageInv'
<1> DEFINE n == Len(order)
           r == Len(received)
<1>1. TypeOK /\ OnceInv /\ HeadInv /\ PushInv /\ LinkInv /\ TailInv /\ StorageInv
  BY DEF IInv
<1>2. /\ received' = Append(received, storage[result])
      /\ storage' = [storage EXCEPT ![result] = None]
      /\ freed' = freed \cup {result} /\ result' = Null
      /\ head' = head /\ tail' = tail /\ next' = next /\ pushing' = pushing
      /\ prev' = prev /\ sent' = sent /\ order' = order
  BY DEF Take, producers
<1>3. /\ n \in Nat /\ r \in Nat
      /\ \A j \in 1..n : order[j] \in Messages /\ Entry(order, j) = order[j]
      /\ \A j \in 0..n : Entry(order, j) \in Entries
      /\ \A i, j \in 0..n : Entry(order, i) = Entry(order, j) => i = j
  BY <1>1, Chain
<1>4. Popped = r + 1 /\ r + 1 \in 1..n /\ result = Entry(order, r)
  BY <1>1, <1>3, Bounds
<1>5. storage[result] = order[r + 1] /\ order[r + 1] \in Messages
  BY <1>1, <1>3, <1>4 DEF StorageInv
<1>6. /\ Len(received') = r + 1
      /\ \A k \in 1..r : received'[k] = received[k]
      /\ received'[r + 1] = order[r + 1]
  BY <1>1, <1>2, <1>5, AppendProperties DEF TypeOK
<1> HIDE DEF n, r
<1>7. OnceInv' /\ HeadInv' /\ PushInv' /\ LinkInv'
  BY <1>1, <1>2 DEF OnceInv, HeadInv, PushInv, LinkInv
<1>8. Popped' = r + 1
  BY <1>2, <1>3, <1>6 DEF Popped
<1>9. TailInv'
  <2>1. freed' = {Entry(order, k) : k \in 0..((r + 1) - 1)}
    <3>1. 0..((r + 1) - 1) = 0..(r - 1) \cup {r}
      BY <1>3
    <3>2. QED
      BY <1>1, <1>2, <1>4, <3>1 DEF TailInv, r
  <2>2. QED
    BY <1>1, <1>2, <1>4, <1>6, <1>8, <2>1 DEF TailInv
<1>10. StorageInv'
  <2>1. ASSUME NEW k \in ((r + 1) + 1)..n PROVE storage'[order[k]] = order[k]
    <3>1. k \in 1..n /\ k \in 0..n /\ r \in 0..n /\ k # r /\ k \in (Popped + 1)..n
      BY <1>3, <1>4
    <3>2. order[k] # result /\ order[k] \in Entries
      BY <1>3, <1>4, <3>1 DEF Entries
    <3>3. storage[order[k]] = order[k]
      BY <1>1, <3>1 DEF StorageInv, n
    <3>4. QED
      BY <1>1, <1>2, <3>2, <3>3 DEF TypeOK
  <2>2. \A k \in 1..(r + 1) : received'[k] = order[k]
    BY <1>1, <1>3, <1>5, <1>6 DEF StorageInv, r
  <2>3. QED
    BY <1>2, <1>6, <1>8, <2>1, <2>2 DEF StorageInv, n
<1>11. QED
  BY <1>7, <1>9, <1>10

-----------------------------------------------------------------------------
(* The invariant holds in every state.                                     *)

LEMMA InitInv == Init => IInv
<1> SUFFICES ASSUME Init PROVE IInv
  OBVIOUS
<1>1. order = <<>> /\ received = <<>> /\ Len(order) = 0 /\ Len(received) = 0
  BY EmptySeq DEF Init
<1>2. Popped = 0
  BY <1>1 DEF Init, Popped
<1>3. TypeOK
  BY TypeInit
<1>4. OnceInv /\ PushInv /\ LinkInv /\ StorageInv
  BY <1>1, <1>2 DEF Init, OnceInv, PushInv, LinkInv, StorageInv
<1>5. HeadInv
  BY <1>1 DEF Init, HeadInv, Entry, Entries
<1>6. TailInv
  BY <1>1, <1>2 DEF Init, TailInv, Entry
<1>7. QED
  BY <1>3, <1>4, <1>5, <1>6 DEF IInv

LEMMA NextInv == IInv /\ [Next]_vars => IInv'
<1> SUFFICES ASSUME IInv, [Next]_vars
             PROVE  OnceInv' /\ HeadInv' /\ PushInv' /\ LinkInv' /\ TailInv' /\ StorageInv'
  BY TypeStep DEF IInv
<1>0. TypeOK /\ (result # Null => popping \in {"drain", "take"})
  BY DEF IInv, TailInv
<1>1. ASSUME NEW p \in Producers, Notify(p)
      PROVE  OnceInv' /\ HeadInv' /\ PushInv' /\ LinkInv' /\ TailInv' /\ StorageInv'
  BY <1>0, <1>1, QuietStep DEF Notify, TypeOK, shared, consumer
<1>2. CASE Wake
  <2>1. popping = "asleep" /\ result = Null
    BY <1>2 DEF Wake, IInv, TailInv, TypeOK
  <2>2. QED
    BY <1>2, <2>1, QuietStep DEF Wake, shared, producers
<1>3. CASE PopNothing
  BY <1>0, <1>3, QuietStep DEF PopNothing, AfterPop, shared, producers
<1>4. CASE Drain
  BY <1>0, <1>4, QuietStep DEF Drain, shared, producers
<1>5. CASE Take /\ result = Null
  BY <1>0, <1>5, QuietStep DEF Take, producers
<1>6. CASE UNCHANGED vars
  BY <1>0, <1>6, QuietStep DEF vars, shared, producers, consumer
<1>7. QED
  BY <1>1, <1>2, <1>3, <1>4, <1>5, <1>6, PushStep, LinkStep, PopStep, TakeStep
     DEF Next, Finish, Consume

THEOREM Invariance == Spec => []IInv
<1>1. Init => IInv
  BY InitInv
<1>2. IInv /\ [Next]_vars => IInv'
  BY NextInv
<1>3. QED
  BY <1>1, <1>2, PTL DEF Spec

-----------------------------------------------------------------------------
(* What follows from it.                                                   *)

LEMMA InvInOrder == IInv => InOrder
<1> SUFFICES ASSUME IInv PROVE InOrder
  OBVIOUS
<1>1. TypeOK /\ OnceInv /\ TailInv /\ StorageInv
  BY DEF IInv
<1>2. Len(received) \in 0..Len(order)
  BY <1>1, Bounds
<1>3. QED
  BY <1>1, <1>2 DEF InOrder, IsPrefixOf, StorageInv

\* Whatever the threads do in between, messages come out in the order in which
\* their producers took the head, each once (mailbox.h:204-240).
THEOREM FirstInFirstOut == Spec => []InOrder
BY InvInOrder, Invariance, PTL

LEMMA InvNoUseAfterFree == IInv => NoUseAfterFree
<1> SUFFICES ASSUME IInv PROVE NoUseAfterFree
  OBVIOUS
<1> DEFINE n == Len(order)
           r == Len(received)
<1>1. TypeOK /\ OnceInv /\ HeadInv /\ PushInv /\ TailInv
  BY DEF IInv
<1>2. /\ n \in Nat /\ r \in 0..n /\ Popped \in r..n
      /\ tail = Entry(order, Popped) /\ head = Entry(order, n)
      /\ result # Null => result = Entry(order, r)
      /\ freed = {Entry(order, k) : k \in 0..(r - 1)}
  BY <1>1, Bounds, Chain DEF HeadInv, TailInv
<1>3. ASSUME NEW j \in r..n PROVE Entry(order, j) \notin freed
  <2>1. \A k \in 0..(r - 1) : k \in 0..n /\ j \in 0..n /\ k # j
    BY <1>2
  <2>2. \A k \in 0..(r - 1) : Entry(order, k) # Entry(order, j)
    BY <1>1, <2>1, Chain
  <2>3. QED
    BY <1>2, <2>2
<1>4. tail \notin freed /\ head \notin freed
  BY <1>2, <1>3
<1>5. result \notin freed
  <2>1. CASE result = Null
    BY <1>1, <2>1, NamesAssumption DEF TypeOK, Entries, Messages
  <2>2. CASE result # Null
    BY <1>2, <1>3, <2>2
  <2>3. QED
    BY <2>1, <2>2
<1>6. ASSUME NEW p \in Producers, pushing[p] = "link" PROVE prev[p] \notin freed
  <2>1. PICK k \in 1..n : prev[p] = Entry(order, k - 1) /\ next[prev[p]] = Null
    BY <1>1, <1>6 DEF PushInv
  <2>2. order[k] # Null
    BY <1>1, Chain DEF Entries
  <2>3. k \notin 1..Popped
    BY <1>1, <2>1, <2>2 DEF TailInv
  <2>4. k - 1 \in r..n
    BY <1>2, <2>3
  <2>5. QED
    BY <1>3, <2>1, <2>4
<1>7. QED
  BY <1>4, <1>5, <1>6 DEF NoUseAfterFree

\* No thread follows a pointer to an entry that popSafe has deleted: not the
\* consumer, and not the producer that has yet to link its predecessor, however
\* long it sleeps between the exchange and the link (mailbox.h:208-210, 249-255).
THEOREM NothingDangles == Spec => []NoUseAfterFree
BY InvNoUseAfterFree, Invariance, PTL

LEMMA InvHidden == IInv => Hidden
<1> SUFFICES ASSUME IInv PROVE Hidden
  OBVIOUS
<1> DEFINE n == Len(order)
<1>1. TypeOK /\ OnceInv /\ HeadInv /\ LinkInv /\ TailInv
  BY DEF IInv
<1>2. /\ n \in Nat /\ Popped \in 0..n /\ Waiting = n - Popped
      /\ tail = Entry(order, Popped) /\ head = Entry(order, n)
  BY <1>1, Bounds, Chain DEF HeadInv, Waiting
<1>3. HiddenOnlyByPush
  <2>1. SUFFICES ASSUME Waiting > 0, next[tail] = Null
                 PROVE  \E p \in Producers : pushing[p] = "link" /\ prev[p] = tail
    BY DEF HiddenOnlyByPush
  <2>2. Popped + 1 \in 1..n /\ (Popped + 1) - 1 = Popped
    BY <1>2, <2>1
  <2>3. order[Popped + 1] # Null
    BY <1>1, <2>2, Chain DEF Entries
  <2>4. QED
    BY <1>1, <1>2, <2>1, <2>2, <2>3 DEF LinkInv
<1>4. EmptyWhenEqual
  <2>1. (head = tail) <=> (Popped = n)
    BY <1>1, <1>2, Chain
  <2>2. (Waiting = 0) <=> (Popped = n)
    BY <1>2
  <2>3. QED
    BY <2>1, <2>2 DEF EmptyWhenEqual
<1>5. QED
  BY <1>3, <1>4 DEF Hidden

\* pop says that there is nothing only if all was popped or the next producer is
\* in the middle of push, and empty() is true just when all was popped
\* (mailbox.h:213-227).
THEOREM NothingHidden == Spec => []Hidden
BY InvHidden, Invariance, PTL
=============================================================================
