---------------------------- MODULE BoundedQueue ----------------------------
(***************************************************************************)
(* MPMCQueue: the bounded queue of Pistache for many threads on both ends. *)
(* Every cell has a sequence number that says whose turn it is: a thread   *)
(* takes a ticket by moving an index, and the cell by the ticket.          *)
(* Source: pistache/mailbox.h.                                             *)
(*                                                                         *)
(* One action is one access to an atomic or to the data of a cell.  A load *)
(* gives the value stored last, as on the processors the program runs on;  *)
(* indices do not wrap within a run.                                       *)
(***************************************************************************)
EXTENDS Integers, Sequences, FiniteSets

CONSTANTS
  Threads,      \* those that call enqueue and dequeue
  Size,         \* how many cells there are, a power of two
  MaxCalls,     \* how many calls each thread makes
  None          \* no data

Values == Threads \X (1..MaxCalls)
Cells == 0..(Size - 1)
cell(i) == i % Size

VARIABLES
  enqueueIndex, dequeueIndex,
  sequence,     \* cell -> its number
  data,         \* cell -> what was stored in it last
  at,           \* thread -> where it is
  index,        \* thread -> its local variable
  item,         \* thread -> what it stores, or has read
  called,       \* thread -> how many calls it has begun
  verdict,      \* thread -> what its last call returned
  put,          \* history: the values in the order of their tickets
  got           \* history: ticket -> the value read with it, or None

queue == <<enqueueIndex, dequeueIndex, sequence, data>>
history == <<put, got>>
vars == <<queue, at, index, item, called, verdict, history>>

Go(t, place) == at' = [at EXCEPT ![t] = place]
Idle(t) == at[t] = "idle"
Return(t, v) == Go(t, "idle") /\ verdict' = [verdict EXCEPT ![t] = v]

\* A call begins: the index is read.
Begin(t) ==
  /\ Idle(t) /\ called[t] < MaxCalls
  /\ called' = [called EXCEPT ![t] = @ + 1]

enqueue(t) ==
  /\ Begin(t) /\ Go(t, "enqueue")
  /\ index' = [index EXCEPT ![t] = enqueueIndex]
  /\ item' = [item EXCEPT ![t] = <<t, called[t] + 1>>]
  /\ UNCHANGED <<queue, verdict, history>>

dequeue(t) ==
  /\ Begin(t) /\ Go(t, "dequeue")
  /\ index' = [index EXCEPT ![t] = dequeueIndex]
  /\ item' = [item EXCEPT ![t] = None]
  /\ UNCHANGED <<queue, verdict, history>>

\* Mutant of Turn: a reader takes the number of a free cell for its own.
Turn_OffByOne(t) == index[t]

\* The sequence number at which it is the turn of the ticket.
Turn(t) == IF at[t] = "enqueue" THEN index[t] ELSE index[t] + 1
Diff(t) == sequence[cell(index[t])] - Turn(t)
Looking(t) == at[t] \in {"enqueue", "dequeue"}

\* Mutant of Refused: the call gives up as well when it comes too late.
Refused_TooLate(t) == Looking(t) /\ Diff(t) # 0 /\ Return(t, "false")
                        /\ UNCHANGED <<queue, index, item, called, history>>

\* The cell is not free, or not filled, yet.
Refused(t) ==
  /\ Looking(t) /\ Diff(t) < 0
  /\ Return(t, "false")
  /\ UNCHANGED <<queue, index, item, called, history>>

\* The ticket is gone: the index is read again.
Reload(t) ==
  /\ Looking(t) /\ Diff(t) > 0
  /\ index' = [index EXCEPT ![t] = IF at[t] = "enqueue" THEN enqueueIndex ELSE dequeueIndex]
  /\ UNCHANGED <<queue, at, item, called, verdict, history>>

\* It is its turn: what is left is to move the index.
MyTurn(t) ==
  /\ Looking(t) /\ Diff(t) = 0
  /\ Go(t, IF at[t] = "enqueue" THEN "claimIn" ELSE "claimOut")
  /\ UNCHANGED <<queue, index, item, called, verdict, history>>

\* compare_exchange_weak succeeds: the ticket is the thread's.
Claim(t) ==
  \/ /\ at[t] = "claimIn" /\ index[t] = enqueueIndex
     /\ enqueueIndex' = index[t] + 1 /\ UNCHANGED dequeueIndex
     /\ put' = Append(put, item[t]) /\ UNCHANGED got
     /\ Go(t, "store")
     /\ UNCHANGED <<sequence, data, index, item, called, verdict>>
  \/ /\ at[t] = "claimOut" /\ index[t] = dequeueIndex
     /\ dequeueIndex' = index[t] + 1 /\ UNCHANGED enqueueIndex
     /\ Go(t, "fetch")
     /\ UNCHANGED <<sequence, data, index, item, called, verdict, history>>

\* It fails, because the index has moved or for no reason, and has read the
\* index anew.
ClaimFails(t) ==
  /\ at[t] \in {"claimIn", "claimOut"}
  /\ index' = [index EXCEPT ![t] = IF at[t] = "claimIn" THEN enqueueIndex ELSE dequeueIndex]
  /\ Go(t, IF at[t] = "claimIn" THEN "enqueue" ELSE "dequeue")
  /\ UNCHANGED <<queue, item, called, verdict, history>>

\* The data is stored in the cell, or read from it.
Access(t) ==
  \/ /\ at[t] = "store"
     /\ data' = [data EXCEPT ![cell(index[t])] = item[t]]
     /\ Go(t, "publish")
     /\ UNCHANGED <<item, got>>
  \/ /\ at[t] = "fetch"
     /\ item' = [item EXCEPT ![t] = data[cell(index[t])]]
     /\ got' = Append(got, <<index[t], item'[t]>>)
     /\ Go(t, "release")
     /\ UNCHANGED data
Move(t) ==
  /\ Access(t)
  /\ UNCHANGED <<enqueueIndex, dequeueIndex, sequence, index, called, verdict, put>>

\* The next one whose turn it is: the reader of the same ticket, or the writer
\* of the ticket one round later.
NextTurn(t) == IF at[t] = "publish" THEN index[t] + 1 ELSE index[t] + (Size - 1) + 1

HandOver(t) ==
  /\ at[t] \in {"publish", "release"}
  /\ sequence' = [sequence EXCEPT ![cell(index[t])] = NextTurn(t)]
  /\ Return(t, "true")
  /\ UNCHANGED <<enqueueIndex, dequeueIndex, data, index, item, called, history>>

-----------------------------------------------------------------------------
Init ==
  /\ enqueueIndex = 0 /\ dequeueIndex = 0
  /\ sequence = [c \in Cells |-> c] /\ data = [c \in Cells |-> None]
  /\ at = [t \in Threads |-> "idle"] /\ index = [t \in Threads |-> 0]
  /\ item = [t \in Threads |-> None] /\ called = [t \in Threads |-> 0]
  /\ verdict = [t \in Threads |-> "none"]
  /\ put = <<>> /\ got = <<>>

Work(t) == Refused(t) \/ Reload(t) \/ MyTurn(t) \/ Move(t) \/ HandOver(t)

Next == \E t \in Threads : enqueue(t) \/ dequeue(t) \/ Work(t) \/ Claim(t) \/ ClaimFails(t)

\* Threads are scheduled, and compare_exchange_weak does not fail for ever
\* while nothing else happens.
Spec == Init /\ [][Next]_vars
          /\ \A t \in Threads : WF_vars(Work(t) \/ ClaimFails(t)) /\ SF_vars(Claim(t))

-----------------------------------------------------------------------------
(* Properties.                                                             *)

TypeOK ==
  /\ enqueueIndex \in Nat /\ dequeueIndex \in Nat
  /\ sequence \in [Cells -> Nat] /\ data \in [Cells -> Values \cup {None}]
  /\ at \in [Threads -> {"idle", "enqueue", "dequeue", "claimIn", "claimOut",
                         "store", "fetch", "publish", "release"}]
  /\ index \in [Threads -> Nat] /\ item \in [Threads -> Values \cup {None}]
  /\ called \in [Threads -> 0..MaxCalls]
  /\ verdict \in [Threads -> {"none", "false", "true"}]
  /\ put \in Seq(Values) /\ got \in Seq(Nat \X (Values \cup {None}))
  /\ Len(put) = enqueueIndex

\* The data of a cell is no atomic: no two threads are at it at once
\* (mailbox.h:392 and 415).
Exclusive ==
  \A t, u \in Threads :
    t # u /\ at[t] \in {"store", "fetch"} /\ at[u] \in {"store", "fetch"} =>
      cell(index[t]) # cell(index[u])

\* A value is read with the ticket with which it was stored, and only once:
\* no value is lost, repeated or overtaken (mailbox.h:374-419).
Handed ==
  \A k \in 1..Len(got) :
    /\ got[k][1] < Len(put) /\ got[k][2] = put[got[k][1] + 1]
    /\ \A j \in 1..Len(got) : got[j][1] = got[k][1] => j = k

\* A call that no other runs beside is refused only by a full queue, or by an
\* empty one (mailbox.h:387 and 409-410): what an interrupted call leaves
\* behind does not make it wrong.
Alone(t) == \A u \in Threads \ {t} : Idle(u)
RefusedRightly ==
  [][\A t \in Threads : ~Idle(t) /\ Return(t, "false") /\ Alone(t) =>
       enqueueIndex - dequeueIndex = IF at[t] = "enqueue" THEN Size ELSE 0]_vars

\* Every call returns (mailbox.h:377 and 400 are loops without an end): there
\* are finitely many, and in the end nobody is in one.
CallsReturn == []<>(\A t \in Threads : Idle(t))
=============================================================================
