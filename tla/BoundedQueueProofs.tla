------------------------- MODULE BoundedQueueProofs -------------------------
(***************************************************************************)
(* Proofs about BoundedQueue, for any number of threads and of calls and   *)
(* every size of two cells and more, powers of two or not.                 *)
(*                                                                         *)
(* The argument: each cell is in the turn of one ticket, its round.  The   *)
(* sequence number says whether the writer of that ticket is still to      *)
(* come, or the value is there and its reader is.  Who took a ticket finds *)
(* the number of its turn unchanged until he changes it himself.           *)
(***************************************************************************)
EXTENDS BoundedQueue, SequenceTheorems, TLAPS

\* What static_assert asks of the size (mailbox.h:334), without the power of two.
LegalSize == Size \in Nat /\ Size >= 2 /\ MaxCalls \in Nat

-----------------------------------------------------------------------------
(* Cells and tickets.                                                      *)

LEMMA CellInCells ==
  ASSUME LegalSize, NEW i \in Nat
  PROVE  cell(i) \in Cells
BY DEF LegalSize, cell, Cells

\* Two tickets have the same cell just when whole rounds lie between them.
LEMMA Rounds ==
  ASSUME LegalSize, NEW i \in Nat, NEW j \in Nat, cell(i) = cell(j), i < j
  PROVE  i + Size <= j
<1> DEFINE a == i \div Size
           b == j \div Size
<1>1. a \in Int /\ b \in Int /\ i = Size * a + cell(i) /\ j = Size * b + cell(j)
  BY DEF LegalSize, cell
<1>2. Size \in Nat /\ cell(i) \in Int
  BY DEF LegalSize, cell
<1> HIDE DEF a, b
<1>3. j - i = Size * (b - a)
  BY <1>1, <1>2
<1>4. b - a >= 1
  BY <1>1, <1>2, <1>3
<1>5. Size * (b - a) >= Size
  BY <1>1, <1>2, <1>4
<1>6. QED
  BY <1>1, <1>2, <1>3, <1>5

LEMMA NextRound ==
  ASSUME LegalSize, NEW i \in Nat
  PROVE  cell(i + Size) = cell(i) /\ cell(i + 1) # cell(i)
<1>1. cell(i + Size) = cell(i)
  <2> DEFINE a == i \div Size
             b == (i + Size) \div Size
  <2>1. /\ Size \in Nat /\ Size >= 2 /\ a \in Int /\ b \in Int
        /\ i = Size * a + cell(i) /\ i + Size = Size * b + cell(i + Size)
        /\ cell(i) \in 0..(Size - 1) /\ cell(i + Size) \in 0..(Size - 1)
    BY DEF LegalSize, cell
  <2> HIDE DEF a, b
  <2>2. cell(i) - cell(i + Size) = Size * (b - (a + 1))
    BY <2>1
  <2>3. b - (a + 1) >= 1 => Size * (b - (a + 1)) >= Size
    BY <2>1
  <2>4. b - (a + 1) <= -1 => Size * (b - (a + 1)) <= -Size
    BY <2>1
  <2>5. b = a + 1
    BY <2>1, <2>2, <2>3, <2>4
  <2>6. QED
    BY <2>1, <2>2, <2>5
<1>2. cell(i + 1) # cell(i)
  BY Rounds DEF LegalSize
<1>3. QED
  BY <1>1, <1>2

-----------------------------------------------------------------------------
(* The inductive invariant, in parts.                                      *)

Writes(t) == at[t] \in {"store", "publish"}
Reads(t) == at[t] \in {"fetch", "release"}

\* No index that was read is ahead, and the number of the turn that a thread has
\* seen stands as long as its ticket is not given away.
LookInv ==
  \A t \in Threads :
    /\ at[t] \in {"enqueue", "claimIn"} => index[t] <= enqueueIndex /\ item[t] \in Values
    /\ at[t] \in {"dequeue", "claimOut"} => index[t] <= dequeueIndex
    /\ at[t] = "claimIn" /\ index[t] = enqueueIndex => sequence[cell(index[t])] = index[t]
    /\ at[t] = "claimOut" /\ index[t] = dequeueIndex => sequence[cell(index[t])] = index[t] + 1

\* Who has a ticket has its cell: the number is the one of its turn.
WriteInv ==
  \A t \in Threads : Writes(t) =>
    /\ index[t] < enqueueIndex /\ sequence[cell(index[t])] = index[t]
    /\ item[t] \in Values /\ item[t] = put[index[t] + 1]
    /\ at[t] = "publish" => data[cell(index[t])] = item[t]

ReadInv ==
  \A t \in Threads : Reads(t) =>
    index[t] < dequeueIndex /\ sequence[cell(index[t])] = index[t] + 1

\* A ticket is given to one thread.
TicketInv ==
  \A t, u \in Threads :
    index[t] = index[u] /\ ((Writes(t) /\ Writes(u)) \/ (Reads(t) /\ Reads(u))) => t = u

\* The cell c waits for the writer of the ticket b, or has one: the ticket was
\* not read, and the one a round before was.
FreeFor(c, b) ==
  /\ cell(b) = c /\ sequence[c] = b
  /\ dequeueIndex <= b /\ b < dequeueIndex + Size
  /\ enqueueIndex <= b \/ \E t \in Threads : Writes(t) /\ index[t] = b

\* The cell c holds the value of the ticket b, which nobody has read yet, or
\* somebody is reading.
FilledBy(c, b) ==
  /\ b \in Nat /\ cell(b) = c /\ sequence[c] = b + 1
  /\ b < enqueueIndex /\ enqueueIndex <= b + Size
  /\ dequeueIndex <= b \/ \E t \in Threads : Reads(t) /\ index[t] = b
  /\ data[c] = put[b + 1]

RoundInv ==
  /\ dequeueIndex <= enqueueIndex /\ enqueueIndex <= dequeueIndex + Size
  /\ \A c \in Cells : FreeFor(c, sequence[c]) \/ FilledBy(c, sequence[c] - 1)

\* What was read with a ticket is what was stored with it, once.
GotInv ==
  \A k \in 1..Len(got) :
    /\ got[k][1] \in Nat /\ got[k][1] < dequeueIndex /\ got[k][2] = put[got[k][1] + 1]
    /\ \A j \in 1..Len(got) : got[j][1] = got[k][1] => j = k
    /\ \A t \in Threads : at[t] = "fetch" => index[t] # got[k][1]

IInv == TypeOK /\ LookInv /\ WriteInv /\ ReadInv /\ TicketInv /\ RoundInv /\ GotInv

-----------------------------------------------------------------------------
(* Types.                                                                  *)

LEMMA TypeInit == LegalSize /\ Init => TypeOK
BY EmptySeq DEF LegalSize, Init, TypeOK, Cells

LEMMA TypeStep ==
  ASSUME LegalSize, IInv, [Next]_vars
  PROVE  TypeOK'
<1>1. TypeOK /\ LookInv /\ WriteInv
  BY DEF IInv
<1>2. ASSUME NEW t \in Threads, enqueue(t) PROVE TypeOK'
  <2>1. called[t] + 1 \in 1..MaxCalls /\ <<t, called[t] + 1>> \in Values
    BY <1>1, <1>2 DEF LegalSize, enqueue, Begin, TypeOK, Values
  <2>2. QED
    BY <1>1, <1>2, <2>1 DEF LegalSize, enqueue, Begin, Go, TypeOK, queue, history
<1>3. ASSUME NEW t \in Threads, dequeue(t) PROVE TypeOK'
  BY <1>1, <1>3 DEF LegalSize, dequeue, Begin, Go, TypeOK, queue, history
<1>4. ASSUME NEW t \in Threads, Refused(t) \/ Reload(t) \/ MyTurn(t) PROVE TypeOK'
  <2>1. CASE Refused(t)
    BY <1>1, <2>1 DEF Refused, Return, Go, TypeOK, queue, history
  <2>2. CASE Reload(t)
    BY <1>1, <2>2 DEF Reload, TypeOK, queue, history
  <2>3. CASE MyTurn(t)
    BY <1>1, <2>3 DEF MyTurn, Go, TypeOK, queue, history
  <2>4. QED
    BY <1>4, <2>1, <2>2, <2>3
<1>5. ASSUME NEW t \in Threads, ClaimFails(t) PROVE TypeOK'
  BY <1>1, <1>5 DEF ClaimFails, Go, TypeOK, queue, history
<1>6. ASSUME NEW t \in Threads, Claim(t) PROVE TypeOK'
  <2>1. CASE at[t] = "claimIn"
    <3>1. /\ put' = Append(put, item[t]) /\ got' = got /\ item[t] \in Values
          /\ enqueueIndex' = enqueueIndex + 1 /\ dequeueIndex' = dequeueIndex
          /\ at' = [at EXCEPT ![t] = "store"]
          /\ UNCHANGED <<sequence, data, index, item, called, verdict>>
      BY <1>1, <1>6, <2>1 DEF Claim, LookInv, Go
    <3>2. put' \in Seq(Values) /\ Len(put') = enqueueIndex'
      BY <1>1, <3>1, AppendProperties DEF TypeOK
    <3>3. QED
      BY <1>1, <3>1, <3>2 DEF TypeOK
  <2>2. CASE at[t] # "claimIn"
    <3>1. /\ put' = put /\ got' = got /\ index[t] \in Nat
          /\ enqueueIndex' = enqueueIndex /\ dequeueIndex' = index[t] + 1
          /\ at' = [at EXCEPT ![t] = "fetch"]
          /\ UNCHANGED <<sequence, data, index, item, called, verdict>>
      BY <1>1, <1>6, <2>2 DEF Claim, Go, history, TypeOK
    <3>2. QED
      BY <1>1, <3>1 DEF TypeOK
  <2>3. QED
    BY <2>1, <2>2
<1>7. ASSUME NEW t \in Threads, Move(t) PROVE TypeOK'
  <2>1. index[t] \in Nat /\ cell(index[t]) \in Cells
    BY <1>1, CellInCells DEF TypeOK
  <2>2. CASE at[t] = "store"
    <3>1. item[t] \in Values
      BY <1>1, <2>2 DEF WriteInv, Writes
    <3>2. QED
      BY <1>1, <1>7, <2>1, <2>2, <3>1 DEF Move, Access, Go, TypeOK
  <2>3. CASE at[t] = "fetch"
    <3>1. item'[t] \in Values \cup {None} /\ item' \in [Threads -> Values \cup {None}]
      BY <1>1, <1>7, <2>1, <2>3 DEF Move, Access, TypeOK
    <3>2. got' \in Seq(Nat \X (Values \cup {None}))
      <4>1. got \in Seq(Nat \X (Values \cup {None}))
        BY <1>1 DEF TypeOK
      <4>2. <<index[t], item'[t]>> \in Nat \X (Values \cup {None})
        BY <2>1, <3>1
      <4>3. got' = Append(got, <<index[t], item'[t]>>)
        BY <1>7, <2>3 DEF Move, Access
      <4>4. QED
        BY <4>1, <4>2, <4>3, AppendProperties
    <3>3. QED
      BY <1>1, <1>7, <2>3, <3>1, <3>2 DEF Move, Access, Go, TypeOK
  <2>4. QED
    BY <1>7, <2>2, <2>3 DEF Move, Access
<1>8. ASSUME NEW t \in Threads, HandOver(t) PROVE TypeOK'
  <2>1. index[t] \in Nat /\ NextTurn(t) \in Nat
    BY <1>1 DEF TypeOK, NextTurn, LegalSize
  <2>2. QED
    BY <1>1, <1>8, <2>1 DEF HandOver, Return, Go, TypeOK, history
<1>9. CASE UNCHANGED vars
  BY <1>1, <1>9 DEF vars, TypeOK, queue, history
<1>10. QED
  BY <1>2, <1>3, <1>4, <1>5, <1>6, <1>7, <1>8, <1>9 DEF Next, Work

-----------------------------------------------------------------------------
(* Steps that take no ticket: a call begins, is refused, reads an index, sees *)
(* that it is its turn or fails to move the index.                            *)

LEMMA QuietStep ==
  ASSUME LegalSize, IInv, UNCHANGED <<queue, history>>, NEW t \in Threads,
         \A u \in Threads \ {t} : at'[u] = at[u] /\ index'[u] = index[u] /\ item'[u] = item[u],
         ~Writes(t), ~Reads(t), ~Writes(t)', ~Reads(t)',
         at'[t] \in {"enqueue", "claimIn"} => index'[t] <= enqueueIndex /\ item'[t] \in Values,
         at'[t] \in {"dequeue", "claimOut"} => index'[t] <= dequeueIndex,
         at'[t] = "claimIn" => sequence[cell(index'[t])] = index'[t],
         at'[t] = "claimOut" => sequence[cell(index'[t])] = index'[t] + 1
  PROVE  LookInv' /\ WriteInv' /\ ReadInv' /\ TicketInv' /\ RoundInv' /\ GotInv'
<1>1. TypeOK /\ LookInv /\ WriteInv /\ ReadInv /\ TicketInv /\ RoundInv /\ GotInv
  BY DEF IInv
<1>2. /\ enqueueIndex' = enqueueIndex /\ dequeueIndex' = dequeueIndex
      /\ sequence' = sequence /\ data' = data /\ put' = put /\ got' = got
  BY DEF queue, history
<1>3. LookInv'
  BY <1>1, <1>2 DEF LookInv
<1>4. \A u \in Threads : Writes(u)' => u # t /\ Writes(u) /\ index'[u] = index[u]
  BY DEF Writes
<1>5. \A u \in Threads : Reads(u)' => u # t /\ Reads(u) /\ index'[u] = index[u]
  BY DEF Reads
<1>6. WriteInv' /\ ReadInv' /\ TicketInv'
  <2>1. WriteInv'
    BY <1>1, <1>2, <1>4 DEF WriteInv
  <2>2. ReadInv'
    BY <1>1, <1>2, <1>5 DEF ReadInv
  <2>3. TicketInv'
    BY <1>1, <1>4, <1>5 DEF TicketInv
  <2>4. QED
    BY <2>1, <2>2, <2>3
<1>7. \A u \in Threads : Writes(u) => Writes(u)' /\ index'[u] = index[u]
  BY DEF Writes
<1>8. \A u \in Threads : Reads(u) => Reads(u)' /\ index'[u] = index[u]
  BY DEF Reads
<1>9. RoundInv'
  BY <1>1, <1>2, <1>7, <1>8 DEF RoundInv, FreeFor, FilledBy
<1>10. GotInv'
  <2>1. \A u \in Threads : at'[u] = "fetch" => at[u] = "fetch" /\ index'[u] = index[u]
    BY DEF Reads
  <2>2. QED
    BY <1>1, <1>2, <2>1 DEF GotInv
<1>11. QED
  BY <1>3, <1>6, <1>9, <1>10

-----------------------------------------------------------------------------
(* Steps that take a ticket.                                               *)

\* What the invariant says where a cell's number is the ticket that is claimed.
LEMMA TurnOf ==
  ASSUME LegalSize, IInv
  PROVE  /\ sequence[cell(enqueueIndex)] = enqueueIndex =>
              FreeFor(cell(enqueueIndex), enqueueIndex)
         /\ sequence[cell(dequeueIndex)] = dequeueIndex + 1 =>
              FilledBy(cell(dequeueIndex), dequeueIndex)
<1>1. TypeOK /\ RoundInv /\ enqueueIndex \in Nat /\ dequeueIndex \in Nat
  BY DEF IInv, TypeOK
<1>2. ASSUME sequence[cell(enqueueIndex)] = enqueueIndex
      PROVE  FreeFor(cell(enqueueIndex), enqueueIndex)
  <2>1. ~FilledBy(cell(enqueueIndex), enqueueIndex - 1)
    <3>1. CASE enqueueIndex - 1 \in Nat
      <4>1. cell((enqueueIndex - 1) + 1) # cell(enqueueIndex - 1)
        BY <3>1, NextRound
      <4>2. (enqueueIndex - 1) + 1 = enqueueIndex
        BY <1>1
      <4>3. QED
        BY <4>1, <4>2 DEF FilledBy
    <3>2. QED
      BY <3>1 DEF FilledBy
  <2>2. QED
    BY <1>1, <1>2, <2>1, CellInCells DEF RoundInv
<1>3. ASSUME sequence[cell(dequeueIndex)] = dequeueIndex + 1
      PROVE  FilledBy(cell(dequeueIndex), dequeueIndex)
  <2>1. ~FreeFor(cell(dequeueIndex), dequeueIndex + 1)
    BY <1>1, NextRound DEF FreeFor
  <2>2. (dequeueIndex + 1) - 1 = dequeueIndex
    BY <1>1
  <2>3. QED
    BY <1>1, <1>3, <2>1, <2>2, CellInCells DEF RoundInv
<1>4. QED
  BY <1>2, <1>3

LEMMA ClaimInStep ==
  ASSUME LegalSize, IInv, NEW t \in Threads, Claim(t), at[t] = "claimIn"
  PROVE  LookInv' /\ WriteInv' /\ ReadInv' /\ TicketInv' /\ RoundInv' /\ GotInv'
<1> DEFINE i == enqueueIndex
<1>1. TypeOK /\ LookInv /\ WriteInv /\ ReadInv /\ TicketInv /\ RoundInv /\ GotInv
  BY DEF IInv
<1>2. /\ index[t] = i /\ enqueueIndex' = i + 1 /\ dequeueIndex' = dequeueIndex
      /\ at' = [at EXCEPT ![t] = "store"] /\ put' = Append(put, item[t])
      /\ got' = got /\ sequence' = sequence /\ data' = data
      /\ index' = index /\ item' = item /\ item[t] \in Values
  BY <1>1 DEF Claim, Go, LookInv
<1>3. /\ i \in Nat /\ dequeueIndex \in Nat /\ Size \in Nat /\ Size >= 2
      /\ index \in [Threads -> Nat] /\ sequence \in [Cells -> Nat]
      /\ put \in Seq(Values) /\ Len(put) = i
      /\ \A u \in Threads : u # t => at'[u] = at[u]
      /\ at'[t] = "store"
  BY <1>1, <1>2 DEF TypeOK, LegalSize
<1>4. /\ put'[i + 1] = item[t]
      /\ \A k \in 1..i : put'[k] = put[k]
  BY <1>2, <1>3, AppendProperties
<1>5. FreeFor(cell(i), i)
  BY <1>1, <1>2, TurnOf DEF LookInv
<1>6. /\ Writes(t)' /\ ~Reads(t)' /\ ~Writes(t)
      /\ \A u \in Threads : u # t => (Writes(u)' <=> Writes(u))
      /\ \A u \in Threads : Reads(u)' <=> Reads(u)
  BY <1>3 DEF Writes, Reads
<1> HIDE DEF i
<1>7. LookInv'
  BY <1>1, <1>2, <1>3 DEF LookInv, i
<1>8. WriteInv'
  <2>1. SUFFICES ASSUME NEW u \in Threads, Writes(u)'
                 PROVE  /\ index[u] < i + 1 /\ sequence[cell(index[u])] = index[u]
                        /\ item[u] \in Values /\ item[u] = put'[index[u] + 1]
                        /\ at'[u] = "publish" => data[cell(index[u])] = item[u]
    BY <1>2 DEF WriteInv
  <2>2. CASE u = t
    BY <1>2, <1>3, <1>4, <1>5, <2>2 DEF FreeFor
  <2>3. CASE u # t
    <3>1. Writes(u) /\ at'[u] = at[u]
      BY <1>3, <1>6, <2>1, <2>3
    <3>2. index[u] \in Nat /\ index[u] < i /\ index[u] + 1 \in 1..i
      BY <1>1, <1>3, <3>1 DEF WriteInv, i
    <3>3. QED
      BY <1>1, <1>3, <1>4, <3>1, <3>2 DEF WriteInv
  <2>4. QED
    BY <2>2, <2>3
<1>9. ReadInv'
  BY <1>1, <1>2, <1>6 DEF ReadInv
<1>10. TicketInv'
  <2>1. \A u \in Threads : Writes(u) => index[u] # i
    BY <1>1, <1>3 DEF WriteInv, i
  <2>2. QED
    BY <1>1, <1>2, <1>6, <2>1 DEF TicketInv
<1>11. RoundInv'
  <2>1. dequeueIndex <= i + 1 /\ i + 1 <= dequeueIndex + Size
    BY <1>1, <1>3, <1>5 DEF FreeFor, RoundInv, i
  <2>2. ASSUME NEW c \in Cells, FreeFor(c, sequence[c]) PROVE FreeFor(c, sequence[c])'
    <3>1. i + 1 <= sequence[c] \/ \E u \in Threads : Writes(u)' /\ index[u] = sequence[c]
      <4>1. CASE i <= sequence[c]
        <5>1. sequence[c] \in Nat
          BY <1>3
        <5>2. i + 1 <= sequence[c] \/ i = sequence[c]
          BY <1>3, <4>1, <5>1
        <5>3. QED
          BY <1>2, <1>6, <5>2
      <4>2. CASE \E u \in Threads : Writes(u) /\ index[u] = sequence[c]
        BY <1>6, <4>2
      <4>3. QED
        BY <2>2, <4>1, <4>2 DEF FreeFor, i
    <3>2. QED
      BY <1>2, <2>2, <3>1 DEF FreeFor
  <2>3. ASSUME NEW c \in Cells, FilledBy(c, sequence[c] - 1)
        PROVE  FilledBy(c, sequence[c] - 1)'
    <3> DEFINE b == sequence[c] - 1
    <3>1. b \in Nat /\ cell(b) = c /\ sequence[c] = b + 1 /\ b < i /\ i <= b + Size
      BY <2>3 DEF FilledBy, i
    <3> HIDE DEF b
    <3>2. i # b + Size
      <4>1. cell(b + Size) = c
        BY <3>1, NextRound
      <4>2. sequence[cell(i)] = i
        BY <1>5 DEF FreeFor
      <4>3. QED
        BY <1>3, <3>1, <4>1, <4>2
    <3>3. b + 1 \in 1..i /\ i + 1 <= b + Size /\ b < i + 1
      BY <1>3, <3>1, <3>2
    <3>4. data[c] = put'[b + 1]
      BY <1>4, <2>3, <3>3 DEF FilledBy, b
    <3>5. dequeueIndex <= b \/ \E u \in Threads : Reads(u)' /\ index[u] = b
      BY <1>6, <2>3 DEF FilledBy, b
    <3>6. QED
      BY <1>2, <3>1, <3>3, <3>4, <3>5 DEF FilledBy, b
  <2>4. QED
    BY <1>1, <1>2, <2>1, <2>2, <2>3 DEF RoundInv
<1>12. GotInv'
  <2>1. ASSUME NEW k \in 1..Len(got)
        PROVE  got[k][2] = put'[got[k][1] + 1]
    <3>1. got[k][1] + 1 \in 1..i /\ got[k][2] = put[got[k][1] + 1]
      BY <1>1, <1>3 DEF GotInv, RoundInv, i
    <3>2. QED
      BY <1>4, <3>1
  <2>2. \A u \in Threads : at'[u] = "fetch" => at[u] = "fetch"
    BY <1>3
  <2>3. QED
    BY <1>1, <1>2, <2>1, <2>2 DEF GotInv
<1>13. QED
  BY <1>7, <1>8, <1>9, <1>10, <1>11, <1>12

LEMMA ClaimOutStep ==
  ASSUME LegalSize, IInv, NEW t \in Threads, Claim(t), at[t] = "claimOut"
  PROVE  LookInv' /\ WriteInv' /\ ReadInv' /\ TicketInv' /\ RoundInv' /\ GotInv'
<1> DEFINE i == dequeueIndex
<1>1. TypeOK /\ LookInv /\ WriteInv /\ ReadInv /\ TicketInv /\ RoundInv /\ GotInv
  BY DEF IInv
<1>2. /\ index[t] = i /\ dequeueIndex' = i + 1 /\ enqueueIndex' = enqueueIndex
      /\ at' = [at EXCEPT ![t] = "fetch"] /\ put' = put
      /\ got' = got /\ sequence' = sequence /\ data' = data
      /\ index' = index /\ item' = item
  BY <1>1 DEF Claim, Go, history
<1>3. /\ i \in Nat /\ enqueueIndex \in Nat /\ Size \in Nat /\ Size >= 2
      /\ index \in [Threads -> Nat] /\ sequence \in [Cells -> Nat]
      /\ \A u \in Threads : u # t => at'[u] = at[u]
      /\ at'[t] = "fetch"
  BY <1>1, <1>2 DEF TypeOK, LegalSize
<1>4. FilledBy(cell(i), i)
  BY <1>1, <1>2, TurnOf DEF LookInv
<1>5. /\ Reads(t)' /\ ~Writes(t)' /\ ~Reads(t)
      /\ \A u \in Threads : u # t => (Reads(u)' <=> Reads(u))
      /\ \A u \in Threads : Writes(u)' <=> Writes(u)
  BY <1>3 DEF Writes, Reads
<1> HIDE DEF i
<1>6. LookInv'
  BY <1>1, <1>2, <1>3 DEF LookInv, i
<1>7. WriteInv'
  BY <1>1, <1>2, <1>3, <1>5 DEF WriteInv
<1>8. ReadInv'
  <2>1. SUFFICES ASSUME NEW u \in Threads, Reads(u)'
                 PROVE  index[u] < i + 1 /\ sequence[cell(index[u])] = index[u] + 1
    BY <1>2 DEF ReadInv
  <2>2. CASE u = t
    BY <1>2, <1>3, <1>4, <2>2 DEF FilledBy
  <2>3. CASE u # t
    BY <1>1, <1>3, <1>5, <2>1, <2>3 DEF ReadInv, i
  <2>4. QED
    BY <2>2, <2>3
<1>9. TicketInv'
  <2>1. \A u \in Threads : Reads(u) => index[u] # i
    BY <1>1, <1>3 DEF ReadInv, i
  <2>2. QED
    BY <1>1, <1>2, <1>5, <2>1 DEF TicketInv
<1>10. RoundInv'
  <2>1. i + 1 <= enqueueIndex /\ enqueueIndex <= (i + 1) + Size
    BY <1>1, <1>3, <1>4 DEF FilledBy, RoundInv, i
  <2>2. ASSUME NEW c \in Cells, FreeFor(c, sequence[c]) PROVE FreeFor(c, sequence[c])'
    <3> DEFINE b == sequence[c]
    <3>1. b \in Nat /\ cell(b) = c /\ i <= b /\ b < i + Size
      BY <1>3, <2>2 DEF FreeFor, i
    <3>2. b # i
      BY <1>3, <1>4, <3>1 DEF FilledBy
    <3>3. i + 1 <= b /\ b < (i + 1) + Size
      BY <1>3, <3>1, <3>2
    <3>4. enqueueIndex <= b \/ \E u \in Threads : Writes(u)' /\ index[u] = b
      BY <1>5, <2>2 DEF FreeFor
    <3>5. QED
      BY <1>2, <3>1, <3>3, <3>4 DEF FreeFor
  <2>3. ASSUME NEW c \in Cells, FilledBy(c, sequence[c] - 1)
        PROVE  FilledBy(c, sequence[c] - 1)'
    <3> DEFINE b == sequence[c] - 1
    <3>1. b \in Nat /\ (i <= b \/ \E u \in Threads : Reads(u) /\ index[u] = b)
      BY <2>3 DEF FilledBy, i
    <3> HIDE DEF b
    <3>2. i + 1 <= b \/ \E u \in Threads : Reads(u)' /\ index[u] = b
      <4>1. CASE i = b
        BY <1>2, <1>5, <4>1
      <4>2. CASE i # b /\ i <= b
        BY <1>3, <3>1, <4>2
      <4>3. CASE \E u \in Threads : Reads(u) /\ index[u] = b
        BY <1>5, <4>3
      <4>4. QED
        BY <3>1, <4>1, <4>2, <4>3
    <3>3. QED
      BY <1>2, <2>3, <3>2 DEF FilledBy, b
  <2>4. QED
    BY <1>1, <1>2, <2>1, <2>2, <2>3 DEF RoundInv
<1>11. GotInv'
  <2>1. SUFFICES ASSUME NEW k \in 1..Len(got)
                 PROVE  /\ got[k][1] \in Nat /\ got[k][1] < i + 1
                        /\ got[k][2] = put[got[k][1] + 1]
                        /\ \A j \in 1..Len(got) : got[j][1] = got[k][1] => j = k
                        /\ \A u \in Threads : at'[u] = "fetch" => index[u] # got[k][1]
    BY <1>2 DEF GotInv
  <2>2. got[k][1] \in Nat /\ got[k][1] < i
    BY <1>1 DEF GotInv, i
  <2>3. \A u \in Threads : at'[u] = "fetch" => index[u] # got[k][1]
    BY <1>1, <1>2, <1>3, <2>2 DEF GotInv
  <2>4. QED
    BY <1>1, <1>3, <2>2, <2>3 DEF GotInv
<1>12. QED
  BY <1>6, <1>7, <1>8, <1>9, <1>10, <1>11

-----------------------------------------------------------------------------
(* Steps of a thread that has a ticket.                                    *)

\* A cell is no writer's and reader's at once, and the value is in the cell of
\* one that reads.
LEMMA OneAtACell ==
  ASSUME LegalSize, IInv
  PROVE  /\ \A t, u \in Threads :
              (Writes(t) \/ Reads(t)) /\ (Writes(u) \/ Reads(u)) /\ cell(index[t]) = cell(index[u])
                => t = u \/ (Writes(t) /\ Reads(t)) \/ (Writes(u) /\ Reads(u))
         /\ \A t \in Threads : Reads(t) => FilledBy(cell(index[t]), index[t])
         /\ \A t \in Threads : Writes(t) => FreeFor(cell(index[t]), index[t])
<1>1. /\ TypeOK /\ WriteInv /\ ReadInv /\ TicketInv /\ RoundInv
      /\ \A t \in Threads : index[t] \in Nat /\ cell(index[t]) \in Cells
  BY CellInCells DEF IInv, TypeOK
<1>2. \A t \in Threads : cell(index[t] + 1) # cell(index[t])
  BY <1>1, NextRound
<1>3. ASSUME NEW t \in Threads, Reads(t) PROVE FilledBy(cell(index[t]), index[t])
  <2>1. sequence[cell(index[t])] = index[t] + 1 /\ (index[t] + 1) - 1 = index[t]
    BY <1>1, <1>3 DEF ReadInv
  <2>2. ~FreeFor(cell(index[t]), index[t] + 1)
    BY <1>2 DEF FreeFor
  <2>3. QED
    BY <1>1, <2>1, <2>2 DEF RoundInv
<1>4. ASSUME NEW t \in Threads, Writes(t) PROVE FreeFor(cell(index[t]), index[t])
  <2>1. sequence[cell(index[t])] = index[t] /\ index[t] \in Nat
    BY <1>1, <1>4 DEF WriteInv
  <2>2. ~FilledBy(cell(index[t]), index[t] - 1)
    <3>1. CASE index[t] - 1 \in Nat
      <4>1. cell((index[t] - 1) + 1) # cell(index[t] - 1) /\ (index[t] - 1) + 1 = index[t]
        BY <2>1, <3>1, NextRound
      <4>2. QED
        BY <4>1 DEF FilledBy
    <3>2. QED
      BY <3>1 DEF FilledBy
  <2>3. QED
    BY <1>1, <2>1, <2>2 DEF RoundInv
<1>5. ASSUME NEW t \in Threads, NEW u \in Threads, cell(index[t]) = cell(index[u]),
             Writes(t), Reads(u)
      PROVE  FALSE
  <2>1. sequence[cell(index[t])] = index[t] /\ sequence[cell(index[t])] = index[u] + 1
    BY <1>1, <1>5 DEF WriteInv, ReadInv
  <2>2. QED
    BY <1>2, <1>5, <2>1
<1>6. ASSUME NEW t \in Threads, NEW u \in Threads, cell(index[t]) = cell(index[u]),
             (Writes(t) /\ Writes(u)) \/ (Reads(t) /\ Reads(u))
      PROVE  t = u
  <2>1. index[t] = index[u]
    BY <1>1, <1>6 DEF WriteInv, ReadInv
  <2>2. QED
    BY <1>1, <1>6, <2>1 DEF TicketInv
<1>7. QED
  BY <1>3, <1>4, <1>5, <1>6

LEMMA StoreStep ==
  ASSUME LegalSize, IInv, NEW t \in Threads, Move(t), at[t] = "store"
  PROVE  LookInv' /\ WriteInv' /\ ReadInv' /\ TicketInv' /\ RoundInv' /\ GotInv'
<1>1. TypeOK /\ LookInv /\ WriteInv /\ ReadInv /\ TicketInv /\ RoundInv /\ GotInv
  BY DEF IInv
<1>2. /\ data' = [data EXCEPT ![cell(index[t])] = item[t]]
      /\ at' = [at EXCEPT ![t] = "publish"]
      /\ UNCHANGED <<enqueueIndex, dequeueIndex, sequence, index, item, put, got>>
  BY DEF Move, Access, Go
<1>3. /\ \A u \in Threads : u # t => at'[u] = at[u]
      /\ at'[t] = "publish"
      /\ \A c \in Cells : c # cell(index[t]) => data'[c] = data[c]
      /\ data'[cell(index[t])] = item[t]
      /\ \A u \in Threads : index[u] \in Nat /\ cell(index[u]) \in Cells
  BY <1>1, <1>2, CellInCells DEF TypeOK
<1>4. /\ Writes(t) /\ ~Reads(t) /\ \A u \in Threads : Writes(u)' <=> Writes(u)
      /\ \A u \in Threads : Reads(u)' <=> Reads(u)
  BY <1>3 DEF Writes, Reads
<1>5. LookInv'
  BY <1>1, <1>2, <1>3 DEF LookInv
<1>6. WriteInv'
  <2>1. ASSUME NEW u \in Threads, at'[u] = "publish" PROVE data'[cell(index[u])] = item[u]
    <3>1. CASE u = t
      BY <1>3, <3>1
    <3>2. CASE u # t
      <4>1. at[u] = "publish" /\ Writes(u) /\ ~Reads(u)
        BY <1>3, <2>1, <3>2 DEF Writes, Reads
      <4>2. cell(index[u]) # cell(index[t])
        BY <1>4, <3>2, <4>1, OneAtACell
      <4>3. QED
        BY <1>1, <1>3, <4>1, <4>2 DEF WriteInv
    <3>3. QED
      BY <3>1, <3>2
  <2>2. QED
    BY <1>1, <1>2, <1>4, <2>1 DEF WriteInv
<1>7. ReadInv' /\ TicketInv'
  BY <1>1, <1>2, <1>4 DEF ReadInv, TicketInv
<1>8. RoundInv'
  <2>1. \A c \in Cells : FreeFor(c, sequence[c]) => FreeFor(c, sequence[c])'
    BY <1>2, <1>4 DEF FreeFor
  <2>2. ASSUME NEW c \in Cells, FilledBy(c, sequence[c] - 1)
        PROVE  FilledBy(c, sequence[c] - 1)'
    <3> DEFINE b == sequence[c] - 1
    <3>1. b \in Nat /\ cell(b) = c /\ sequence[c] = b + 1
      BY <2>2 DEF FilledBy
    <3> HIDE DEF b
    <3>2. sequence[cell(index[t])] = index[t]
      BY <1>1, <1>4 DEF WriteInv
    <3>3. c # cell(index[t])
      BY <3>1, <3>2, NextRound
    <3>4. QED
      BY <1>2, <1>3, <1>4, <2>2, <3>3 DEF FilledBy
  <2>3. QED
    BY <1>1, <1>2, <2>1, <2>2 DEF RoundInv
<1>9. GotInv'
  <2>1. \A u \in Threads : at'[u] = "fetch" => at[u] = "fetch"
    BY <1>3
  <2>2. QED
    BY <1>1, <1>2, <2>1 DEF GotInv
<1>10. QED
  BY <1>5, <1>6, <1>7, <1>8, <1>9

LEMMA FetchStep ==
  ASSUME LegalSize, IInv, NEW t \in Threads, Move(t), at[t] = "fetch"
  PROVE  LookInv' /\ WriteInv' /\ ReadInv' /\ TicketInv' /\ RoundInv' /\ GotInv'
<1> DEFINE i == index[t]
           n == Len(got)
           g == <<i, item'[t]>>
<1>1. TypeOK /\ LookInv /\ WriteInv /\ ReadInv /\ TicketInv /\ RoundInv /\ GotInv
  BY DEF IInv
<1>2. /\ item' = [item EXCEPT ![t] = data[cell(i)]]
      /\ got' = Append(got, g)
      /\ at' = [at EXCEPT ![t] = "release"]
      /\ UNCHANGED <<enqueueIndex, dequeueIndex, sequence, data, index, put>>
  BY DEF Move, Access, Go
<1>3. /\ \A u \in Threads : u # t => at'[u] = at[u] /\ item'[u] = item[u]
      /\ at'[t] = "release" /\ item'[t] = data[cell(i)]
      /\ i \in Nat /\ cell(i) \in Cells /\ i < dequeueIndex
  BY <1>1, <1>2, CellInCells DEF TypeOK, ReadInv, Reads
<1>4. /\ \A u \in Threads : Writes(u)' => u # t /\ Writes(u)
      /\ \A u \in Threads : Writes(u) => Writes(u)'
      /\ \A u \in Threads : Reads(u)' <=> Reads(u)
      /\ Reads(t)
  BY <1>3 DEF Writes, Reads
<1>5. item'[t] = put[i + 1]
  BY <1>3, <1>4, OneAtACell DEF FilledBy
<1>6. /\ n \in Nat /\ Len(got') = n + 1 /\ got'[n + 1] = g
      /\ \A k \in 1..n : got'[k] = got[k]
  <2>1. data[cell(i)] \in Values \cup {None}
    BY <1>1, <1>3 DEF TypeOK
  <2>2. got \in Seq(Nat \X (Values \cup {None})) /\ g \in Nat \X (Values \cup {None})
    BY <1>1, <1>3, <2>1 DEF TypeOK
  <2>3. QED
    BY <1>2, <2>2, AppendProperties, LenProperties
<1>7. g[1] = i /\ g[2] = item'[t]
  OBVIOUS
<1> HIDE DEF i, n, g
<1>8. LookInv'
  BY <1>1, <1>2, <1>3 DEF LookInv
<1>9. WriteInv' /\ ReadInv' /\ TicketInv'
  <2>1. WriteInv'
    BY <1>1, <1>2, <1>3, <1>4 DEF WriteInv
  <2>2. ReadInv' /\ TicketInv'
    BY <1>1, <1>2, <1>4 DEF ReadInv, TicketInv
  <2>3. QED
    BY <2>1, <2>2
<1>10. RoundInv'
  BY <1>1, <1>2, <1>4 DEF RoundInv, FreeFor, FilledBy
<1>11. GotInv'
  <2>1. \A k \in 1..n : got[k][1] # i
    BY <1>1 DEF GotInv, n, i
  <2>2. ASSUME NEW k \in 1..(n + 1)
        PROVE  /\ got'[k][1] \in Nat /\ got'[k][1] < dequeueIndex
               /\ got'[k][2] = put[got'[k][1] + 1]
    <3>1. CASE k = n + 1
      BY <1>3, <1>5, <1>6, <1>7, <3>1
    <3>2. CASE k \in 1..n
      BY <1>1, <1>6, <3>2 DEF GotInv, n
    <3>3. QED
      BY <1>6, <3>1, <3>2
  <2>3. ASSUME NEW k \in 1..(n + 1), NEW j \in 1..(n + 1), got'[j][1] = got'[k][1]
        PROVE  j = k
    <3>1. CASE j = n + 1 \/ k = n + 1
      BY <1>6, <1>7, <2>1, <2>3, <3>1
    <3>2. CASE j \in 1..n /\ k \in 1..n
      BY <1>1, <1>6, <2>3, <3>2 DEF GotInv, n
    <3>3. QED
      BY <1>6, <3>1, <3>2
  <2>4. ASSUME NEW k \in 1..(n + 1), NEW u \in Threads, at'[u] = "fetch"
        PROVE  index[u] # got'[k][1]
    <3>1. u # t /\ at[u] = "fetch" /\ Reads(u)
      BY <1>3, <2>4 DEF Reads
    <3>2. index[u] # i
      BY <1>1, <1>4, <3>1 DEF TicketInv, i
    <3>3. \A j \in 1..n : index[u] # got[j][1]
      BY <1>1, <3>1 DEF GotInv, n
    <3>4. QED
      BY <1>6, <1>7, <3>2, <3>3
  <2>5. QED
    BY <1>2, <1>6, <2>2, <2>3, <2>4 DEF GotInv
<1>12. QED
  BY <1>8, <1>9, <1>10, <1>11

LEMMA HandOverStep ==
  ASSUME LegalSize, IInv, NEW t \in Threads, HandOver(t)
  PROVE  LookInv' /\ WriteInv' /\ ReadInv' /\ TicketInv' /\ RoundInv' /\ GotInv'
<1> DEFINE i == index[t]
           c0 == cell(i)
           nt == NextTurn(t)
<1>1. TypeOK /\ LookInv /\ WriteInv /\ ReadInv /\ TicketInv /\ RoundInv /\ GotInv
  BY DEF IInv
<1>2. /\ at[t] \in {"publish", "release"} /\ at' = [at EXCEPT ![t] = "idle"]
      /\ sequence' = [sequence EXCEPT ![c0] = nt]
      /\ UNCHANGED <<enqueueIndex, dequeueIndex, data, index, item, put, got>>
  BY DEF HandOver, Return, Go, history
<1>3. /\ \A u \in Threads : index[u] \in Nat /\ cell(index[u]) \in Cells
      /\ i \in Nat /\ c0 \in Cells /\ Size \in Nat /\ Size >= 2
      /\ enqueueIndex \in Nat /\ dequeueIndex \in Nat
      /\ cell(enqueueIndex) \in Cells /\ cell(dequeueIndex) \in Cells
      /\ \A c \in Cells : sequence[c] \in Nat
  BY <1>1, CellInCells DEF TypeOK, LegalSize
<1>4. /\ \A u \in Threads : u # t => at'[u] = at[u]
      /\ at'[t] = "idle"
      /\ \A c \in Cells : c # c0 => sequence'[c] = sequence[c]
      /\ sequence'[c0] = nt
  BY <1>1, <1>2, <1>3 DEF TypeOK
<1>5. /\ \A u \in Threads : Writes(u)' <=> u # t /\ Writes(u)
      /\ \A u \in Threads : Reads(u)' <=> u # t /\ Reads(u)
      /\ at[t] = "publish" => Writes(t) /\ ~Reads(t)
      /\ at[t] = "release" => Reads(t) /\ ~Writes(t)
  BY <1>4 DEF Writes, Reads
<1>6. /\ at[t] = "publish" => nt = i + 1
      /\ at[t] = "release" => nt = i + Size
  BY <1>3 DEF NextTurn
<1>7. /\ at[t] = "publish" => FreeFor(c0, i)
      /\ at[t] = "release" => FilledBy(c0, i)
  BY <1>5, OneAtACell
<1>8. \A u \in Threads : u # t /\ (Writes(u) \/ Reads(u)) => cell(index[u]) # c0
  <2>1. \A u \in Threads : ~(Writes(u) /\ Reads(u))
    BY DEF Writes, Reads
  <2>2. QED
    BY <1>2, <1>5, <2>1, OneAtACell
<1> HIDE DEF i, c0, nt
<1>9. LookInv'
  <2>1. ASSUME cell(enqueueIndex) = c0, sequence[c0] = enqueueIndex PROVE FALSE
    <3>1. FreeFor(c0, enqueueIndex)
      BY <2>1, TurnOf
    <3>2. CASE at[t] = "publish"
      <4>1. sequence[c0] = i /\ i < enqueueIndex
        BY <1>1, <1>5, <3>2 DEF WriteInv, i, c0
      <4>2. QED
        BY <1>3, <2>1, <4>1
    <3>3. CASE at[t] = "release"
      <4>1. sequence[c0] = i + 1 /\ cell(i) = c0
        BY <1>7, <3>3 DEF FilledBy
      <4>2. QED
        BY <1>3, <2>1, <4>1, NextRound
    <3>4. QED
      BY <1>2, <3>2, <3>3
  <2>2. ASSUME cell(dequeueIndex) = c0, sequence[c0] = dequeueIndex + 1 PROVE FALSE
    <3>1. CASE at[t] = "publish"
      <4>1. sequence[c0] = i /\ cell(i) = c0
        BY <1>7, <3>1 DEF FreeFor
      <4>2. QED
        BY <1>3, <2>2, <4>1, NextRound
    <3>2. CASE at[t] = "release"
      <4>1. sequence[c0] = i + 1 /\ i < dequeueIndex
        BY <1>1, <1>5, <3>2 DEF ReadInv, i, c0
      <4>2. QED
        BY <1>3, <2>2, <4>1
    <3>3. QED
      BY <1>2, <3>1, <3>2
  <2>3. SUFFICES ASSUME NEW u \in Threads
                 PROVE  /\ at'[u] = "claimIn" /\ index[u] = enqueueIndex =>
                             sequence'[cell(index[u])] = index[u]
                        /\ at'[u] = "claimOut" /\ index[u] = dequeueIndex =>
                             sequence'[cell(index[u])] = index[u] + 1
                        /\ at'[u] \in {"enqueue", "claimIn"} =>
                             index[u] <= enqueueIndex /\ item[u] \in Values
                        /\ at'[u] \in {"dequeue", "claimOut"} => index[u] <= dequeueIndex
    BY <1>2 DEF LookInv
  <2>4. CASE u = t
    BY <1>4, <2>4
  <2>5. CASE u # t
    <3>1. at'[u] = at[u] /\ cell(index[u]) \in Cells
      BY <1>3, <1>4, <2>5
    <3>2. at[u] = "claimIn" /\ index[u] = enqueueIndex => cell(index[u]) # c0
      BY <1>1, <2>1 DEF LookInv
    <3>3. at[u] = "claimOut" /\ index[u] = dequeueIndex => cell(index[u]) # c0
      BY <1>1, <2>2 DEF LookInv
    <3>4. QED
      BY <1>1, <1>4, <3>1, <3>2, <3>3 DEF LookInv
  <2>6. QED
    BY <2>4, <2>5
<1>10. WriteInv' /\ ReadInv' /\ TicketInv'
  <2>1. WriteInv'
    BY <1>1, <1>2, <1>3, <1>4, <1>5, <1>8 DEF WriteInv
  <2>2. ReadInv'
    BY <1>1, <1>2, <1>3, <1>4, <1>5, <1>8 DEF ReadInv
  <2>3. TicketInv'
    BY <1>1, <1>2, <1>5 DEF TicketInv
  <2>4. QED
    BY <2>1, <2>2, <2>3
<1>11. RoundInv'
  <2>1. ASSUME NEW c \in Cells, c # c0
        PROVE  (FreeFor(c, sequence[c]) \/ FilledBy(c, sequence[c] - 1))'
    <3>1. sequence'[c] = sequence[c]
      BY <1>4, <2>1
    <3>2. CASE FreeFor(c, sequence[c])
      <4>1. sequence[c] # i
        BY <2>1, <3>2 DEF FreeFor, c0, i
      <4>2. enqueueIndex <= sequence[c] \/ \E u \in Threads : Writes(u)' /\ index[u] = sequence[c]
        BY <1>5, <3>2, <4>1 DEF FreeFor, i
      <4>3. FreeFor(c, sequence[c])'
        BY <1>2, <3>1, <3>2, <4>2 DEF FreeFor
      <4>4. QED
        BY <4>3
    <3>3. CASE FilledBy(c, sequence[c] - 1)
      <4>1. sequence[c] - 1 # i
        BY <2>1, <3>3 DEF FilledBy, c0, i
      <4>2. \/ dequeueIndex <= sequence[c] - 1
            \/ \E u \in Threads : Reads(u)' /\ index[u] = sequence[c] - 1
        BY <1>5, <3>3, <4>1 DEF FilledBy, i
      <4>3. FilledBy(c, sequence[c] - 1)'
        BY <1>2, <3>1, <3>3, <4>2 DEF FilledBy
      <4>4. QED
        BY <4>3
    <3>4. QED
      BY <1>1, <3>2, <3>3 DEF RoundInv
  <2>2. ASSUME NEW c \in Cells, c = c0, at[t] = "publish" PROVE FilledBy(c, sequence[c] - 1)'
    <3>1. sequence'[c] = i + 1 /\ sequence'[c] - 1 = i
      BY <1>3, <1>4, <1>6, <2>2
    <3>2. cell(i) = c0 /\ dequeueIndex <= i /\ i < dequeueIndex + Size
      BY <1>7, <2>2 DEF FreeFor
    <3>3. i < enqueueIndex /\ data[c0] = put[i + 1]
      BY <1>1, <1>5, <2>2 DEF WriteInv, i, c0
    <3>4. enqueueIndex <= i + Size
      BY <1>1, <1>3, <3>2 DEF RoundInv
    <3>5. QED
      BY <1>2, <1>3, <2>2, <3>1, <3>2, <3>3, <3>4 DEF FilledBy
  <2>3. ASSUME NEW c \in Cells, c = c0, at[t] = "release" PROVE FreeFor(c, sequence[c])'
    <3>1. sequence'[c] = i + Size
      BY <1>4, <1>6, <2>3
    <3>2. cell(i + Size) = c0
      BY <1>3, NextRound DEF c0
    <3>3. enqueueIndex <= i + Size /\ i < dequeueIndex
      BY <1>1, <1>5, <1>7, <2>3 DEF FilledBy, ReadInv, i
    <3>4. dequeueIndex <= i + Size /\ i + Size < dequeueIndex + Size
      BY <1>1, <1>3, <3>3 DEF RoundInv
    <3>5. QED
      BY <1>2, <2>3, <3>1, <3>2, <3>3, <3>4 DEF FreeFor
  <2>4. (\A c \in Cells : FreeFor(c, sequence[c]) \/ FilledBy(c, sequence[c] - 1))'
    BY <1>2, <2>1, <2>2, <2>3
  <2>5. QED
    BY <1>1, <1>2, <2>4 DEF RoundInv
<1>12. GotInv'
  <2>1. \A u \in Threads : at'[u] = "fetch" => at[u] = "fetch"
    BY <1>4
  <2>2. QED
    BY <1>1, <1>2, <2>1 DEF GotInv
<1>13. QED
  BY <1>9, <1>10, <1>11, <1>12

-----------------------------------------------------------------------------
(* The invariant holds in every state.                                     *)

LEMMA InitInv == LegalSize /\ Init => IInv
<1> SUFFICES ASSUME LegalSize, Init PROVE IInv
  OBVIOUS
<1>1. TypeOK
  BY TypeInit
<1>2. /\ enqueueIndex = 0 /\ dequeueIndex = 0 /\ sequence = [c \in Cells |-> c]
      /\ \A t \in Threads : at[t] = "idle"
      /\ got = <<>> /\ Len(got) = 0
  BY EmptySeq DEF Init
<1>3. \A c \in Cells : cell(c) = c /\ c \in Nat /\ c < Size
  BY DEF LegalSize, cell, Cells
<1>4. RoundInv
  BY <1>2, <1>3 DEF LegalSize, RoundInv, FreeFor
<1>5. LookInv /\ WriteInv /\ ReadInv /\ TicketInv /\ GotInv
  BY <1>2 DEF LookInv, WriteInv, ReadInv, TicketInv, GotInv, Writes, Reads
<1>6. QED
  BY <1>1, <1>4, <1>5 DEF IInv

LEMMA NextInv == LegalSize /\ IInv /\ [Next]_vars => IInv'
<1> SUFFICES ASSUME LegalSize, IInv, [Next]_vars
             PROVE  LookInv' /\ WriteInv' /\ ReadInv' /\ TicketInv' /\ RoundInv' /\ GotInv'
  BY TypeStep DEF IInv
<1>1. TypeOK /\ LookInv
  BY DEF IInv
<1>2. ASSUME NEW t \in Threads, enqueue(t)
      PROVE  LookInv' /\ WriteInv' /\ ReadInv' /\ TicketInv' /\ RoundInv' /\ GotInv'
  <2>1. /\ at[t] = "idle" /\ at' = [at EXCEPT ![t] = "enqueue"]
        /\ index' = [index EXCEPT ![t] = enqueueIndex]
        /\ item' = [item EXCEPT ![t] = <<t, called[t] + 1>>]
        /\ UNCHANGED <<queue, history>>
    BY <1>2 DEF enqueue, Begin, Idle, Go
  <2>2. <<t, called[t] + 1>> \in Values
    BY <1>1, <1>2 DEF LegalSize, enqueue, Begin, TypeOK, Values
  <2>3. /\ \A u \in Threads \ {t} : at'[u] = at[u] /\ index'[u] = index[u] /\ item'[u] = item[u]
        /\ at'[t] = "enqueue" /\ index'[t] = enqueueIndex /\ item'[t] \in Values
        /\ enqueueIndex \in Nat
    BY <1>1, <2>1, <2>2 DEF TypeOK
  <2>4. ~Writes(t) /\ ~Reads(t) /\ ~Writes(t)' /\ ~Reads(t)'
    BY <2>1, <2>3 DEF Writes, Reads
  <2>5. QED
    BY <2>1, <2>3, <2>4, QuietStep
<1>3. ASSUME NEW t \in Threads, dequeue(t)
      PROVE  LookInv' /\ WriteInv' /\ ReadInv' /\ TicketInv' /\ RoundInv' /\ GotInv'
  <2>1. /\ at[t] = "idle" /\ at' = [at EXCEPT ![t] = "dequeue"]
        /\ index' = [index EXCEPT ![t] = dequeueIndex]
        /\ item' = [item EXCEPT ![t] = None]
        /\ UNCHANGED <<queue, history>>
    BY <1>3 DEF dequeue, Begin, Idle, Go
  <2>2. /\ \A u \in Threads \ {t} : at'[u] = at[u] /\ index'[u] = index[u] /\ item'[u] = item[u]
        /\ at'[t] = "dequeue" /\ index'[t] = dequeueIndex /\ dequeueIndex \in Nat
    BY <1>1, <2>1 DEF TypeOK
  <2>3. ~Writes(t) /\ ~Reads(t) /\ ~Writes(t)' /\ ~Reads(t)'
    BY <2>1, <2>2 DEF Writes, Reads
  <2>4. QED
    BY <2>1, <2>2, <2>3, QuietStep
<1>4. ASSUME NEW t \in Threads, Refused(t)
      PROVE  LookInv' /\ WriteInv' /\ ReadInv' /\ TicketInv' /\ RoundInv' /\ GotInv'
  <2>1. /\ at[t] \in {"enqueue", "dequeue"} /\ at' = [at EXCEPT ![t] = "idle"]
        /\ UNCHANGED <<queue, index, item, history>>
    BY <1>4 DEF Refused, Looking, Return, Go
  <2>2. /\ \A u \in Threads \ {t} : at'[u] = at[u] /\ index'[u] = index[u] /\ item'[u] = item[u]
        /\ at'[t] = "idle"
    BY <1>1, <2>1 DEF TypeOK
  <2>3. ~Writes(t) /\ ~Reads(t) /\ ~Writes(t)' /\ ~Reads(t)'
    BY <2>1, <2>2 DEF Writes, Reads
  <2>4. QED
    BY <2>1, <2>2, <2>3, QuietStep
<1>5. ASSUME NEW t \in Threads, Reload(t)
      PROVE  LookInv' /\ WriteInv' /\ ReadInv' /\ TicketInv' /\ RoundInv' /\ GotInv'
  <2>1. /\ at[t] \in {"enqueue", "dequeue"} /\ at' = at /\ item' = item
        /\ index' = [index EXCEPT ![t] = IF at[t] = "enqueue" THEN enqueueIndex ELSE dequeueIndex]
        /\ UNCHANGED <<queue, history>>
    BY <1>5 DEF Reload, Looking
  <2>2. /\ \A u \in Threads \ {t} : at'[u] = at[u] /\ index'[u] = index[u] /\ item'[u] = item[u]
        /\ index'[t] = IF at[t] = "enqueue" THEN enqueueIndex ELSE dequeueIndex
        /\ enqueueIndex \in Nat /\ dequeueIndex \in Nat
    BY <1>1, <2>1 DEF TypeOK
  <2>3. ~Writes(t) /\ ~Reads(t) /\ ~Writes(t)' /\ ~Reads(t)'
    BY <2>1 DEF Writes, Reads
  <2>4. at[t] = "enqueue" => item[t] \in Values
    BY <1>1 DEF LookInv
  <2>5. QED
    BY <2>1, <2>2, <2>3, <2>4, QuietStep
<1>6. ASSUME NEW t \in Threads, MyTurn(t)
      PROVE  LookInv' /\ WriteInv' /\ ReadInv' /\ TicketInv' /\ RoundInv' /\ GotInv'
  <2>1. /\ at[t] \in {"enqueue", "dequeue"} /\ index' = index /\ item' = item
        /\ at' = [at EXCEPT ![t] = IF at[t] = "enqueue" THEN "claimIn" ELSE "claimOut"]
        /\ UNCHANGED <<queue, history>>
    BY <1>6 DEF MyTurn, Looking, Go
  <2>2. /\ \A u \in Threads \ {t} : at'[u] = at[u] /\ index'[u] = index[u] /\ item'[u] = item[u]
        /\ at'[t] = IF at[t] = "enqueue" THEN "claimIn" ELSE "claimOut"
        /\ index[t] \in Nat /\ cell(index[t]) \in Cells /\ sequence[cell(index[t])] \in Nat
    BY <1>1, <2>1, CellInCells DEF TypeOK
  <2>3. ~Writes(t) /\ ~Reads(t) /\ ~Writes(t)' /\ ~Reads(t)'
    BY <2>1, <2>2 DEF Writes, Reads
  <2>4. /\ at[t] = "enqueue" => /\ index[t] <= enqueueIndex /\ item[t] \in Values
                                /\ sequence[cell(index[t])] = index[t]
        /\ at[t] = "dequeue" => /\ index[t] <= dequeueIndex
                                /\ sequence[cell(index[t])] = index[t] + 1
    BY <1>1, <1>6, <2>2 DEF LookInv, MyTurn, Diff, Turn
  <2>5. QED
    BY <2>1, <2>2, <2>3, <2>4, QuietStep
<1>7. ASSUME NEW t \in Threads, ClaimFails(t)
      PROVE  LookInv' /\ WriteInv' /\ ReadInv' /\ TicketInv' /\ RoundInv' /\ GotInv'
  <2>1. /\ at[t] \in {"claimIn", "claimOut"} /\ item' = item
        /\ index' = [index EXCEPT ![t] = IF at[t] = "claimIn" THEN enqueueIndex ELSE dequeueIndex]
        /\ at' = [at EXCEPT ![t] = IF at[t] = "claimIn" THEN "enqueue" ELSE "dequeue"]
        /\ UNCHANGED <<queue, history>>
    BY <1>7 DEF ClaimFails, Go
  <2>2. /\ \A u \in Threads \ {t} : at'[u] = at[u] /\ index'[u] = index[u] /\ item'[u] = item[u]
        /\ index'[t] = IF at[t] = "claimIn" THEN enqueueIndex ELSE dequeueIndex
        /\ at'[t] = IF at[t] = "claimIn" THEN "enqueue" ELSE "dequeue"
        /\ enqueueIndex \in Nat /\ dequeueIndex \in Nat
    BY <1>1, <2>1 DEF TypeOK
  <2>3. ~Writes(t) /\ ~Reads(t) /\ ~Writes(t)' /\ ~Reads(t)'
    BY <2>1, <2>2 DEF Writes, Reads
  <2>4. at[t] = "claimIn" => item[t] \in Values
    BY <1>1 DEF LookInv
  <2>5. QED
    BY <2>1, <2>2, <2>3, <2>4, QuietStep
<1>8. ASSUME NEW t \in Threads, Claim(t)
      PROVE  LookInv' /\ WriteInv' /\ ReadInv' /\ TicketInv' /\ RoundInv' /\ GotInv'
  BY <1>8, ClaimInStep, ClaimOutStep DEF Claim
<1>9. ASSUME NEW t \in Threads, Move(t)
      PROVE  LookInv' /\ WriteInv' /\ ReadInv' /\ TicketInv' /\ RoundInv' /\ GotInv'
  BY <1>9, StoreStep, FetchStep DEF Move, Access
<1>10. CASE UNCHANGED vars
  <2>1. UNCHANGED <<enqueueIndex, dequeueIndex, sequence, data, at, index, item, put, got>>
    BY <1>10 DEF vars, queue, history
  <2>2. QED
    BY <1>1, <2>1 DEF IInv, LookInv, WriteInv, ReadInv, TicketInv, RoundInv, GotInv, FreeFor,
                      FilledBy, Writes, Reads
<1>11. QED
  BY <1>2, <1>3, <1>4, <1>5, <1>6, <1>7, <1>8, <1>9, <1>10, HandOverStep DEF Next, Work

THEOREM Invariance == ASSUME LegalSize PROVE Spec => []IInv
<1>1. Init => IInv
  BY InitInv
<1>2. IInv /\ [Next]_vars => IInv'
  BY NextInv
<1>3. QED
  BY <1>1, <1>2, PTL DEF Spec

-----------------------------------------------------------------------------
(* What follows from it.                                                   *)

LEMMA InvExclusive == LegalSize /\ IInv => Exclusive
<1>1. SUFFICES ASSUME LegalSize, IInv, NEW t \in Threads, NEW u \in Threads, t # u,
                      at[t] \in {"store", "fetch"}, at[u] \in {"store", "fetch"}
               PROVE  cell(index[t]) # cell(index[u])
  BY DEF Exclusive
<1>2. /\ (Writes(t) \/ Reads(t)) /\ (Writes(u) \/ Reads(u))
      /\ ~(Writes(t) /\ Reads(t)) /\ ~(Writes(u) /\ Reads(u))
  BY <1>1 DEF Writes, Reads
<1>3. QED
  BY <1>1, <1>2, OneAtACell

LEMMA InvHanded == IInv => Handed
<1> SUFFICES ASSUME IInv PROVE Handed
  OBVIOUS
<1>1. /\ GotInv /\ dequeueIndex <= enqueueIndex /\ Len(put) = enqueueIndex
      /\ enqueueIndex \in Nat /\ dequeueIndex \in Nat
  BY DEF IInv, TypeOK, RoundInv
<1>2. QED
  BY <1>1 DEF GotInv, Handed

\* The data of a cell, which is no atomic, is never accessed by two threads at
\* once, however many there are (mailbox.h:392 and 415).
THEOREM NoRace == ASSUME LegalSize PROVE Spec => []Exclusive
<1>1. IInv => Exclusive
  BY InvExclusive
<1>2. QED
  BY <1>1, Invariance, PTL

\* What is read with a ticket is what was stored with it, and it is read once:
\* no value is lost, repeated or overtaken (mailbox.h:374-419).
THEOREM EachHandedOnce == ASSUME LegalSize PROVE Spec => []Handed
<1>1. IInv => Handed
  BY InvHanded
<1>2. QED
  BY <1>1, Invariance, PTL

\* While nobody writes or reads a cell, one whose ticket was taken is past it.
LEMMA PastTickets ==
  ASSUME LegalSize, IInv, NEW i \in Nat, \A u \in Threads : ~Writes(u) /\ ~Reads(u)
  PROVE  /\ sequence[cell(i)] < i => i - Size >= dequeueIndex /\ i >= enqueueIndex
         /\ sequence[cell(i)] < i + 1 => i >= enqueueIndex \/ i - Size >= dequeueIndex
<1> DEFINE c == cell(i)
           s == sequence[c]
<1>1. /\ c \in Cells /\ s \in Nat /\ Size \in Nat /\ Size >= 2
      /\ enqueueIndex \in Nat /\ dequeueIndex \in Nat
      /\ dequeueIndex <= enqueueIndex /\ enqueueIndex <= dequeueIndex + Size
      /\ FreeFor(c, s) \/ FilledBy(c, s - 1)
  BY CellInCells DEF IInv, TypeOK, RoundInv, LegalSize
<1>2. CASE FreeFor(c, s)
  <2>1. cell(s) = cell(i) /\ enqueueIndex <= s /\ s < dequeueIndex + Size
    BY <1>2 DEF FreeFor
  <2>2. s < i => s + Size <= i
    BY <1>1, <2>1, Rounds
  <2>3. QED
    BY <1>1, <2>1, <2>2
<1>3. CASE FilledBy(c, s - 1)
  <2>1. /\ s - 1 \in Nat /\ cell(s - 1) = cell(i) /\ s - 1 < enqueueIndex
        /\ enqueueIndex <= (s - 1) + Size /\ dequeueIndex <= s - 1
    BY <1>3 DEF FilledBy
  <2>2. s - 1 < i => (s - 1) + Size <= i
    BY <1>1, <2>1, Rounds
  <2>3. QED
    BY <1>1, <2>1, <2>2
<1>4. QED
  BY <1>1, <1>2, <1>3

\* What RefusedRightly says of a step.
RefusesRightly ==
  \A t \in Threads : ~Idle(t) /\ Return(t, "false") /\ Alone(t) =>
    enqueueIndex - dequeueIndex = IF at[t] = "enqueue" THEN Size ELSE 0

LEMMA RefusalStep == LegalSize /\ IInv /\ [Next]_vars => [RefusesRightly]_vars
<1>1. SUFFICES ASSUME LegalSize, IInv, Next, NEW t \in Threads,
                      ~Idle(t), Return(t, "false"), Alone(t)
               PROVE  enqueueIndex - dequeueIndex = IF at[t] = "enqueue" THEN Size ELSE 0
  BY DEF RefusesRightly
<1>2. /\ TypeOK /\ LookInv /\ at[t] # "idle" /\ at'[t] = "idle" /\ verdict'[t] = "false"
      /\ \A u \in Threads : u # t => at[u] = "idle"
  BY <1>1 DEF IInv, Idle, Return, Go, Alone, TypeOK
<1>3. Refused(t)
  <2>1. PICK u \in Threads : enqueue(u) \/ dequeue(u) \/ Work(u) \/ Claim(u) \/ ClaimFails(u)
    BY <1>1 DEF Next
  <2>2. u = t
    BY <1>2, <2>1 DEF enqueue, dequeue, Begin, Idle, Work, Refused, Reload, MyTurn, Looking,
                      Move, Access, HandOver, Claim, ClaimFails, Go, Return, TypeOK
  <2>3. ~HandOver(t)
    BY <1>2 DEF HandOver, Return, TypeOK
  <2>4. ~(enqueue(t) \/ dequeue(t) \/ Reload(t) \/ MyTurn(t) \/ Move(t) \/ Claim(t) \/ ClaimFails(t))
    BY <1>2 DEF enqueue, dequeue, Begin, Idle, Reload, MyTurn, Move, Access, Claim,
                ClaimFails, Go, TypeOK
  <2>5. QED
    BY <2>1, <2>2, <2>3, <2>4 DEF Work
<1>4. /\ at[t] \in {"enqueue", "dequeue"} /\ Diff(t) < 0
      /\ index[t] \in Nat /\ sequence[cell(index[t])] \in Nat
  BY <1>1, <1>2, <1>3, CellInCells DEF Refused, Looking, TypeOK
<1>5. \A u \in Threads : ~Writes(u) /\ ~Reads(u)
  BY <1>2, <1>4 DEF Writes, Reads
<1>6. /\ enqueueIndex \in Nat /\ dequeueIndex \in Nat /\ Size \in Nat
      /\ dequeueIndex <= enqueueIndex /\ enqueueIndex <= dequeueIndex + Size
  BY <1>1 DEF IInv, TypeOK, RoundInv, LegalSize
<1>7. CASE at[t] = "enqueue"
  <2>1. index[t] <= enqueueIndex /\ sequence[cell(index[t])] < index[t]
    BY <1>2, <1>4, <1>7 DEF LookInv, Diff, Turn
  <2>2. index[t] - Size >= dequeueIndex
    BY <1>1, <1>4, <1>5, <2>1, PastTickets
  <2>3. QED
    BY <1>4, <1>6, <1>7, <2>1, <2>2
<1>8. CASE at[t] = "dequeue"
  <2>1. index[t] <= dequeueIndex /\ sequence[cell(index[t])] < index[t] + 1
    BY <1>2, <1>4, <1>8 DEF LookInv, Diff, Turn
  <2>2. index[t] >= enqueueIndex \/ index[t] - Size >= dequeueIndex
    BY <1>1, <1>4, <1>5, <2>1, PastTickets
  <2>3. dequeueIndex = enqueueIndex
    BY <1>4, <1>6, <2>1, <2>2 DEF LegalSize
  <2>4. QED
    BY <1>4, <1>6, <1>8, <2>3
<1>9. QED
  BY <1>4, <1>7, <1>8

\* A call that no other runs beside is refused only by a full queue, or by an
\* empty one, whatever calls that were interrupted have left behind
\* (mailbox.h:387 and 409-410).
THEOREM NoFalseRefusal == ASSUME LegalSize PROVE Spec => RefusedRightly
<1>1. IInv /\ [Next]_vars => [RefusesRightly]_vars
  BY RefusalStep
<1>2. QED
  BY <1>1, Invariance, PTL DEF Spec, RefusedRightly, RefusesRightly
=============================================================================
