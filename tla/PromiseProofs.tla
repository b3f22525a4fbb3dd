---------------------------- MODULE PromiseProofs ---------------------------
(***************************************************************************)
(* Proofs about Promise, for any number of threads, cores, promises and    *)
(* continuations, used by the rules of the runs: a callback runs once, is  *)
(* not forgotten, and tells what hangs on it; no use ends in an Error.     *)
(*                                                                         *)
(* The argument: at any moment a request is in one place.  It is on its    *)
(* way to one list, once, with the thread that called then, or in one      *)
(* list, once.  Only two may call it: who attaches it, if the promise is   *)
(* settled by then, and the loop over the list it is in, of which there    *)
(* is one; that loop has called all up to where it is and none after.      *)
(* Both can look at the promise only with its mutex, or while nobody       *)
(* settles anything.  So what is in the list of a settled promise has      *)
(* been called unless the loop is still at it, and none is called twice.   *)
(* A chainer settles a promise that was made for it and which no other     *)
(* chainer settles; and there always is room for the promises that the     *)
(* callbacks not yet called are going to return.                           *)
(***************************************************************************)
EXTENDS Promise, FiniteSetTheorems, SequenceTheorems, WellFoundedInduction, TLAPS

Hows == {"resolve", "reject"}

\* The rules of the runs: a promise is settled by one thread and nothing is attached to what then
\* returned while that happens; a callback that returns a promise throws an exception on.
LegalRules ==
  /\ ~Chained /\ ~TwoSettlers
  /\ NumCores \in Nat /\ NumRoots \in Nat
  /\ Continuations \subseteq (Kinds \X Handlers) \ {<<"promise", "ignore">>}
  /\ None \notin Threads \cup {"Pending", "Fulfilled", "Rejected"}

-----------------------------------------------------------------------------
(* Frames and stacks.                                                      *)

SettleFrames == [op : {"settle"}, core : Cores, how : Hows]
EachFrames   == [op : {"each"}, core : Cores, how : Hows, k : Nat \ {0}, locked : BOOLEAN]
CallFrames   == [op : {"call"}, req : Cores, how : Hows, core : Cores]
CalledFrames == [op : {"called"}, req : Cores, how : Hows]
FlyingFrames == [op : {"then", "attach"}, core : Cores, req : Cores]
Frames == SettleFrames \cup EachFrames \cup CallFrames \cup CalledFrames \cup FlyingFrames

Waits(f) == f.op \in {"each", "called", "attach"}

\* A stack: a call that waits for the one in front of it is one of three kinds,
\* and no call is there twice.
Nested(s) ==
  /\ s \in Seq(Frames)
  /\ \A j \in 2..Len(s) : Waits(s[j])
  /\ \A j, k \in 1..Len(s) : s[j] = s[k] => j = k
In(s) == {s[j] : j \in 1..Len(s)}

\* The calls of a thread, as a set, and those of each sort: on the way to settle
\* a core, in a loop over requests, about to call a request, with a callback that
\* has run, on the way to a list, and those of them that have the mutex.
calls == [t \in Threads |-> In(stack[t])]
settling == [t \in Threads |-> {f \in calls[t] : f.op = "settle"}]
looping == [t \in Threads |-> {f \in calls[t] : f.op = "each"}]
calling == [t \in Threads |-> {f \in calls[t] : f.op = "call"}]
ending == [t \in Threads |-> {f \in calls[t] : f.op = "called"}]
flying == [t \in Threads |-> {f \in calls[t] : f.op \in {"then", "attach"}}]
attaching == [t \in Threads |-> {f \in calls[t] : f.op = "attach"}]

\* The parts of a request.
kind == [c \in Cores |-> request[c].kind]
handler == [c \in Cores |-> request[c].handler]
target == [c \in Cores |-> request[c].target]

LEMMA FrameFields ==
  ASSUME NEW f \in Frames
  PROVE  /\ f.op = "settle" => f.core \in Cores /\ f.how \in Hows /\ f = Settle(f.core, f.how)
         /\ f.op = "each" => f.core \in Cores /\ f.how \in Hows /\ f.k \in Nat \ {0} /\ f.locked \in BOOLEAN
         /\ f.op = "call" => f.req \in Cores /\ f.how \in Hows /\ f.core \in Cores
                             /\ f = Call(f.req, f.how, f.core)
         /\ f.op = "called" => f.req \in Cores /\ f.how \in Hows /\ f = Called(f.req, f.how)
         /\ f.op = "then" => f.core \in Cores /\ f.req \in Cores /\ f = Then(f.core, f.req)
         /\ f.op = "attach" => f.core \in Cores /\ f.req \in Cores /\ f = Attach(f.core, f.req)
         /\ f.op \in {"settle", "each", "call", "called", "then", "attach"}
<1>1. CASE f \in SettleFrames
  BY <1>1 DEF SettleFrames, Settle
<1>2. CASE f \in EachFrames
  BY <1>2 DEF EachFrames
<1>3. CASE f \in CallFrames
  BY <1>3 DEF CallFrames, Call
<1>4. CASE f \in CalledFrames
  BY <1>4 DEF CalledFrames, Called
<1>5. CASE f \in FlyingFrames
  BY <1>5 DEF FlyingFrames, Then, Attach
<1>6. QED
  BY <1>1, <1>2, <1>3, <1>4, <1>5 DEF Frames

LEMMA FramesMade ==
  ASSUME NEW c \in Cores, NEW r \in Cores, NEW how \in Hows, NEW locked \in BOOLEAN
  PROVE  /\ Settle(c, how) \in Frames /\ Each(c, how, locked) \in Frames
         /\ Call(r, how, c) \in Frames /\ Called(r, how) \in Frames
         /\ Then(c, r) \in Frames /\ Attach(c, r) \in Frames
<1>1. Settle(c, how) \in SettleFrames
  BY DEF SettleFrames, Settle
<1>2. Each(c, how, locked) \in EachFrames
  BY DEF EachFrames, Each
<1>3. Call(r, how, c) \in CallFrames
  BY DEF CallFrames, Call
<1>4. Called(r, how) \in CalledFrames
  BY DEF CalledFrames, Called
<1>5. Then(c, r) \in FlyingFrames /\ Attach(c, r) \in FlyingFrames
  BY DEF FlyingFrames, Then, Attach
<1>6. QED
  BY <1>1, <1>2, <1>3, <1>4, <1>5 DEF Frames

\* The calls behind the innermost one.
LEMMA Behind ==
  ASSUME NEW s, Nested(s), s # <<>>
  PROVE  /\ Head(s) \in Frames /\ Head(s) \in In(s)
         /\ Nested(Tail(s)) /\ In(Tail(s)) = In(s) \ {Head(s)}
         /\ \A f \in In(s) \ {Head(s)} : f \in Frames /\ Waits(f)
         /\ \A j \in 1..Len(Tail(s)) : Waits(Tail(s)[j])
<1>1. s \in Seq(Frames) /\ Len(s) \in Nat \ {0} /\ Head(s) = s[1]
  BY DEF Nested
<1>2. /\ Tail(s) \in Seq(Frames) /\ Len(Tail(s)) = Len(s) - 1
      /\ \A j \in 1..Len(Tail(s)) : Tail(s)[j] = s[j + 1]
  BY <1>1
<1>3. \A j \in 1..Len(s) : s[j] \in Frames
  BY <1>1, ElementOfSeq
<1>4. \A j \in 1..Len(Tail(s)) : j + 1 \in 2..Len(s) /\ j + 1 \in 1..Len(s)
  BY <1>1, <1>2
<1>5. Head(s) \in Frames /\ Head(s) \in In(s)
  BY <1>1, <1>3 DEF In
<1>6. \A j \in 1..Len(Tail(s)) : Waits(Tail(s)[j])
  BY <1>2, <1>4 DEF Nested
<1>7. Nested(Tail(s))
  <2>1. \A j \in 2..Len(Tail(s)) : Waits(Tail(s)[j])
    BY <1>1, <1>2, <1>6
  <2>2. ASSUME NEW j \in 1..Len(Tail(s)), NEW k \in 1..Len(Tail(s)), Tail(s)[j] = Tail(s)[k]
        PROVE  j = k
    BY <1>1, <1>2, <1>4, <2>2 DEF Nested
  <2>3. QED
    BY <1>2, <2>1, <2>2 DEF Nested
<1>8. In(Tail(s)) = In(s) \ {Head(s)}
  <2>1. ASSUME NEW f \in In(Tail(s)) PROVE f \in In(s) /\ f # Head(s)
    <3>1. PICK j \in 1..Len(Tail(s)) : f = Tail(s)[j]
      BY <2>1 DEF In
    <3>2. f = s[j + 1] /\ j + 1 \in 1..Len(s) /\ j + 1 # 1 /\ 1 \in 1..Len(s)
      BY <1>1, <1>2, <1>4, <3>1
    <3>3. QED
      BY <1>1, <3>2 DEF In, Nested
  <2>2. ASSUME NEW f \in In(s), f # Head(s) PROVE f \in In(Tail(s))
    <3>1. PICK j \in 1..Len(s) : f = s[j]
      BY <2>2 DEF In
    <3>2. j - 1 \in 1..Len(Tail(s)) /\ Tail(s)[j - 1] = s[j]
      BY <1>1, <1>2, <2>2, <3>1
    <3>3. QED
      BY <3>1, <3>2 DEF In
  <2>3. QED
    BY <2>1, <2>2
<1>9. \A f \in In(s) \ {Head(s)} : f \in Frames /\ Waits(f)
  <2>1. ASSUME NEW f \in In(Tail(s)) PROVE f \in Frames /\ Waits(f)
    <3>1. PICK j \in 1..Len(Tail(s)) : f = Tail(s)[j]
      BY <2>1 DEF In
    <3>2. QED
      BY <1>2, <1>3, <1>4, <1>6, <3>1
  <2>2. QED
    BY <1>8, <2>1
<1>10. QED
  BY <1>5, <1>6, <1>7, <1>8, <1>9

\* One call more.
LEMMA Above ==
  ASSUME NEW s, Nested(s), \A j \in 1..Len(s) : Waits(s[j]), NEW f \in Frames, f \notin In(s)
  PROVE  Nested(<<f>> \o s) /\ In(<<f>> \o s) = In(s) \cup {f}
<1>1. s \in Seq(Frames) /\ Len(s) \in Nat /\ <<f>> \in Seq(Frames) /\ Len(<<f>>) = 1
  BY DEF Nested
<1>2. PICK q : q = <<f>> \o s
  OBVIOUS
<1>3. /\ q \in Seq(Frames) /\ Len(q) = Len(s) + 1
      /\ \A j \in 1..Len(q) : q[j] = IF j <= 1 THEN <<f>>[j] ELSE s[j - 1]
  BY <1>1, <1>2, ConcatProperties
<1>4. q[1] = f /\ \A j \in 2..Len(q) : q[j] = s[j - 1] /\ j - 1 \in 1..Len(s)
  BY <1>1, <1>3
<1>5. \A j \in 2..Len(q) : Waits(q[j])
  BY <1>4
<1>6. ASSUME NEW j \in 1..Len(q), NEW k \in 1..Len(q), q[j] = q[k] PROVE j = k
  <2>1. \A l \in 2..Len(q) : q[l] # f
    BY <1>4 DEF In
  <2>2. CASE j = 1 \/ k = 1
    BY <1>3, <1>4, <1>6, <2>1, <2>2
  <2>3. CASE j # 1 /\ k # 1
    <3>1. j \in 2..Len(q) /\ k \in 2..Len(q)
      BY <1>1, <1>3, <2>3
    <3>2. j - 1 = k - 1
      BY <1>4, <1>6, <3>1 DEF Nested
    <3>3. QED
      BY <3>1, <3>2
  <2>4. QED
    BY <2>2, <2>3
<1>7. In(q) = In(s) \cup {f}
  <2>1. ASSUME NEW g \in In(q) PROVE g \in In(s) \cup {f}
    <3>1. PICK j \in 1..Len(q) : g = q[j]
      BY <2>1 DEF In
    <3>2. j = 1 \/ j \in 2..Len(q)
      BY <1>1, <1>3
    <3>3. QED
      BY <1>4, <3>1, <3>2 DEF In
  <2>2. ASSUME NEW g \in In(s) PROVE g \in In(q)
    <3>1. PICK j \in 1..Len(s) : g = s[j]
      BY <2>2 DEF In
    <3>2. j + 1 \in 2..Len(q) /\ j + 1 \in 1..Len(q) /\ q[j + 1] = s[j]
      BY <1>1, <1>3
    <3>3. QED
      BY <3>1, <3>2 DEF In
  <2>3. f \in In(q)
    BY <1>1, <1>3, <1>4 DEF In
  <2>4. QED
    BY <2>1, <2>2, <2>3
<1>8. Nested(q)
  BY <1>3, <1>5, <1>6 DEF Nested
<1>9. QED
  BY <1>2, <1>7, <1>8

StackInv == stack \in [Threads -> Seq(Frames)] /\ \A t \in Threads : Nested(stack[t])

LEMMA NewStack ==
  ASSUME StackInv, NEW t \in Threads, NEW s, Nested(s), stack' = [stack EXCEPT ![t] = s]
  PROVE  StackInv' /\ calls'[t] = In(s) /\ \A u \in Threads \ {t} : calls'[u] = calls[u]
<1>1. /\ stack \in [Threads -> Seq(Frames)] /\ s \in Seq(Frames)
      /\ stack'[t] = s /\ \A u \in Threads \ {t} : stack'[u] = stack[u]
  BY DEF StackInv, Nested
<1>2. stack' \in [Threads -> Seq(Frames)]
  BY <1>1
<1>3. \A u \in Threads : Nested(stack'[u])
  BY <1>1 DEF StackInv
<1>4. QED
  BY <1>1, <1>2, <1>3 DEF StackInv, calls

LEMMA SameStack ==
  ASSUME StackInv, UNCHANGED stack
  PROVE  StackInv' /\ calls' = calls
BY DEF StackInv, calls

\* What is known of the calls of a thread.
LEMMA TopFacts ==
  ASSUME StackInv, NEW t \in Threads
  PROVE  /\ \A u \in Threads : \A f \in calls[u] : f \in Frames
         /\ ~Idle(t) => /\ Top(t) \in Frames /\ Top(t) \in calls[t]
                        /\ \A f \in calls[t] : f # Top(t) => Waits(f)
         /\ Idle(t) <=> calls[t] = {}
<1>1. \A u \in Threads : calls[u] = In(stack[u]) /\ Nested(stack[u])
  BY DEF StackInv, calls
<1>2. ASSUME NEW u \in Threads, NEW f \in calls[u] PROVE f \in Frames
  <2>1. PICK j \in 1..Len(stack[u]) : f = stack[u][j]
    BY <1>1 DEF In
  <2>2. QED
    BY <1>1, <2>1, ElementOfSeq DEF Nested
<1>3. ~Idle(t) => /\ Top(t) \in Frames /\ Top(t) \in calls[t]
                  /\ \A f \in calls[t] : f # Top(t) => Waits(f)
  BY <1>1, Behind DEF Idle, Top
<1>4. Idle(t) <=> calls[t] = {}
  <2>1. Idle(t) => calls[t] = {}
    BY <1>1 DEF Idle, In
  <2>2. QED
    BY <1>3, <2>1
<1>5. QED
  BY <1>2, <1>3, <1>4

\* The sorts of calls, and the fields of each.
LEMMA Sorts ==
  ASSUME StackInv, NEW t \in Threads
  PROVE  /\ \A f \in settling[t] : f.op = "settle" /\ f.core \in Cores /\ f.how \in Hows
         /\ \A f \in looping[t] : /\ f.op = "each" /\ f.core \in Cores /\ f.how \in Hows
                                  /\ f.k \in Nat \ {0} /\ f.locked \in BOOLEAN
         /\ \A f \in calling[t] : /\ f.op = "call" /\ f.req \in Cores /\ f.how \in Hows
                                  /\ f.core \in Cores /\ f = Call(f.req, f.how, f.core)
         /\ \A f \in ending[t] : f.op = "called" /\ f.req \in Cores /\ f.how \in Hows
         /\ \A f \in flying[t] : f.op \in {"then", "attach"} /\ f.core \in Cores /\ f.req \in Cores
         /\ \A f \in attaching[t] : /\ f.op = "attach" /\ f.core \in Cores /\ f.req \in Cores
                                    /\ f = Attach(f.core, f.req) /\ f \in flying[t]
<1>1. \A f \in calls[t] : f \in Frames
  BY TopFacts
<1>2. \A f \in settling[t] : f \in calls[t] /\ f.op = "settle"
  BY DEF settling
<1>3. \A f \in looping[t] : f \in calls[t] /\ f.op = "each"
  BY DEF looping
<1>4. \A f \in calling[t] : f \in calls[t] /\ f.op = "call"
  BY DEF calling
<1>5. \A f \in ending[t] : f \in calls[t] /\ f.op = "called"
  BY DEF ending
<1>6. \A f \in flying[t] : f \in calls[t] /\ f.op \in {"then", "attach"}
  BY DEF flying
<1>7. \A f \in attaching[t] : f \in calls[t] /\ f.op = "attach" /\ f \in flying[t]
  BY DEF attaching, flying
<1>8. \A f \in settling[t] : f.core \in Cores /\ f.how \in Hows
  BY <1>1, <1>2, FrameFields
<1>9. \A f \in looping[t] : f.core \in Cores /\ f.how \in Hows /\ f.k \in Nat \ {0} /\ f.locked \in BOOLEAN
  BY <1>1, <1>3, FrameFields
<1>10. \A f \in calling[t] : /\ f.req \in Cores /\ f.how \in Hows
                             /\ f.core \in Cores /\ f = Call(f.req, f.how, f.core)
  BY <1>1, <1>4, FrameFields
<1>11. \A f \in ending[t] : f.req \in Cores /\ f.how \in Hows
  BY <1>1, <1>5, FrameFields
<1>12. \A f \in flying[t] : f.core \in Cores /\ f.req \in Cores
  BY <1>1, <1>6, FrameFields
<1>13. \A f \in attaching[t] : f.core \in Cores /\ f.req \in Cores /\ f = Attach(f.core, f.req)
  BY <1>1, <1>7, FrameFields
<1>14. QED
  BY <1>2, <1>3, <1>4, <1>5, <1>6, <1>7, <1>8, <1>9, <1>10, <1>11, <1>12, <1>13

\* Only the innermost call settles, calls or waits for a mutex.
LEMMA TopSorts ==
  ASSUME StackInv, NEW t \in Threads, ~Idle(t)
  PROVE  /\ \A f \in settling[t] : f = Top(t)
         /\ \A f \in calling[t] : f = Top(t)
         /\ \A f \in flying[t] : f = Top(t) \/ f \in attaching[t]
<1>1. \A f \in calls[t] : f # Top(t) => f.op \in {"each", "called", "attach"}
  BY TopFacts DEF Waits
<1>2. QED
  BY <1>1 DEF settling, calling, flying, attaching

\* What Return and Replace do to the calls of a thread.
LEMMA ReturnStack ==
  ASSUME StackInv, NEW t \in Threads, ~Idle(t), Return(t)
  PROVE  /\ StackInv' /\ calls'[t] = calls[t] \ {Top(t)}
         /\ \A u \in Threads \ {t} : calls'[u] = calls[u]
<1>1. /\ Nested(stack[t]) /\ stack[t] # <<>> /\ calls[t] = In(stack[t])
      /\ stack' = [stack EXCEPT ![t] = Tail(stack[t])]
  BY DEF StackInv, Idle, Return, calls
<1>2. Nested(Tail(stack[t])) /\ In(Tail(stack[t])) = calls[t] \ {Top(t)}
  BY <1>1, Behind DEF Top
<1>3. QED
  BY <1>1, <1>2, NewStack

LEMMA ReplaceOne ==
  ASSUME StackInv, NEW t \in Threads, ~Idle(t), NEW f \in Frames, f \notin calls[t] \ {Top(t)},
         Replace(t, <<f>>)
  PROVE  /\ StackInv' /\ calls'[t] = (calls[t] \ {Top(t)}) \cup {f}
         /\ \A u \in Threads \ {t} : calls'[u] = calls[u]
<1>1. /\ Nested(stack[t]) /\ stack[t] # <<>> /\ calls[t] = In(stack[t])
      /\ stack' = [stack EXCEPT ![t] = <<f>> \o Tail(stack[t])]
  BY DEF StackInv, Idle, Replace, calls
<1>2. /\ Nested(Tail(stack[t])) /\ In(Tail(stack[t])) = calls[t] \ {Top(t)}
      /\ \A j \in 1..Len(Tail(stack[t])) : Waits(Tail(stack[t])[j])
  BY <1>1, Behind DEF Top
<1>3. Nested(<<f>> \o Tail(stack[t])) /\ In(<<f>> \o Tail(stack[t])) = (calls[t] \ {Top(t)}) \cup {f}
  BY <1>2, Above
<1>4. QED
  BY <1>1, <1>3, NewStack

LEMMA ReplaceTwo ==
  ASSUME StackInv, NEW t \in Threads, ~Idle(t), NEW f \in Frames, NEW g \in Frames,
         f # g, f \notin calls[t] \ {Top(t)}, g \notin calls[t] \ {Top(t)}, Waits(g),
         Replace(t, <<f, g>>)
  PROVE  /\ StackInv' /\ calls'[t] = (calls[t] \ {Top(t)}) \cup {f, g}
         /\ \A u \in Threads \ {t} : calls'[u] = calls[u]
<1>1. /\ Nested(stack[t]) /\ stack[t] # <<>> /\ calls[t] = In(stack[t])
      /\ stack' = [stack EXCEPT ![t] = <<f, g>> \o Tail(stack[t])]
  BY DEF StackInv, Idle, Replace, calls
<1>2. PICK q : q = Tail(stack[t])
  OBVIOUS
<1>3. Nested(q) /\ In(q) = calls[t] \ {Top(t)} /\ \A j \in 1..Len(q) : Waits(q[j])
  BY <1>1, <1>2, Behind DEF Top
<1>4. PICK r : r = <<g>> \o q
  OBVIOUS
<1>5. Nested(r) /\ In(r) = In(q) \cup {g}
  BY <1>3, <1>4, Above
<1>6. \A j \in 1..Len(r) : Waits(r[j])
  <2>1. q \in Seq(Frames) /\ <<g>> \in Seq(Frames) /\ Len(<<g>>) = 1 /\ Len(q) \in Nat
    BY <1>3 DEF Nested
  <2>2. /\ Len(r) = Len(q) + 1
        /\ \A j \in 1..Len(r) : r[j] = IF j <= 1 THEN <<g>>[j] ELSE q[j - 1]
    BY <1>4, <2>1, ConcatProperties
  <2>3. QED
    BY <1>3, <2>1, <2>2
<1>7. Nested(<<f>> \o r) /\ In(<<f>> \o r) = In(r) \cup {f}
  BY <1>3, <1>5, <1>6, Above
<1>8. <<f>> \o r = <<f, g>> \o q
  <2>1. q \in Seq(Frames)
    BY <1>3 DEF Nested
  <2>2. <<f>> \o (<<g>> \o q) = (<<f>> \o <<g>>) \o q
    BY <2>1, ConcatAssociative
  <2>3. <<f>> \o <<g>> = <<f, g>>
    <3>1. /\ <<f>> \in Seq(Frames) /\ <<g>> \in Seq(Frames) /\ <<f, g>> \in Seq(Frames)
          /\ Len(<<f>>) = 1 /\ Len(<<g>>) = 1 /\ Len(<<f, g>>) = 2
          /\ <<f>>[1] = f /\ <<g>>[1] = g /\ <<f, g>>[1] = f /\ <<f, g>>[2] = g
      OBVIOUS
    <3>2. PICK p : p = <<f>> \o <<g>>
      OBVIOUS
    <3>3. /\ p \in Seq(Frames) /\ Len(p) = 2
          /\ \A j \in 1..Len(p) : p[j] = IF j <= 1 THEN <<f>>[j] ELSE <<g>>[j - 1]
      BY <3>1, <3>2, ConcatProperties
    <3>4. p[1] = f /\ p[2] = g
      BY <3>1, <3>3
    <3>5. \A j \in 1..2 : p[j] = <<f, g>>[j]
      BY <3>1, <3>4
    <3>6. p = <<f, g>>
      BY <3>1, <3>3, <3>5, SeqEqual
    <3>7. QED
      BY <3>2, <3>6
  <2>4. QED
    BY <1>4, <2>2, <2>3
<1>9. Nested(<<f, g>> \o q) /\ In(<<f, g>> \o q) = (calls[t] \ {Top(t)}) \cup {f, g}
  BY <1>3, <1>5, <1>7, <1>8
<1>10. QED
  BY <1>1, <1>2, <1>9, NewStack

LEMMA FirstCall ==
  ASSUME StackInv, NEW t \in Threads, NEW f \in Frames, stack' = [stack EXCEPT ![t] = <<f>>]
  PROVE  /\ StackInv' /\ calls'[t] = {f}
         /\ \A u \in Threads \ {t} : calls'[u] = calls[u]
<1>1. <<f>> \in Seq(Frames) /\ Len(<<f>>) = 1 /\ <<f>>[1] = f
  OBVIOUS
<1>2. Nested(<<f>>) /\ In(<<f>>) = {f}
  BY <1>1 DEF Nested, In
<1>3. QED
  BY <1>2, NewStack

\* What a frame is made of.
LEMMA MadeOf ==
  ASSUME NEW c, NEW r, NEW how, NEW locked
  PROVE  /\ Settle(c, how).op = "settle" /\ Settle(c, how).core = c /\ Settle(c, how).how = how
         /\ Each(c, how, locked).op = "each" /\ Each(c, how, locked).core = c
         /\ Each(c, how, locked).how = how /\ Each(c, how, locked).k = 1
         /\ Each(c, how, locked).locked = locked
         /\ Call(r, how, c).op = "call" /\ Call(r, how, c).req = r /\ Call(r, how, c).how = how
         /\ Call(r, how, c).core = c
         /\ Called(r, how).op = "called" /\ Called(r, how).req = r /\ Called(r, how).how = how
         /\ Then(c, r).op = "then" /\ Then(c, r).core = c /\ Then(c, r).req = r
         /\ Attach(c, r).op = "attach" /\ Attach(c, r).core = c /\ Attach(c, r).req = r
BY DEF Settle, Each, Call, Called, Then, Attach

LEMMA MadeSettle ==
  ASSUME NEW c \in Cores, NEW how \in Hows
  PROVE  /\ Settle(c, how) \in Frames
         /\ Settle(c, how).op = "settle" /\ Settle(c, how).core = c /\ Settle(c, how).how = how
<1>1. Settle(c, how) \in SettleFrames
  BY DEF SettleFrames, Settle
<1>2. QED
  BY <1>1 DEF Frames, Settle

LEMMA MadeEach ==
  ASSUME NEW c \in Cores, NEW how \in Hows
  PROVE  /\ Each(c, how, TRUE) \in Frames /\ Each(c, how, TRUE).op = "each"
         /\ Each(c, how, TRUE).core = c /\ Each(c, how, TRUE).how = how
         /\ Each(c, how, TRUE).k = 1 /\ Each(c, how, TRUE).locked = TRUE
         /\ Each(c, how, FALSE) \in Frames /\ Each(c, how, FALSE).op = "each"
         /\ Each(c, how, FALSE).core = c /\ Each(c, how, FALSE).how = how
         /\ Each(c, how, FALSE).k = 1 /\ Each(c, how, FALSE).locked = FALSE
<1>1. Each(c, how, TRUE) \in EachFrames /\ Each(c, how, FALSE) \in EachFrames
  BY DEF EachFrames, Each
<1>2. QED
  BY <1>1 DEF Frames, Each

LEMMA MadeThen ==
  ASSUME NEW c \in Cores, NEW r \in Cores
  PROVE  Then(c, r) \in Frames /\ Then(c, r).op = "then" /\ Then(c, r).core = c /\ Then(c, r).req = r
<1>1. Then(c, r) \in FlyingFrames
  BY DEF FlyingFrames, Then
<1>2. QED
  BY <1>1 DEF Frames, Then

LEMMA MadeCalled ==
  ASSUME NEW r \in Cores, NEW how \in Hows
  PROVE  /\ Called(r, how) \in Frames /\ Called(r, how).op = "called"
         /\ Called(r, how).req = r /\ Called(r, how).how = how
<1>1. Called(r, how) \in CalledFrames
  BY DEF CalledFrames, Called
<1>2. QED
  BY <1>1 DEF Frames, Called

-----------------------------------------------------------------------------
(* The inductive invariant, in parts.                                      *)

Attachable == Kinds \cup {"root"}
Hanging == Kinds \cup {"chainer"}

\* What kinds of cores there are; a free one has nothing.
CoreInv ==
  \A c \in Cores :
    /\ state[c] = None <=> kind[c] = "none"
    /\ c <= NumRoots => kind[c] = "root"
    /\ requests[c] # <<>> => kind[c] \in Attachable
    /\ kind[c] \notin Hanging => ran[c] = <<>>
    /\ kind[c] # "root" => c \notin begun
    /\ kind[c] = "promise" => handler[c] = "rethrow"

\* A request is in one list, once.
ListInv ==
  /\ \A c \in Cores : \A j \in 1..Len(requests[c]) : kind[requests[c][j]] \in Hanging
  /\ \A c, d \in Cores : \A j \in 1..Len(requests[c]), k \in 1..Len(requests[d]) :
       requests[c][j] = requests[d][k] => c = d /\ j = k

\* A request on its way to a list is in none, once on its way, and nothing hangs
\* on it; what a chainer is on its way to is a new promise.
FlyingInv ==
  \A t \in Threads : \A f \in flying[t] :
    /\ kind[f.core] \in Attachable /\ kind[f.req] \in Hanging
    /\ requests[f.req] = <<>>
    /\ \A c \in Cores : \A j \in 1..Len(requests[c]) : requests[c][j] # f.req
    /\ f.op = "then" => ran[f.req] = <<>>
    /\ kind[f.req] = "chainer" =>
         f.core > NumRoots /\ kind[f.core] = "root" /\ state[f.core] = "Pending" /\ f.core \notin begun

ApartInv ==
  \A t, u \in Threads : \A f \in flying[t], g \in flying[u] :
    g.core # f.req /\ (g.req = f.req => u = t /\ g = f)

\* While something is being attached to what then returned, nobody settles a promise,
\* and what is called is what is being attached.
QuietInv ==
  \A t, u \in Threads : \A f \in flying[t] : kind[f.core] \in Kinds =>
    /\ settling[u] = {}
    /\ \A g \in looping[u] : g.core # f.core /\ requests[g.core] = <<>>
    /\ \A g \in calling[u] : Attach(g.core, g.req) \in attaching[u]

\* The mutex of a core is held by who attaches to it, or by who settles a root.
OwnerInv ==
  \A t \in Threads :
    /\ \A f \in attaching[t] : owner[f.core] = t
    /\ \A f \in looping[t] : f.locked => owner[f.core] = t
    /\ \A f \in attaching[t], g \in looping[t] : g.core # f.core
    /\ \A f, g \in attaching[t] : g.core = f.core => g = f

\* A root is settled by the one who began.
RootInv ==
  /\ \A c \in Cores : kind[c] = "root" /\ state[c] # "Pending" => c \in begun
  /\ \A t \in Threads : \A f \in settling[t] :
       kind[f.core] = "root" /\ state[f.core] = "Pending" /\ f.core \in begun
  /\ \A t, u \in Threads : \A f \in settling[t], g \in settling[u] : g.core = f.core => u = t

Way(c) == IF state[c] = "Fulfilled" THEN "resolve" ELSE "reject"
Opened(c) == Settled(c) \/ (kind[c] = "value" /\ ran[c] # <<>>)

\* The loop over the requests of a core: there is one, and how far it is.
LoopInv ==
  \A t \in Threads : \A f \in looping[t] :
    /\ kind[f.core] \in Attachable /\ Opened(f.core)
    /\ f.locked <=> kind[f.core] = "root"
    /\ Settled(f.core) => f.how = Way(f.core)
    /\ f.k <= Len(requests[f.core]) + 1

OneLoopInv ==
  \A t, u \in Threads : \A f \in looping[t], g \in looping[u] :
    g.core = f.core => u = t /\ g = f

AheadInv ==
  \A t \in Threads : \A f \in looping[t] : \A j \in 1..Len(requests[f.core]) :
    j >= f.k => ran[requests[f.core][j]] = <<>>

BehindInv ==
  \A t \in Threads : \A f \in looping[t] : \A j \in 1..Len(requests[f.core]) :
    j < f.k => \/ ran[requests[f.core][j]] = <<f.how>>
               \/ j = f.k - 1 /\ Call(requests[f.core][j], f.how, f.core) \in calling[t]

\* A request is called by who attaches it, or by the loop over the list it is in.
CallInv ==
  \A t \in Threads : \A f \in calling[t] :
    /\ kind[f.req] \in Hanging /\ ran[f.req] = <<>>
    /\ \/ Attach(f.core, f.req) \in attaching[t] /\ Settled(f.core) /\ f.how = Way(f.core)
       \/ \E e \in looping[t] : /\ e.core = f.core /\ e.how = f.how
                                /\ e.k - 1 \in 1..Len(requests[f.core])
                                /\ requests[f.core][e.k - 1] = f.req

\* What hangs on a core that is settled has been called, unless the loop is at it.
ToldInv ==
  \A c \in Cores : \A j \in 1..Len(requests[c]) :
    /\ Settled(c) /\ ran[requests[c][j]] # <<Way(c)>> =>
         \E t \in Threads : \E f \in looping[t] : f.core = c
    /\ ~Opened(c) => ran[requests[c][j]] = <<>>

\* So has what is being attached to it.
AttachInv ==
  \A t \in Threads : \A f \in attaching[t] :
    /\ Settled(f.core) => \/ ran[f.req] = <<Way(f.core)>>
                          \/ Call(f.req, Way(f.core), f.core) \in calling[t]
    /\ ~Settled(f.core) => ran[f.req] = <<>>

\* A callback that is running has run once, and counts once it is over.
CountInv ==
  /\ \A r \in Cores, how \in Hows : counts[r][how] # 0 => ran[r] = <<how>>
  /\ \A t \in Threads : \A f \in ending[t] : ran[f.req] = <<f.how>> /\ counts[f.req][f.how] = 0
  /\ \A t, u \in Threads : \A f \in ending[t], g \in ending[u] : g.req = f.req => u = t /\ g = f

\* What a callback did to its core.
RanInv ==
  \A r \in Cores :
    /\ ran[r] \in {<<>>, <<"resolve">>, <<"reject">>}
    /\ kind[r] \in Kinds /\ ran[r] = <<>> => state[r] = "Pending"
    /\ kind[r] = "value" /\ ran[r] = <<"resolve">> => state[r] = "Fulfilled"
    /\ kind[r] \in Kinds /\ handler[r] = "rethrow" /\ ran[r] = <<"reject">> =>
         state[r] = "Rejected" /\ reason[r]

\* What a chainer is to settle.
ChainerInv ==
  /\ \A r \in Cores : kind[r] = "chainer" =>
       /\ kind[target[r]] = "promise" /\ ran[target[r]] = <<"resolve">>
       /\ ran[r] = <<>> <=> state[target[r]] = "Pending"
  /\ \A r, q \in Cores :
       kind[r] = "chainer" /\ kind[q] = "chainer" /\ target[q] = target[r] => q = r

\* There is room for the promises that callbacks are going to return.
RoomInv == Cardinality(Free) >= Reserved

IInv ==
  /\ TypeOK /\ StackInv /\ CoreInv /\ ListInv /\ FlyingInv /\ ApartInv /\ QuietInv /\ OwnerInv
  /\ RootInv /\ LoopInv /\ OneLoopInv /\ AheadInv /\ BehindInv /\ CallInv /\ ToldInv /\ AttachInv /\ CountInv /\ RanInv
  /\ ChainerInv /\ RoomInv /\ NoErrors

-----------------------------------------------------------------------------
(* Types.                                                                  *)

AnyKind == Kinds \cup {"root", "none", "chainer"}

LEMMA Shapes ==
  ASSUME TypeOK
  PROVE  /\ \A c \in Cores : /\ kind[c] \in AnyKind /\ handler[c] \in Handlers /\ target[c] \in Cores
                             /\ Len(requests[c]) \in Nat
                             /\ requests[c] = <<>> <=> Len(requests[c]) = 0
         /\ \A c \in Cores : \A j \in 1..Len(requests[c]) : requests[c][j] \in Cores
<1>1. ASSUME NEW c \in Cores
      PROVE  /\ kind[c] \in AnyKind /\ handler[c] \in Handlers /\ target[c] \in Cores
             /\ requests[c] \in Seq(Cores)
  BY DEF TypeOK, kind, handler, target, AnyKind
<1>2. ASSUME NEW c \in Cores
      PROVE  /\ Len(requests[c]) \in Nat
             /\ requests[c] = <<>> <=> Len(requests[c]) = 0
             /\ \A j \in 1..Len(requests[c]) : requests[c][j] \in Cores
  BY <1>1, LenProperties, EmptySeq, ElementOfSeq
<1>3. QED
  BY <1>1, <1>2

\* The kinds, the handlers and the targets change only with request.
LEMMA SameRequest ==
  ASSUME UNCHANGED request
  PROVE  kind' = kind /\ handler' = handler /\ target' = target
BY DEF kind, handler, target

\* What has the same members for every thread is the same.
LEMMA SameSorts ==
  /\ (\A u \in Threads : \A x : x \in settling'[u] <=> x \in settling[u]) => settling' = settling
  /\ (\A u \in Threads : \A x : x \in looping'[u] <=> x \in looping[u]) => looping' = looping
  /\ (\A u \in Threads : \A x : x \in calling'[u] <=> x \in calling[u]) => calling' = calling
  /\ (\A u \in Threads : \A x : x \in ending'[u] <=> x \in ending[u]) => ending' = ending
  /\ (\A u \in Threads : \A x : x \in flying'[u] <=> x \in flying[u]) => flying' = flying
  /\ (\A u \in Threads : \A x : x \in attaching'[u] <=> x \in attaching[u]) => attaching' = attaching
<1>1. (\A u \in Threads : \A x : x \in settling'[u] <=> x \in settling[u]) => settling' = settling
  <2>1. SUFFICES ASSUME \A u \in Threads : \A x : x \in settling'[u] <=> x \in settling[u]
                 PROVE  settling' = settling
    OBVIOUS
  <2>2. \A u \in Threads : settling'[u] = settling[u]
    BY <2>1
  <2>3. settling = [u \in Threads |-> settling[u]] /\ settling' = [u \in Threads |-> settling'[u]]
    BY DEF settling
  <2>4. QED
    BY <2>2, <2>3
<1>2. (\A u \in Threads : \A x : x \in looping'[u] <=> x \in looping[u]) => looping' = looping
  <2>1. SUFFICES ASSUME \A u \in Threads : \A x : x \in looping'[u] <=> x \in looping[u]
                 PROVE  looping' = looping
    OBVIOUS
  <2>2. \A u \in Threads : looping'[u] = looping[u]
    BY <2>1
  <2>3. looping = [u \in Threads |-> looping[u]] /\ looping' = [u \in Threads |-> looping'[u]]
    BY DEF looping
  <2>4. QED
    BY <2>2, <2>3
<1>3. (\A u \in Threads : \A x : x \in calling'[u] <=> x \in calling[u]) => calling' = calling
  <2>1. SUFFICES ASSUME \A u \in Threads : \A x : x \in calling'[u] <=> x \in calling[u]
                 PROVE  calling' = calling
    OBVIOUS
  <2>2. \A u \in Threads : calling'[u] = calling[u]
    BY <2>1
  <2>3. calling = [u \in Threads |-> calling[u]] /\ calling' = [u \in Threads |-> calling'[u]]
    BY DEF calling
  <2>4. QED
    BY <2>2, <2>3
<1>4. (\A u \in Threads : \A x : x \in ending'[u] <=> x \in ending[u]) => ending' = ending
  <2>1. SUFFICES ASSUME \A u \in Threads : \A x : x \in ending'[u] <=> x \in ending[u]
                 PROVE  ending' = ending
    OBVIOUS
  <2>2. \A u \in Threads : ending'[u] = ending[u]
    BY <2>1
  <2>3. ending = [u \in Threads |-> ending[u]] /\ ending' = [u \in Threads |-> ending'[u]]
    BY DEF ending
  <2>4. QED
    BY <2>2, <2>3
<1>5. (\A u \in Threads : \A x : x \in flying'[u] <=> x \in flying[u]) => flying' = flying
  <2>1. SUFFICES ASSUME \A u \in Threads : \A x : x \in flying'[u] <=> x \in flying[u]
                 PROVE  flying' = flying
    OBVIOUS
  <2>2. \A u \in Threads : flying'[u] = flying[u]
    BY <2>1
  <2>3. flying = [u \in Threads |-> flying[u]] /\ flying' = [u \in Threads |-> flying'[u]]
    BY DEF flying
  <2>4. QED
    BY <2>2, <2>3
<1>6. (\A u \in Threads : \A x : x \in attaching'[u] <=> x \in attaching[u]) => attaching' = attaching
  <2>1. SUFFICES ASSUME \A u \in Threads : \A x : x \in attaching'[u] <=> x \in attaching[u]
                 PROVE  attaching' = attaching
    OBVIOUS
  <2>2. \A u \in Threads : attaching'[u] = attaching[u]
    BY <2>1
  <2>3. attaching = [u \in Threads |-> attaching[u]] /\ attaching' = [u \in Threads |-> attaching'[u]]
    BY DEF attaching
  <2>4. QED
    BY <2>2, <2>3
<1>7. QED
  BY <1>1, <1>2, <1>3, <1>4, <1>5, <1>6

\* A step of t that takes the call gone away and puts those of N in its place.
Steps(t, gone, N) ==
  \A u \in Threads : \A x :
    x \in calls'[u] <=> (x \in calls[u] /\ ~(u = t /\ x = gone)) \/ (u = t /\ x \in N)

LEMMA AsSteps ==
  ASSUME NEW t \in Threads, NEW gone, NEW N, calls'[t] = (calls[t] \ {gone}) \cup N,
         \A u \in Threads \ {t} : calls'[u] = calls[u]
  PROVE  Steps(t, gone, N)
<1>1. ASSUME NEW u \in Threads, NEW x
      PROVE  x \in calls'[u] <=> (x \in calls[u] /\ ~(u = t /\ x = gone)) \/ (u = t /\ x \in N)
  <2>1. CASE u = t
    BY <2>1
  <2>2. CASE u # t
    BY <2>2
  <2>3. QED
    BY <2>1, <2>2
<1>2. QED
  BY <1>1 DEF Steps

LEMMA ReturnSteps ==
  ASSUME StackInv, NEW t \in Threads, ~Idle(t), Return(t), NEW N, N = {}
  PROVE  StackInv' /\ Steps(t, Top(t), N)
BY ReturnStack, AsSteps

LEMMA OneSteps ==
  ASSUME StackInv, NEW t \in Threads, ~Idle(t), NEW f \in Frames, f \notin calls[t] \ {Top(t)},
         Replace(t, <<f>>), NEW N, N = {f}
  PROVE  StackInv' /\ Steps(t, Top(t), N)
BY ReplaceOne, AsSteps

LEMMA TwoSteps ==
  ASSUME StackInv, NEW t \in Threads, ~Idle(t), NEW f \in Frames, NEW g \in Frames,
         f # g, f \notin calls[t] \ {Top(t)}, g \notin calls[t] \ {Top(t)}, Waits(g),
         Replace(t, <<f, g>>), NEW N, N = {f, g}
  PROVE  StackInv' /\ Steps(t, Top(t), N)
BY ReplaceTwo, AsSteps

LEMMA FirstSteps ==
  ASSUME StackInv, NEW t \in Threads, Idle(t), NEW f \in Frames, stack' = [stack EXCEPT ![t] = <<f>>],
         NEW N, N = {f}
  PROVE  StackInv' /\ Steps(t, f, N)
<1>1. StackInv' /\ calls'[t] = {f} /\ \A u \in Threads \ {t} : calls'[u] = calls[u]
  BY FirstCall
<1>2. calls[t] = {}
  BY TopFacts
<1>3. calls'[t] = (calls[t] \ {f}) \cup N
  BY <1>1, <1>2
<1>4. QED
  BY <1>1, <1>3, AsSteps

\* What a step does to each sort.
LEMMA Sorted ==
  ASSUME NEW t \in Threads, NEW gone, NEW N, Steps(t, gone, N)
  PROVE  \A u \in Threads : \A x :
           /\ x \in settling'[u] <=>
                 (x \in settling[u] /\ ~(u = t /\ x = gone)) \/ (u = t /\ x \in N /\ x.op = "settle")
           /\ x \in looping'[u] <=>
                 (x \in looping[u] /\ ~(u = t /\ x = gone)) \/ (u = t /\ x \in N /\ x.op = "each")
           /\ x \in calling'[u] <=>
                 (x \in calling[u] /\ ~(u = t /\ x = gone)) \/ (u = t /\ x \in N /\ x.op = "call")
           /\ x \in ending'[u] <=>
                 (x \in ending[u] /\ ~(u = t /\ x = gone)) \/ (u = t /\ x \in N /\ x.op = "called")
           /\ x \in flying'[u] <=>
                 (x \in flying[u] /\ ~(u = t /\ x = gone)) \/ (u = t /\ x \in N /\ x.op \in {"then", "attach"})
           /\ x \in attaching'[u] <=>
                 (x \in attaching[u] /\ ~(u = t /\ x = gone)) \/ (u = t /\ x \in N /\ x.op = "attach")
<1>1. ASSUME NEW u \in Threads, NEW x
      PROVE  x \in calls'[u] <=> (x \in calls[u] /\ ~(u = t /\ x = gone)) \/ (u = t /\ x \in N)
  BY DEF Steps
<1>2. ASSUME NEW u \in Threads, NEW x
      PROVE  /\ x \in settling[u] <=> x \in calls[u] /\ x.op = "settle"
             /\ x \in looping[u] <=> x \in calls[u] /\ x.op = "each"
             /\ x \in calling[u] <=> x \in calls[u] /\ x.op = "call"
             /\ x \in ending[u] <=> x \in calls[u] /\ x.op = "called"
             /\ x \in flying[u] <=> x \in calls[u] /\ x.op \in {"then", "attach"}
             /\ x \in attaching[u] <=> x \in calls[u] /\ x.op = "attach"
  BY DEF settling, looping, calling, ending, flying, attaching
<1>3. ASSUME NEW u \in Threads, NEW x
      PROVE  /\ x \in settling'[u] <=> x \in calls'[u] /\ x.op = "settle"
             /\ x \in looping'[u] <=> x \in calls'[u] /\ x.op = "each"
             /\ x \in calling'[u] <=> x \in calls'[u] /\ x.op = "call"
             /\ x \in ending'[u] <=> x \in calls'[u] /\ x.op = "called"
             /\ x \in flying'[u] <=> x \in calls'[u] /\ x.op \in {"then", "attach"}
             /\ x \in attaching'[u] <=> x \in calls'[u] /\ x.op = "attach"
  BY DEF settling, looping, calling, ending, flying, attaching
<1>4. QED
  BY <1>1, <1>2, <1>3

\* A sort to which a step neither takes nor adds is as before.
LEMMA KeptSorts ==
  ASSUME NEW t \in Threads, NEW gone, NEW N, Steps(t, gone, N)
  PROVE  /\ (gone.op = "settle" => gone \notin calls[t]) /\ (\A x \in N : x.op # "settle")
              => settling' = settling
         /\ (gone.op = "each" => gone \notin calls[t]) /\ (\A x \in N : x.op # "each")
              => looping' = looping
         /\ (gone.op = "call" => gone \notin calls[t]) /\ (\A x \in N : x.op # "call")
              => calling' = calling
         /\ (gone.op = "called" => gone \notin calls[t]) /\ (\A x \in N : x.op # "called")
              => ending' = ending
         /\ (gone.op \in {"then", "attach"} => gone \notin calls[t]) /\ (\A x \in N : x.op \notin {"then", "attach"})
              => flying' = flying
         /\ (gone.op = "attach" => gone \notin calls[t]) /\ (\A x \in N : x.op # "attach")
              => attaching' = attaching
<1>1. ASSUME (gone.op = "settle" => gone \notin calls[t]) /\ (\A x \in N : x.op # "settle")
       PROVE  settling' = settling
  <2>1. ASSUME NEW u \in Threads, NEW x PROVE x \in settling'[u] <=> x \in settling[u]
    <3>1. x \in settling'[u] <=> (x \in settling[u] /\ ~(u = t /\ x = gone)) \/ (u = t /\ x \in N /\ x.op = "settle")
      BY Sorted
    <3>2. x \in settling[u] => x \in calls[u] /\ x.op = "settle"
      BY DEF settling
    <3>3. QED
      BY <1>1, <3>1, <3>2
  <2>2. QED
    BY <2>1, SameSorts
<1>2. ASSUME (gone.op = "each" => gone \notin calls[t]) /\ (\A x \in N : x.op # "each")
       PROVE  looping' = looping
  <2>1. ASSUME NEW u \in Threads, NEW x PROVE x \in looping'[u] <=> x \in looping[u]
    <3>1. x \in looping'[u] <=> (x \in looping[u] /\ ~(u = t /\ x = gone)) \/ (u = t /\ x \in N /\ x.op = "each")
      BY Sorted
    <3>2. x \in looping[u] => x \in calls[u] /\ x.op = "each"
      BY DEF looping
    <3>3. QED
      BY <1>2, <3>1, <3>2
  <2>2. QED
    BY <2>1, SameSorts
<1>3. ASSUME (gone.op = "call" => gone \notin calls[t]) /\ (\A x \in N : x.op # "call")
       PROVE  calling' = calling
  <2>1. ASSUME NEW u \in Threads, NEW x PROVE x \in calling'[u] <=> x \in calling[u]
    <3>1. x \in calling'[u] <=> (x \in calling[u] /\ ~(u = t /\ x = gone)) \/ (u = t /\ x \in N /\ x.op = "call")
      BY Sorted
    <3>2. x \in calling[u] => x \in calls[u] /\ x.op = "call"
      BY DEF calling
    <3>3. QED
      BY <1>3, <3>1, <3>2
  <2>2. QED
    BY <2>1, SameSorts
<1>4. ASSUME (gone.op = "called" => gone \notin calls[t]) /\ (\A x \in N : x.op # "called")
       PROVE  ending' = ending
  <2>1. ASSUME NEW u \in Threads, NEW x PROVE x \in ending'[u] <=> x \in ending[u]
    <3>1. x \in ending'[u] <=> (x \in ending[u] /\ ~(u = t /\ x = gone)) \/ (u = t /\ x \in N /\ x.op = "called")
      BY Sorted
    <3>2. x \in ending[u] => x \in calls[u] /\ x.op = "called"
      BY DEF ending
    <3>3. QED
      BY <1>4, <3>1, <3>2
  <2>2. QED
    BY <2>1, SameSorts
<1>5. ASSUME (gone.op \in {"then", "attach"} => gone \notin calls[t]) /\ (\A x \in N : x.op \notin {"then", "attach"})
       PROVE  flying' = flying
  <2>1. ASSUME NEW u \in Threads, NEW x PROVE x \in flying'[u] <=> x \in flying[u]
    <3>1. x \in flying'[u] <=> (x \in flying[u] /\ ~(u = t /\ x = gone)) \/ (u = t /\ x \in N /\ x.op \in {"then", "attach"})
      BY Sorted
    <3>2. x \in flying[u] => x \in calls[u] /\ x.op \in {"then", "attach"}
      BY DEF flying
    <3>3. QED
      BY <1>5, <3>1, <3>2
  <2>2. QED
    BY <2>1, SameSorts
<1>6. ASSUME (gone.op = "attach" => gone \notin calls[t]) /\ (\A x \in N : x.op # "attach")
       PROVE  attaching' = attaching
  <2>1. ASSUME NEW u \in Threads, NEW x PROVE x \in attaching'[u] <=> x \in attaching[u]
    <3>1. x \in attaching'[u] <=> (x \in attaching[u] /\ ~(u = t /\ x = gone)) \/ (u = t /\ x \in N /\ x.op = "attach")
      BY Sorted
    <3>2. x \in attaching[u] => x \in calls[u] /\ x.op = "attach"
      BY DEF attaching
    <3>3. QED
      BY <1>6, <3>1, <3>2
  <2>2. QED
    BY <2>1, SameSorts
<1>7. QED
  BY <1>1, <1>2, <1>3, <1>4, <1>5, <1>6

\* The innermost call.
LEMMA TopIs ==
  ASSUME StackInv, NEW t \in Threads, NEW op, At(t, op)
  PROVE  /\ ~Idle(t) /\ Top(t).op = op /\ Top(t) \in Frames /\ Top(t) \in calls[t]
         /\ op # "settle" => settling[t] = {}
         /\ op # "call" => calling[t] = {}
         /\ op # "then" => flying[t] = attaching[t]
         /\ op = "settle" => Top(t) \in settling[t]
         /\ op = "each" => Top(t) \in looping[t]
         /\ op = "call" => Top(t) \in calling[t]
         /\ op = "called" => Top(t) \in ending[t]
         /\ op \in {"then", "attach"} => Top(t) \in flying[t]
         /\ op = "attach" => Top(t) \in attaching[t]
<1>1. ~Idle(t) /\ Top(t).op = op /\ Top(t) \in Frames /\ Top(t) \in calls[t]
  BY TopFacts DEF At
<1>2. op # "settle" => \A x : x \notin settling[t]
  BY <1>1, TopSorts, Sorts
<1>3. op # "call" => \A x : x \notin calling[t]
  BY <1>1, TopSorts, Sorts
<1>4. op # "then" => \A x : x \in flying[t] <=> x \in attaching[t]
  <2>1. \A x : x \in attaching[t] => x \in flying[t]
    BY Sorts
  <2>2. \A x : x \in flying[t] => x = Top(t) \/ x \in attaching[t]
    BY <1>1, TopSorts
  <2>3. op \in {"then", "attach"} \/ Top(t) \notin flying[t]
    BY <1>1, Sorts
  <2>4. op = "attach" => Top(t) \in attaching[t]
    BY <1>1 DEF attaching
  <2>5. QED
    BY <2>1, <2>2, <2>3, <2>4
<1>5. /\ op = "settle" => Top(t) \in settling[t]
      /\ op = "each" => Top(t) \in looping[t]
      /\ op = "call" => Top(t) \in calling[t]
      /\ op = "called" => Top(t) \in ending[t]
      /\ op \in {"then", "attach"} => Top(t) \in flying[t]
      /\ op = "attach" => Top(t) \in attaching[t]
  BY <1>1 DEF settling, looping, calling, ending, flying, attaching
<1>6. QED
  BY <1>1, <1>2, <1>3, <1>4, <1>5

-----------------------------------------------------------------------------
(* The loop over the requests of a core.                                   *)

\* The loop goes on to the next request.
LEMMA EachCallStep ==
  ASSUME LegalRules, IInv, NEW t \in Threads, EachRequest(t),
         Top(t).k <= Len(requests[Top(t).core])
  PROVE  IInv'
<1> DEFINE f == Top(t)
           c == f.core
           g == [f EXCEPT !.k = @ + 1]
           r == requests[c][f.k]
           h == Call(r, f.how, c)
<1>1. /\ TypeOK /\ StackInv /\ CoreInv /\ ListInv /\ FlyingInv /\ ApartInv /\ QuietInv /\ OwnerInv
      /\ RootInv /\ LoopInv /\ OneLoopInv /\ AheadInv /\ BehindInv /\ CallInv /\ ToldInv /\ AttachInv
      /\ CountInv /\ RanInv /\ ChainerInv /\ RoomInv /\ NoErrors
  BY DEF IInv
<1>2. /\ ~Idle(t) /\ f.op = "each" /\ Replace(t, <<h, g>>)
      /\ UNCHANGED <<state, owner, settler, reason, requests, request, counts, failed, ran, begun>>
  BY DEF EachRequest, At
<1>3. kind' = kind /\ handler' = handler /\ target' = target
  BY <1>2, SameRequest
<1>4. /\ f \in Frames /\ f \in calls[t] /\ f \in looping[t]
      /\ c \in Cores /\ f.how \in Hows /\ f.k \in Nat \ {0} /\ f.locked \in BOOLEAN
  <2>1. f \in Frames /\ f \in calls[t]
    BY <1>1, <1>2, TopFacts
  <2>2. f \in looping[t]
    BY <1>2, <2>1 DEF looping
  <2>3. QED
    BY <1>1, <2>1, <2>2, Sorts
<1>5. f.k \in 1..Len(requests[c]) /\ r \in Cores
  BY <1>1, <1>4, Shapes
<1>6. /\ g.op = "each" /\ g.core = c /\ g.how = f.how /\ g.k = f.k + 1 /\ g.locked = f.locked
      /\ g \in Frames
  <2>1. f \in EachFrames
    BY <1>2, <1>4 DEF Frames, SettleFrames, CallFrames, CalledFrames, FlyingFrames
  <2>2. g \in EachFrames /\ g.op = "each" /\ g.core = c /\ g.how = f.how /\ g.k = f.k + 1 /\ g.locked = f.locked
    BY <2>1 DEF EachFrames
  <2>3. QED
    BY <2>2 DEF Frames
<1>7. h \in Frames /\ h.op = "call" /\ h.req = r /\ h.how = f.how /\ h.core = c /\ h = Call(r, f.how, c)
  BY <1>4, <1>5, FramesMade, MadeOf
<1>8. r = requests[c][f.k]
  OBVIOUS
<1>9. Top(t) = f /\ f.core = c
  OBVIOUS
<1> HIDE DEF f, c, g, r, h
<1>10. settling[t] = {} /\ calling[t] = {} /\ flying[t] = attaching[t]
  <2>1. \A x : x \notin settling[t] /\ x \notin calling[t] /\ (x \in flying[t] <=> x \in attaching[t])
    BY <1>1, <1>2, <1>9, TopSorts, Sorts
  <2>2. QED
    BY <2>1
<1>11. g \notin calls[t] /\ h \notin calls[t] /\ g # h /\ Waits(g)
  <2>1. g # f /\ g # h /\ Waits(g)
    BY <1>4, <1>6, <1>7 DEF Waits
  <2>2. g \notin looping[t]
    BY <1>1, <1>4, <1>6, <1>9, <2>1 DEF OneLoopInv
  <2>3. QED
    BY <1>6, <1>7, <1>10, <2>1, <2>2 DEF looping, calling
<1>12. PICK N : N = {h, g}
  OBVIOUS
<1>13. StackInv' /\ Steps(t, f, N)
  BY <1>1, <1>2, <1>6, <1>7, <1>9, <1>11, <1>12, TwoSteps
<1>14. /\ settling' = settling /\ ending' = ending /\ flying' = flying /\ attaching' = attaching
       /\ \A u \in Threads : \A x :
            /\ x \in looping'[u] <=> (x \in looping[u] /\ ~(u = t /\ x = f)) \/ (u = t /\ x = g)
            /\ x \in calling'[u] <=> x \in calling[u] \/ (u = t /\ x = h)
  <2>1. /\ f.op = "each" /\ g.op = "each" /\ h.op = "call"
        /\ \A u \in Threads : \A x : x \in calling[u] => x.op = "call"
        /\ \A x : x \in N <=> x = h \/ x = g
    BY <1>1, <1>2, <1>6, <1>7, <1>12, Sorts
  <2>2. settling' = settling /\ ending' = ending /\ flying' = flying /\ attaching' = attaching
    BY <1>13, <2>1, KeptSorts
  <2>3. \A u \in Threads : \A x :
          /\ x \in looping'[u] <=>
                 (x \in looping[u] /\ ~(u = t /\ x = f)) \/ (u = t /\ x \in N /\ x.op = "each")
          /\ x \in calling'[u] <=>
                 (x \in calling[u] /\ ~(u = t /\ x = f)) \/ (u = t /\ x \in N /\ x.op = "call")
    BY <1>13, Sorted
  <2>4. QED
    BY <2>1, <2>2, <2>3
<1>15. FlyingInv' /\ ApartInv'
  BY <1>1, <1>2, <1>3, <1>14 DEF FlyingInv, ApartInv
<1>16. QuietInv'
  BY <1>1, <1>2, <1>3, <1>4, <1>5, <1>9, <1>14, Shapes DEF QuietInv
<1>17. OwnerInv'
  BY <1>1, <1>2, <1>4, <1>6, <1>9, <1>14 DEF OwnerInv
<1>18. RootInv'
  BY <1>1, <1>2, <1>3, <1>14 DEF RootInv
<1>19. LoopInv'
  BY <1>1, <1>2, <1>3, <1>4, <1>5, <1>6, <1>9, <1>14, Shapes DEF LoopInv, Opened, Settled, Way
<1>20. OneLoopInv'
  BY <1>1, <1>4, <1>6, <1>9, <1>14 DEF OneLoopInv
<1>21. AheadInv'
  BY <1>1, <1>2, <1>4, <1>6, <1>9, <1>14 DEF AheadInv
<1>22. BehindInv'
  <2>1. ASSUME NEW u \in Threads, NEW e \in looping'[u], NEW j \in 1..Len(requests[e.core]), j < e.k
        PROVE  \/ ran[requests[e.core][j]] = <<e.how>>
               \/ j = e.k - 1 /\ Call(requests[e.core][j], e.how, e.core) \in calling'[u]
    <3>1. CASE e \in looping[u] /\ e # f
      BY <1>1, <1>10, <1>14, <2>1, <3>1 DEF BehindInv
    <3>2. CASE u = t /\ e = g /\ j < f.k
      <4>1. j \in 1..Len(requests[f.core])
        BY <1>6, <1>9, <2>1, <3>2
      <4>2. ran[requests[f.core][j]] = <<f.how>>
        BY <1>1, <1>4, <1>10, <3>2, <4>1 DEF BehindInv
      <4>3. QED
        BY <1>6, <1>9, <3>2, <4>2
    <3>3. CASE u = t /\ e = g /\ ~(j < f.k)
      <4>1. j = f.k
        BY <1>4, <1>6, <2>1, <3>3
      <4>2. QED
        BY <1>4, <1>6, <1>7, <1>8, <1>9, <1>14, <3>3, <4>1
    <3>4. QED
      BY <1>4, <1>14, <2>1, <3>1, <3>2, <3>3, <1>1 DEF OneLoopInv
  <2>2. QED
    BY <1>2, <2>1 DEF BehindInv
<1>23. CallInv'
  <2>1. ASSUME NEW u \in Threads, NEW x \in calling'[u]
        PROVE  /\ kind'[x.req] \in Hanging /\ ran'[x.req] = <<>>
               /\ \/ Attach(x.core, x.req) \in attaching'[u] /\ Settled(x.core)' /\ x.how = Way(x.core)'
                  \/ \E e \in looping'[u] : /\ e.core = x.core /\ e.how = x.how
                                            /\ e.k - 1 \in 1..Len(requests'[x.core])
                                            /\ requests'[x.core][e.k - 1] = x.req
    <3>1. CASE u = t
      <4>1. x = h /\ g \in looping'[t]
        BY <1>10, <1>14, <2>1, <3>1
      <4>2. kind[r] \in Hanging /\ ran[r] = <<>>
        BY <1>1, <1>4, <1>5, <1>8, <1>9 DEF ListInv, AheadInv
      <4>3. g.k - 1 = f.k
        BY <1>4, <1>6
      <4>4. QED
        BY <1>2, <1>3, <1>5, <1>6, <1>7, <1>8, <3>1, <4>1, <4>2, <4>3
    <3>2. CASE u # t
      BY <1>1, <1>2, <1>3, <1>14, <2>1, <3>2 DEF CallInv, Settled, Way
    <3>3. QED
      BY <3>1, <3>2
  <2>2. QED
    BY <2>1 DEF CallInv
<1>24. ToldInv'
  <2>1. ASSUME NEW d, \E u \in Threads : \E e \in looping[u] : e.core = d
        PROVE  \E u \in Threads : \E e \in looping'[u] : e.core = d
    <3>1. PICK u \in Threads : \E e \in looping[u] : e.core = d
      BY <2>1
    <3>2. PICK e \in looping[u] : e.core = d
      BY <3>1
    <3>3. CASE u = t /\ e = f
      BY <1>6, <1>9, <1>14, <3>2, <3>3
    <3>4. CASE ~(u = t /\ e = f)
      BY <1>14, <3>2, <3>4
    <3>5. QED
      BY <3>3, <3>4
  <2>2. QED
    BY <1>1, <1>2, <1>3, <2>1 DEF ToldInv, Opened, Settled, Way
<1>25. AttachInv'
  BY <1>1, <1>2, <1>3, <1>10, <1>14 DEF AttachInv, Settled, Way
<1>26. CountInv'
  BY <1>1, <1>2, <1>14 DEF CountInv
<1>27. TypeOK' /\ CoreInv' /\ ListInv' /\ RanInv' /\ ChainerInv' /\ RoomInv' /\ NoErrors'
  BY <1>1, <1>2, <1>3 DEF TypeOK, CoreInv, ListInv, RanInv, ChainerInv, RoomInv, Free, Reserved, NoErrors
<1>28. QED
  BY <1>13, <1>15, <1>16, <1>17, <1>18, <1>19, <1>20, <1>21, <1>22, <1>23, <1>24, <1>25, <1>26, <1>27 DEF IInv

\* The loop is over.
LEMMA EachEndStep ==
  ASSUME LegalRules, IInv, NEW t \in Threads, EachRequest(t),
         ~(Top(t).k <= Len(requests[Top(t).core]))
  PROVE  IInv'
<1> DEFINE f == Top(t)
           c == f.core
<1>1. /\ TypeOK /\ StackInv /\ CoreInv /\ ListInv /\ FlyingInv /\ ApartInv /\ QuietInv /\ OwnerInv
      /\ RootInv /\ LoopInv /\ OneLoopInv /\ AheadInv /\ BehindInv /\ CallInv /\ ToldInv /\ AttachInv
      /\ CountInv /\ RanInv /\ ChainerInv /\ RoomInv /\ NoErrors
  BY DEF IInv
<1>2. /\ At(t, "each") /\ f.op = "each" /\ Return(t)
      /\ owner' = IF f.locked THEN [owner EXCEPT ![c] = None] ELSE owner
      /\ UNCHANGED <<state, settler, reason, requests, request, counts, failed, ran, begun>>
  BY DEF EachRequest, At
<1>3. kind' = kind /\ handler' = handler /\ target' = target
  BY <1>2, SameRequest
<1>4. /\ ~Idle(t) /\ f \in looping[t] /\ settling[t] = {} /\ calling[t] = {}
      /\ c \in Cores /\ f.how \in Hows /\ f.k \in Nat \ {0} /\ f.locked \in BOOLEAN
  BY <1>1, <1>2, TopIs, Sorts
<1>5. f.k = Len(requests[c]) + 1
  BY <1>1, <1>4, Shapes DEF LoopInv
<1>6. Top(t) = f /\ f.core = c
  OBVIOUS
<1> HIDE DEF f, c
<1>7. /\ owner' \in [Cores -> Threads \cup {None}]
      /\ \A d \in Cores : owner'[d] = owner[d] \/ (d = c /\ f.locked /\ owner'[d] = None)
  BY <1>1, <1>2, <1>4 DEF TypeOK
<1>8. PICK N : N = {}
  OBVIOUS
<1>9. StackInv' /\ Steps(t, f, N)
  BY <1>1, <1>2, <1>4, <1>6, <1>8, ReturnSteps
<1>10. /\ settling' = settling /\ ending' = ending /\ flying' = flying /\ attaching' = attaching
       /\ calling' = calling
       /\ \A u \in Threads : \A x : x \in looping'[u] <=> (x \in looping[u] /\ ~(u = t /\ x = f))
  <2>1. f.op = "each" /\ \A x : x \notin N
    BY <1>2, <1>8
  <2>2. settling' = settling /\ ending' = ending /\ flying' = flying /\ attaching' = attaching /\ calling' = calling
    BY <1>9, <2>1, KeptSorts
  <2>3. QED
    BY <1>9, <2>1, <2>2, Sorted
<1>11. FlyingInv' /\ ApartInv'
  BY <1>1, <1>2, <1>3, <1>10 DEF FlyingInv, ApartInv
<1>12. QuietInv'
  BY <1>1, <1>2, <1>3, <1>10 DEF QuietInv
<1>13. OwnerInv'
  <2>1. ASSUME NEW u \in Threads, NEW g \in attaching[u] PROVE owner'[g.core] = u
    BY <1>1, <1>4, <1>6, <1>7, <2>1, Sorts DEF OwnerInv
  <2>2. ASSUME NEW u \in Threads, NEW g \in looping'[u], g.locked PROVE owner'[g.core] = u
    BY <1>1, <1>4, <1>6, <1>7, <1>10, <2>2, Sorts DEF OwnerInv, OneLoopInv
  <2>3. QED
    BY <1>1, <1>10, <2>1, <2>2 DEF OwnerInv
<1>14. RootInv'
  BY <1>1, <1>2, <1>3, <1>10 DEF RootInv
<1>15. LoopInv' /\ OneLoopInv' /\ AheadInv' /\ BehindInv'
  BY <1>1, <1>2, <1>3, <1>10 DEF LoopInv, OneLoopInv, AheadInv, BehindInv, Opened, Settled, Way
<1>16. CallInv'
  BY <1>1, <1>2, <1>3, <1>4, <1>10 DEF CallInv, Settled, Way
<1>17. ToldInv'
  <2>1. ASSUME NEW j \in 1..Len(requests[c]) PROVE ran[requests[c][j]] = <<f.how>>
    <3>1. j < f.k
      BY <1>1, <1>4, <1>5, Shapes
    <3>2. QED
      BY <1>1, <1>4, <1>6, <3>1 DEF BehindInv
  <2>2. ASSUME NEW d \in Cores, NEW j \in 1..Len(requests[d]), Settled(d), ran[requests[d][j]] # <<Way(d)>>
        PROVE  \E u \in Threads : \E e \in looping'[u] : e.core = d
    <3>1. d # c
      BY <1>1, <1>4, <1>6, <2>1, <2>2 DEF LoopInv
    <3>2. PICK u \in Threads : \E e \in looping[u] : e.core = d
      BY <1>1, <2>2 DEF ToldInv
    <3>3. PICK e \in looping[u] : e.core = d
      BY <3>2
    <3>4. e \in looping'[u]
      BY <1>6, <1>10, <3>1, <3>3
    <3>5. QED
      BY <3>3, <3>4
  <2>3. QED
    BY <1>1, <1>2, <1>3, <2>2 DEF ToldInv, Opened, Settled, Way
<1>18. AttachInv'
  BY <1>1, <1>2, <1>3, <1>10 DEF AttachInv, Settled, Way
<1>19. CountInv'
  BY <1>1, <1>2, <1>10 DEF CountInv
<1>20. TypeOK' /\ CoreInv' /\ ListInv' /\ RanInv' /\ ChainerInv' /\ RoomInv' /\ NoErrors'
  <2>1. TypeOK'
    BY <1>1, <1>2, <1>7 DEF TypeOK
  <2>2. QED
    BY <1>1, <1>2, <1>3, <2>1 DEF CoreInv, ListInv, RanInv, ChainerInv, RoomInv, Free, Reserved, NoErrors
<1>21. QED
  BY <1>9, <1>11, <1>12, <1>13, <1>14, <1>15, <1>16, <1>17, <1>18, <1>19, <1>20 DEF IInv

-----------------------------------------------------------------------------
(* The call of a request.                                                  *)

\* A request is not called when it was called before.
LEMMA NotTwice ==
  ASSUME IInv, NEW t \in Threads, At(t, "call")
  PROVE  ~CalledBefore(Top(t).req, Top(t).how)
<1>1. TypeOK /\ StackInv /\ CallInv /\ CountInv
  BY DEF IInv
<1>2. Top(t) \in calling[t] /\ Top(t).req \in Cores /\ Top(t).how \in Hows
  BY <1>1, TopIs, Sorts
<1>3. ran[Top(t).req] = <<>>
  BY <1>1, <1>2 DEF CallInv
<1>4. counts[Top(t).req][Top(t).how] = 0
  <2>1. <<>> # <<Top(t).how>>
    OBVIOUS
  <2>2. QED
    BY <1>1, <1>2, <1>3, <2>1 DEF CountInv
<1>5. QED
  BY <1>4 DEF CalledBefore

\* The count of a call that is over goes up.
LEMMA EndCallStep ==
  ASSUME LegalRules, IInv, NEW t \in Threads, EndCall(t)
  PROVE  IInv'
<1> DEFINE f == Top(t)
           r == f.req
<1>1. /\ TypeOK /\ StackInv /\ CoreInv /\ ListInv /\ FlyingInv /\ ApartInv /\ QuietInv /\ OwnerInv
      /\ RootInv /\ LoopInv /\ OneLoopInv /\ AheadInv /\ BehindInv /\ CallInv /\ ToldInv /\ AttachInv
      /\ CountInv /\ RanInv /\ ChainerInv /\ RoomInv /\ NoErrors
  BY DEF IInv
<1>2. /\ At(t, "called") /\ f.op = "called" /\ Return(t)
      /\ counts' = [counts EXCEPT ![r][f.how] = @ + 1]
      /\ UNCHANGED <<state, owner, settler, reason, requests, request, failed, ran, begun>>
  BY DEF EndCall, At, cores
<1>3. kind' = kind /\ handler' = handler /\ target' = target
  BY <1>2, SameRequest
<1>4. ~Idle(t) /\ f \in ending[t] /\ r \in Cores /\ f.how \in Hows
  BY <1>1, <1>2, TopIs, Sorts
<1>5. Top(t) = f /\ f.req = r
  OBVIOUS
<1> HIDE DEF f, r
<1>6. ran[r] = <<f.how>> /\ counts[r][f.how] = 0
  BY <1>1, <1>4, <1>5 DEF CountInv
<1>7. /\ counts' \in [Cores -> [resolve : 0..1, reject : 0..1]]
      /\ \A d \in Cores, how \in Hows : counts'[d][how] = counts[d][how] \/ (d = r /\ how = f.how)
  <2>1. counts \in [Cores -> [resolve : 0..1, reject : 0..1]]
    BY <1>1 DEF TypeOK
  <2>2. CASE f.how = "resolve"
    BY <1>2, <1>4, <1>6, <2>1, <2>2 DEF Hows
  <2>3. CASE f.how = "reject"
    BY <1>2, <1>4, <1>6, <2>1, <2>3 DEF Hows
  <2>4. QED
    BY <1>4, <2>2, <2>3 DEF Hows
<1>8. PICK N : N = {}
  OBVIOUS
<1>9. StackInv' /\ Steps(t, f, N)
  BY <1>1, <1>2, <1>4, <1>5, <1>8, ReturnSteps
<1>10. /\ settling' = settling /\ looping' = looping /\ flying' = flying /\ attaching' = attaching
       /\ calling' = calling
       /\ \A u \in Threads : \A x : x \in ending'[u] <=> (x \in ending[u] /\ ~(u = t /\ x = f))
  <2>1. f.op = "called" /\ \A x : x \notin N
    BY <1>2, <1>8
  <2>2. settling' = settling /\ looping' = looping /\ flying' = flying /\ attaching' = attaching /\ calling' = calling
    BY <1>9, <2>1, KeptSorts
  <2>3. QED
    BY <1>9, <2>1, <2>2, Sorted
<1>11. FlyingInv' /\ ApartInv' /\ QuietInv' /\ OwnerInv' /\ RootInv'
  BY <1>1, <1>2, <1>3, <1>10 DEF FlyingInv, ApartInv, QuietInv, OwnerInv, RootInv
<1>12. LoopInv' /\ OneLoopInv' /\ AheadInv' /\ BehindInv'
  BY <1>1, <1>2, <1>3, <1>10 DEF LoopInv, OneLoopInv, AheadInv, BehindInv, Opened, Settled, Way
<1>13. CallInv' /\ ToldInv' /\ AttachInv'
  <2>1. CallInv'
    BY <1>1, <1>2, <1>3, <1>10 DEF CallInv, Settled, Way
  <2>2. ToldInv'
    BY <1>1, <1>2, <1>3, <1>10 DEF ToldInv, Opened, Settled, Way
  <2>3. AttachInv'
    BY <1>1, <1>2, <1>3, <1>10 DEF AttachInv, Settled, Way
  <2>4. QED
    BY <2>1, <2>2, <2>3
<1>14. CountInv'
  <2>1. ASSUME NEW d \in Cores, NEW how \in Hows, counts'[d][how] # 0 PROVE ran[d] = <<how>>
    BY <1>1, <1>6, <1>7, <2>1 DEF CountInv
  <2>2. ASSUME NEW u \in Threads, NEW g \in ending'[u] PROVE ran[g.req] = <<g.how>> /\ counts'[g.req][g.how] = 0
    <3>1. g \in ending[u] /\ g.req \in Cores /\ g.how \in Hows /\ g.req # r
      BY <1>1, <1>4, <1>5, <1>10, <2>2, Sorts DEF CountInv
    <3>2. QED
      BY <1>1, <1>7, <3>1 DEF CountInv
  <2>3. QED
    BY <1>1, <1>2, <1>10, <2>1, <2>2 DEF CountInv
<1>15. TypeOK' /\ CoreInv' /\ ListInv' /\ RanInv' /\ ChainerInv' /\ RoomInv' /\ NoErrors'
  <2>1. TypeOK'
    BY <1>1, <1>2, <1>7 DEF TypeOK
  <2>2. QED
    BY <1>1, <1>2, <1>3, <2>1 DEF CoreInv, ListInv, RanInv, ChainerInv, RoomInv, Free, Reserved, NoErrors
<1>16. QED
  BY <1>9, <1>11, <1>12, <1>13, <1>14, <1>15 DEF IInv

-----------------------------------------------------------------------------
(* then.                                                                   *)

LEMMA Joined ==
  ASSUME NEW f \in Frames, NEW g \in Frames
  PROVE  <<f>> \o <<g>> = <<f, g>> /\ <<>> \o <<g>> = <<g>>
<1>1. /\ <<f>> \in Seq(Frames) /\ <<g>> \in Seq(Frames) /\ <<f, g>> \in Seq(Frames)
      /\ <<>> \in Seq(Frames) /\ Len(<<>>) = 0
      /\ Len(<<f>>) = 1 /\ Len(<<g>>) = 1 /\ Len(<<f, g>>) = 2
      /\ <<f>>[1] = f /\ <<g>>[1] = g /\ <<f, g>>[1] = f /\ <<f, g>>[2] = g
  OBVIOUS
<1>2. PICK p : p = <<f>> \o <<g>>
  OBVIOUS
<1>3. /\ p \in Seq(Frames) /\ Len(p) = 2
      /\ \A j \in 1..Len(p) : p[j] = IF j <= 1 THEN <<f>>[j] ELSE <<g>>[j - 1]
  BY <1>1, <1>2, ConcatProperties
<1>4. p[1] = f /\ p[2] = g
  BY <1>1, <1>3
<1>5. \A j \in 1..2 : p[j] = <<f, g>>[j]
  BY <1>1, <1>4
<1>6. p = <<f, g>>
  BY <1>1, <1>3, <1>5, SeqEqual
<1>7. <<>> \o <<g>> = <<g>>
  BY <1>1, ConcatEmptySeq
<1>8. QED
  BY <1>2, <1>6, <1>7

\* With the mutex of the core: the request is called now if the core is settled.
LEMMA ThenLockedStep ==
  ASSUME LegalRules, IInv, NEW t \in Threads, ThenLocked(t)
  PROVE  IInv'
<1> DEFINE f == Top(t)
           c == f.core
           r == f.req
           a == Attach(c, r)
           h == Call(r, Way(c), c)
<1>1. /\ TypeOK /\ StackInv /\ CoreInv /\ ListInv /\ FlyingInv /\ ApartInv /\ QuietInv /\ OwnerInv
      /\ RootInv /\ LoopInv /\ OneLoopInv /\ AheadInv /\ BehindInv /\ CallInv /\ ToldInv /\ AttachInv
      /\ CountInv /\ RanInv /\ ChainerInv /\ RoomInv /\ NoErrors
  BY DEF IInv
<1>2. /\ At(t, "then") /\ f.op = "then" /\ owner[c] = None
      /\ owner' = [owner EXCEPT ![c] = t]
      /\ UNCHANGED <<state, settler, reason, requests, request, counts, failed, ran, begun>>
  BY DEF ThenLocked, At
<1>3. kind' = kind /\ handler' = handler /\ target' = target
  BY <1>2, SameRequest
<1>4. /\ ~Idle(t) /\ f \in flying[t] /\ settling[t] = {} /\ calling[t] = {}
      /\ c \in Cores /\ r \in Cores
  BY <1>1, <1>2, TopIs, Sorts
<1>5. /\ a \in Frames /\ a.op = "attach" /\ a.core = c /\ a.req = r
      /\ h \in Frames /\ h.op = "call" /\ h.req = r /\ h.how = Way(c) /\ h.core = c
      /\ a = Attach(c, r) /\ h = Call(r, Way(c), c)
  <2>1. Way(c) \in Hows
    BY DEF Way, Hows
  <2>2. PICK way \in Hows : way = Way(c)
    BY <2>1
  <2>3. Attach(c, r) \in Frames /\ Call(r, way, c) \in Frames
    BY <1>4, FramesMade
  <2>4. /\ Attach(c, r).op = "attach" /\ Attach(c, r).core = c /\ Attach(c, r).req = r
        /\ Call(r, way, c).op = "call" /\ Call(r, way, c).req = r /\ Call(r, way, c).how = way
        /\ Call(r, way, c).core = c
    BY MadeOf
  <2>5. QED
    BY <2>2, <2>3, <2>4
<1>6. IF Settled(c) THEN Replace(t, <<h, a>>) ELSE Replace(t, <<a>>)
  <2>1. PICK now : /\ now = CASE state[c] = "Fulfilled" -> <<Call(r, "resolve", c)>>
                            [] state[c] = "Rejected" -> <<Call(r, "reject", c)>>
                            [] OTHER -> <<>>
                   /\ Replace(t, now \o <<a>>)
    BY DEF ThenLocked
  <2>2. now = IF Settled(c) THEN <<h>> ELSE <<>>
    BY <2>1 DEF Settled, Way
  <2>3. QED
    BY <1>5, <2>1, <2>2, Joined
<1>7. Top(t) = f /\ f.core = c /\ f.req = r
  OBVIOUS
<1> HIDE DEF f, c, r, a, h
<1>8. None \notin Threads
  BY DEF LegalRules
<1>9. a \notin calls[t] /\ h \notin calls[t] /\ a # h /\ Waits(a)
  <2>1. a \notin attaching[t]
    BY <1>1, <1>2, <1>5, <1>8 DEF OwnerInv
  <2>2. QED
    BY <1>4, <1>5, <2>1 DEF attaching, calling, Waits
<1>10. PICK N : N = IF Settled(c) THEN {h, a} ELSE {a}
  OBVIOUS
<1>11. StackInv' /\ Steps(t, f, N)
  <2>1. CASE Settled(c)
    BY <1>1, <1>4, <1>5, <1>6, <1>7, <1>9, <1>10, <2>1, TwoSteps
  <2>2. CASE ~Settled(c)
    BY <1>1, <1>4, <1>5, <1>6, <1>7, <1>9, <1>10, <2>2, OneSteps
  <2>3. QED
    BY <2>1, <2>2
<1>12. /\ settling' = settling /\ looping' = looping /\ ending' = ending
       /\ \A u \in Threads : \A x :
            /\ x \in flying'[u] <=> (x \in flying[u] /\ ~(u = t /\ x = f)) \/ (u = t /\ x = a)
            /\ x \in attaching'[u] <=> x \in attaching[u] \/ (u = t /\ x = a)
            /\ x \in calling'[u] <=> x \in calling[u] \/ (u = t /\ x = h /\ Settled(c))
  <2>1. /\ f.op = "then" /\ a.op = "attach" /\ h.op = "call"
        /\ \A u \in Threads : \A x : x \in calling[u] => x.op = "call"
        /\ \A u \in Threads : \A x : x \in attaching[u] => x.op = "attach"
        /\ \A x : x \in N <=> x = a \/ (x = h /\ Settled(c))
    BY <1>1, <1>2, <1>5, <1>10, Sorts
  <2>2. settling' = settling /\ looping' = looping /\ ending' = ending
    BY <1>11, <2>1, KeptSorts
  <2>3. \A u \in Threads : \A x :
          /\ x \in flying'[u] <=>
               (x \in flying[u] /\ ~(u = t /\ x = f)) \/ (u = t /\ x \in N /\ x.op \in {"then", "attach"})
          /\ x \in attaching'[u] <=>
               (x \in attaching[u] /\ ~(u = t /\ x = f)) \/ (u = t /\ x \in N /\ x.op = "attach")
          /\ x \in calling'[u] <=>
               (x \in calling[u] /\ ~(u = t /\ x = f)) \/ (u = t /\ x \in N /\ x.op = "call")
    BY <1>11, Sorted
  <2>4. QED
    BY <2>1, <2>2, <2>3
<1>13. /\ owner' \in [Cores -> Threads \cup {None}]
       /\ owner'[c] = t /\ \A d \in Cores : owner'[d] = owner[d] \/ d = c
  BY <1>1, <1>2, <1>4 DEF TypeOK
<1>14. /\ \A u \in Threads : \A x \in attaching[u] : x.core # c
       /\ \A u \in Threads : \A x \in looping[u] : x.locked => x.core # c
  BY <1>1, <1>2, <1>8 DEF OwnerInv
<1>15. \A u \in Threads : \A x \in looping[u] : x.core # c
  <2>1. ASSUME NEW u \in Threads, NEW x \in looping[u], x.core = c PROVE FALSE
    <3>1. kind[c] \in Attachable /\ kind[c] # "root"
      BY <1>1, <1>14, <2>1, Sorts DEF LoopInv
    <3>2. kind[c] \in Kinds
      BY <3>1 DEF Attachable
    <3>3. QED
      BY <1>1, <1>4, <1>7, <2>1, <3>2 DEF QuietInv
  <2>2. QED
    BY <2>1
<1>16. FlyingInv'
  BY <1>1, <1>2, <1>3, <1>4, <1>5, <1>7, <1>12 DEF FlyingInv
<1>17. ApartInv'
  BY <1>1, <1>4, <1>5, <1>7, <1>12 DEF ApartInv
<1>18. QuietInv'
  BY <1>1, <1>2, <1>3, <1>4, <1>5, <1>7, <1>12 DEF QuietInv
<1>19. OwnerInv'
  <2>1. ASSUME NEW u \in Threads, NEW x \in attaching'[u] PROVE owner'[x.core] = u
    BY <1>1, <1>5, <1>12, <1>13, <1>14, <2>1, Sorts DEF OwnerInv
  <2>2. ASSUME NEW u \in Threads, NEW x \in looping[u], x.locked PROVE owner'[x.core] = u
    BY <1>1, <1>13, <1>14, <2>2, Sorts DEF OwnerInv
  <2>3. ASSUME NEW u \in Threads, NEW x \in attaching'[u], NEW g \in looping[u] PROVE g.core # x.core
    BY <1>1, <1>5, <1>12, <1>15, <2>3 DEF OwnerInv
  <2>4. ASSUME NEW u \in Threads, NEW x \in attaching'[u], NEW g \in attaching'[u], g.core = x.core PROVE g = x
    BY <1>1, <1>5, <1>12, <1>14, <2>4 DEF OwnerInv
  <2>5. QED
    BY <1>12, <2>1, <2>2, <2>3, <2>4 DEF OwnerInv
<1>20. RootInv' /\ LoopInv' /\ OneLoopInv' /\ AheadInv'
  BY <1>1, <1>2, <1>3, <1>12 DEF RootInv, LoopInv, OneLoopInv, AheadInv, Opened, Settled, Way
<1>21. BehindInv'
  BY <1>1, <1>2, <1>12 DEF BehindInv
<1>22. CallInv'
  <2>1. ASSUME NEW u \in Threads, NEW x \in calling'[u]
        PROVE  /\ kind[x.req] \in Hanging /\ ran[x.req] = <<>>
               /\ \/ Attach(x.core, x.req) \in attaching'[u] /\ Settled(x.core) /\ x.how = Way(x.core)
                  \/ \E e \in looping[u] : /\ e.core = x.core /\ e.how = x.how
                                           /\ e.k - 1 \in 1..Len(requests[x.core])
                                           /\ requests[x.core][e.k - 1] = x.req
    <3>1. CASE x \in calling[u]
      BY <1>1, <1>12, <3>1 DEF CallInv
    <3>2. CASE u = t /\ x = h /\ Settled(c)
      BY <1>1, <1>2, <1>4, <1>5, <1>7, <1>12, <3>2 DEF FlyingInv
    <3>3. QED
      BY <1>12, <2>1, <3>1, <3>2
  <2>2. QED
    BY <1>2, <1>3, <1>12, <2>1 DEF CallInv, Settled, Way
<1>23. ToldInv'
  BY <1>1, <1>2, <1>3, <1>12 DEF ToldInv, Opened, Settled, Way
<1>24. AttachInv'
  <2>1. ASSUME NEW u \in Threads, NEW x \in attaching'[u]
        PROVE  /\ Settled(x.core) => \/ ran[x.req] = <<Way(x.core)>>
                                     \/ Call(x.req, Way(x.core), x.core) \in calling'[u]
               /\ ~Settled(x.core) => ran[x.req] = <<>>
    <3>1. CASE x \in attaching[u]
      BY <1>1, <1>12, <3>1 DEF AttachInv
    <3>2. CASE u = t /\ x = a
      BY <1>1, <1>2, <1>4, <1>5, <1>7, <1>12, <3>2 DEF FlyingInv
    <3>3. QED
      BY <1>12, <2>1, <3>1, <3>2
  <2>2. QED
    BY <1>2, <2>1 DEF AttachInv, Settled, Way
<1>25. CountInv'
  BY <1>1, <1>2, <1>12 DEF CountInv
<1>26. TypeOK' /\ CoreInv' /\ ListInv' /\ RanInv' /\ ChainerInv' /\ RoomInv' /\ NoErrors'
  <2>1. TypeOK'
    BY <1>1, <1>2, <1>13 DEF TypeOK
  <2>2. QED
    BY <1>1, <1>2, <1>3, <2>1 DEF CoreInv, ListInv, RanInv, ChainerInv, RoomInv, Free, Reserved, NoErrors
<1>27. QED
  BY <1>11, <1>16, <1>17, <1>18, <1>19, <1>20, <1>21, <1>22, <1>23, <1>24, <1>25, <1>26 DEF IInv

\* The request is put at the end of the list, and the mutex released.
LEMMA PushBackStep ==
  ASSUME LegalRules, IInv, NEW t \in Threads, PushBack(t)
  PROVE  IInv'
<1> DEFINE f == Top(t)
           c == f.core
           r == f.req
           n == Len(requests[c])
<1>1. /\ TypeOK /\ StackInv /\ CoreInv /\ ListInv /\ FlyingInv /\ ApartInv /\ QuietInv /\ OwnerInv
      /\ RootInv /\ LoopInv /\ OneLoopInv /\ AheadInv /\ BehindInv /\ CallInv /\ ToldInv /\ AttachInv
      /\ CountInv /\ RanInv /\ ChainerInv /\ RoomInv /\ NoErrors
  BY DEF IInv
<1>2. /\ At(t, "attach") /\ f.op = "attach" /\ Return(t)
      /\ requests' = [requests EXCEPT ![c] = Append(@, r)]
      /\ owner' = [owner EXCEPT ![c] = None]
      /\ UNCHANGED <<state, settler, reason, request, counts, failed, ran, begun>>
  BY DEF PushBack, At
<1>3. kind' = kind /\ handler' = handler /\ target' = target
  BY <1>2, SameRequest
<1>4. /\ ~Idle(t) /\ f \in flying[t] /\ f \in attaching[t] /\ settling[t] = {} /\ calling[t] = {}
      /\ c \in Cores /\ r \in Cores
  BY <1>1, <1>2, TopIs, Sorts
<1>5. Top(t) = f /\ f.core = c /\ f.req = r
  OBVIOUS
<1>6. /\ n \in Nat
      /\ requests' \in [Cores -> Seq(Cores)]
      /\ \A d \in Cores : d # c => requests'[d] = requests[d]
      /\ Len(requests'[c]) = n + 1 /\ requests'[c][n + 1] = r
      /\ \A j \in 1..n : requests'[c][j] = requests[c][j]
  <2>1. requests \in [Cores -> Seq(Cores)] /\ requests[c] \in Seq(Cores)
    BY <1>1, <1>4 DEF TypeOK
  <2>2. PICK q : q = Append(requests[c], r)
    OBVIOUS
  <2>3. /\ q \in Seq(Cores) /\ Len(q) = Len(requests[c]) + 1
        /\ \A j \in 1..Len(requests[c]) : q[j] = requests[c][j]
        /\ q[Len(requests[c]) + 1] = r
    BY <1>4, <2>1, <2>2, AppendProperties
  <2>4. requests' = [requests EXCEPT ![c] = q]
    BY <1>2, <2>2
  <2>5. n \in Nat
    BY <2>1
  <2>6. QED
    BY <1>4, <2>1, <2>3, <2>4, <2>5
<1>7. n = Len(requests[c])
  OBVIOUS
<1> HIDE DEF f, c, r, n
<1>8. /\ owner' \in [Cores -> Threads \cup {None}]
      /\ \A d \in Cores : owner'[d] = owner[d] \/ d = c
  BY <1>1, <1>2, <1>4 DEF TypeOK
<1>9. \A d \in Cores : \A j \in 1..Len(requests'[d]) :
        \/ j \in 1..Len(requests[d]) /\ requests'[d][j] = requests[d][j]
        \/ d = c /\ j = n + 1 /\ requests'[d][j] = r
  <2>1. ASSUME NEW d \in Cores, NEW j \in 1..Len(requests'[d])
        PROVE  \/ j \in 1..Len(requests[d]) /\ requests'[d][j] = requests[d][j]
               \/ d = c /\ j = n + 1 /\ requests'[d][j] = r
    <3>1. CASE d = c
      <4>1. j \in 1..n \/ j = n + 1
        BY <1>6, <2>1, <3>1
      <4>2. QED
        BY <1>6, <1>7, <3>1, <4>1
    <3>2. CASE d # c
      BY <1>6, <2>1, <3>2
    <3>3. QED
      BY <3>1, <3>2
  <2>2. QED
    BY <2>1
<1>10. PICK N : N = {}
  OBVIOUS
<1>11. StackInv' /\ Steps(t, f, N)
  BY <1>1, <1>2, <1>4, <1>5, <1>10, ReturnSteps
<1>12. /\ settling' = settling /\ looping' = looping /\ ending' = ending /\ calling' = calling
       /\ \A u \in Threads : \A x :
            /\ x \in flying'[u] <=> (x \in flying[u] /\ ~(u = t /\ x = f))
            /\ x \in attaching'[u] <=> (x \in attaching[u] /\ ~(u = t /\ x = f))
  <2>1. f.op = "attach" /\ \A x : x \notin N
    BY <1>2, <1>10
  <2>2. settling' = settling /\ looping' = looping /\ ending' = ending /\ calling' = calling
    BY <1>11, <2>1, KeptSorts
  <2>3. QED
    BY <1>11, <2>1, <2>2, Sorted
<1>13. \A u \in Threads : \A x \in attaching'[u] : x.core # c
  BY <1>1, <1>4, <1>5, <1>12 DEF OwnerInv
<1>14. \A u \in Threads : \A x \in looping[u] : x.core # c
  <2>1. ASSUME NEW u \in Threads, NEW x \in looping[u], x.core = c PROVE FALSE
    <3>1. CASE kind[c] \in Kinds
      BY <1>1, <1>4, <1>5, <2>1, <3>1 DEF QuietInv
    <3>2. CASE kind[c] = "root"
      <4>1. x.locked
        BY <1>1, <2>1, <3>2 DEF LoopInv
      <4>2. u = t
        BY <1>1, <1>4, <1>5, <2>1, <4>1 DEF OwnerInv
      <4>3. QED
        BY <1>1, <1>4, <1>5, <2>1, <4>2 DEF OwnerInv
    <3>3. QED
      BY <1>1, <2>1, <3>1, <3>2 DEF LoopInv, Attachable
  <2>2. QED
    BY <2>1
<1>15. \A u \in Threads : \A x \in looping[u] : x.core \in Cores /\ requests'[x.core] = requests[x.core]
  BY <1>1, <1>6, <1>14, Sorts
<1>16. CoreInv' /\ ListInv'
  <2>1. kind[c] \in Attachable /\ kind[r] \in Hanging
    BY <1>1, <1>4, <1>5 DEF FlyingInv
  <2>2. CoreInv'
    BY <1>1, <1>2, <1>3, <1>6, <2>1 DEF CoreInv
  <2>3. \A d \in Cores : \A j \in 1..Len(requests[d]) : requests[d][j] # r
    BY <1>1, <1>4, <1>5 DEF FlyingInv
  <2>4. ASSUME NEW d \in Cores, NEW e \in Cores,
               NEW j \in 1..Len(requests'[d]), NEW k \in 1..Len(requests'[e]),
               requests'[d][j] = requests'[e][k]
        PROVE  d = e /\ j = k
    <3>1. CASE j \in 1..Len(requests[d]) /\ requests'[d][j] = requests[d][j]
      <4>1. requests'[e][k] # r
        BY <2>3, <2>4, <3>1
      <4>2. k \in 1..Len(requests[e]) /\ requests'[e][k] = requests[e][k]
        BY <1>9, <2>4, <4>1
      <4>3. requests[d][j] = requests[e][k] /\ j \in 1..Len(requests[d])
        BY <2>4, <3>1, <4>2
      <4>4. QED
        BY <1>1, <4>2, <4>3 DEF ListInv
    <3>2. CASE d = c /\ j = n + 1 /\ requests'[d][j] = r
      BY <1>9, <2>3, <2>4, <3>2
    <3>3. QED
      BY <1>9, <3>1, <3>2
  <2>5. ASSUME NEW d \in Cores, NEW j \in 1..Len(requests'[d]) PROVE kind[requests'[d][j]] \in Hanging
    BY <1>1, <1>9, <2>1, <2>5 DEF ListInv
  <2>6. ListInv'
    BY <1>3, <2>4, <2>5 DEF ListInv
  <2>7. QED
    BY <2>2, <2>6
<1>17. FlyingInv'
  <2>1. ASSUME NEW u \in Threads, NEW x \in flying'[u]
        PROVE  /\ requests'[x.req] = <<>>
               /\ \A d \in Cores : \A j \in 1..Len(requests'[d]) : requests'[d][j] # x.req
    <3>1. x \in flying[u] /\ x.req # c /\ x.req # r /\ x.req \in Cores
      BY <1>1, <1>4, <1>5, <1>12, <2>1, Sorts DEF ApartInv
    <3>2. QED
      <4>1. /\ requests[x.req] = <<>>
            /\ \A d \in Cores : \A j \in 1..Len(requests[d]) : requests[d][j] # x.req
        BY <1>1, <3>1 DEF FlyingInv
      <4>2. QED
        BY <1>6, <1>9, <3>1, <4>1
  <2>2. QED
    BY <1>1, <1>2, <1>3, <1>12, <2>1 DEF FlyingInv
<1>18. ApartInv'
  BY <1>1, <1>12 DEF ApartInv
<1>19. QuietInv'
  <2>1. ASSUME NEW u \in Threads, NEW v \in Threads, NEW x \in flying'[u], kind[x.core] \in Kinds
        PROVE  /\ settling[v] = {}
               /\ \A g \in looping[v] : g.core # x.core /\ requests'[g.core] = <<>>
               /\ \A g \in calling[v] : Attach(g.core, g.req) \in attaching'[v]
    <3>1. x \in flying[u]
      BY <1>12, <2>1
    <3>2. /\ settling[v] = {}
          /\ \A g \in looping[v] : g.core # x.core /\ requests[g.core] = <<>>
          /\ \A g \in calling[v] : Attach(g.core, g.req) \in attaching[v]
      BY <1>1, <2>1, <3>1 DEF QuietInv
    <3>3. v = t \/ \A y : y \in attaching'[v] <=> y \in attaching[v]
      BY <1>12
    <3>4. QED
      BY <1>4, <1>15, <3>2, <3>3
  <2>2. QED
    BY <1>3, <1>12, <2>1 DEF QuietInv
<1>20. OwnerInv'
  <2>1. ASSUME NEW u \in Threads, NEW x \in attaching'[u] PROVE owner'[x.core] = u
    BY <1>1, <1>8, <1>12, <1>13, <2>1, Sorts DEF OwnerInv
  <2>2. ASSUME NEW u \in Threads, NEW x \in looping[u], x.locked PROVE owner'[x.core] = u
    BY <1>1, <1>8, <1>14, <2>2, Sorts DEF OwnerInv
  <2>3. QED
    BY <1>1, <1>12, <2>1, <2>2 DEF OwnerInv
<1>21. RootInv'
  BY <1>1, <1>2, <1>3, <1>12 DEF RootInv
<1>22. LoopInv' /\ OneLoopInv'
  BY <1>1, <1>2, <1>3, <1>12, <1>15 DEF LoopInv, OneLoopInv, Opened, Settled, Way
<1>23. AheadInv' /\ BehindInv'
  <2>1. AheadInv'
    <3>1. ASSUME NEW u \in Threads, NEW x \in looping[u], NEW j \in 1..Len(requests'[x.core]), j >= x.k
          PROVE  ran[requests'[x.core][j]] = <<>>
      BY <1>1, <1>15, <3>1 DEF AheadInv
    <3>2. QED
      BY <1>2, <1>12, <3>1 DEF AheadInv
  <2>2. BehindInv'
    BY <1>1, <1>2, <1>12, <1>15 DEF BehindInv
  <2>3. QED
    BY <2>1, <2>2
<1>24. CallInv'
  <2>1. ASSUME NEW u \in Threads, NEW x \in calling[u]
        PROVE  \/ Attach(x.core, x.req) \in attaching'[u] /\ Settled(x.core) /\ x.how = Way(x.core)
               \/ \E e \in looping[u] : /\ e.core = x.core /\ e.how = x.how
                                        /\ e.k - 1 \in 1..Len(requests'[x.core])
                                        /\ requests'[x.core][e.k - 1] = x.req
    <3>1. u # t
      BY <1>4, <2>1
    <3>2. CASE Attach(x.core, x.req) \in attaching[u] /\ Settled(x.core) /\ x.how = Way(x.core)
      BY <1>12, <3>1, <3>2
    <3>3. CASE \E e \in looping[u] : /\ e.core = x.core /\ e.how = x.how
                                     /\ e.k - 1 \in 1..Len(requests[x.core])
                                     /\ requests[x.core][e.k - 1] = x.req
      BY <1>15, <3>3
    <3>4. QED
      BY <1>1, <2>1, <3>2, <3>3 DEF CallInv
  <2>2. QED
    BY <1>1, <1>2, <1>3, <1>12, <2>1 DEF CallInv, Settled, Way
<1>25. ToldInv'
  <2>1. (Settled(c) => ran[r] = <<Way(c)>>) /\ (~Settled(c) => ran[r] = <<>>)
    BY <1>1, <1>4, <1>5 DEF AttachInv
  <2>2. ASSUME NEW d \in Cores, NEW j \in 1..Len(requests'[d])
        PROVE  /\ Settled(d) /\ ran[requests'[d][j]] # <<Way(d)>> =>
                    \E u \in Threads : \E e \in looping[u] : e.core = d
               /\ ~Opened(d) => ran[requests'[d][j]] = <<>>
    <3>1. CASE j \in 1..Len(requests[d]) /\ requests'[d][j] = requests[d][j]
      BY <1>1, <3>1 DEF ToldInv
    <3>2. CASE d = c /\ j = n + 1 /\ requests'[d][j] = r
      BY <2>1, <3>2 DEF Opened
    <3>3. QED
      BY <1>9, <3>1, <3>2
  <2>3. state' = state /\ ran' = ran
    BY <1>2
  <2>4. QED
    BY <1>3, <1>12, <2>2, <2>3 DEF ToldInv, Opened, Settled, Way
<1>26. AttachInv'
  BY <1>1, <1>2, <1>3, <1>12 DEF AttachInv, Settled, Way
<1>27. CountInv'
  BY <1>1, <1>2, <1>12 DEF CountInv
<1>28. TypeOK' /\ RanInv' /\ ChainerInv' /\ RoomInv' /\ NoErrors'
  <2>1. TypeOK'
    BY <1>1, <1>2, <1>6, <1>8 DEF TypeOK
  <2>2. QED
    BY <1>1, <1>2, <1>3, <2>1 DEF RanInv, ChainerInv, RoomInv, Free, Reserved, NoErrors
<1>29. QED
  BY <1>11, <1>16, <1>17, <1>18, <1>19, <1>20, <1>21, <1>22, <1>23, <1>24, <1>25, <1>26, <1>27, <1>28 DEF IInv

-----------------------------------------------------------------------------
(* Settling a root.                                                        *)

LEMMA BeginStep ==
  ASSUME LegalRules, IInv, NEW t \in Threads, NEW c \in Cores, NEW how \in Hows, Begin(t, c, how)
  PROVE  IInv'
<1> DEFINE f == Settle(c, how)
<1>1. /\ TypeOK /\ StackInv /\ CoreInv /\ ListInv /\ FlyingInv /\ ApartInv /\ QuietInv /\ OwnerInv
      /\ RootInv /\ LoopInv /\ OneLoopInv /\ AheadInv /\ BehindInv /\ CallInv /\ ToldInv /\ AttachInv
      /\ CountInv /\ RanInv /\ ChainerInv /\ RoomInv /\ NoErrors
  BY DEF IInv
<1>2. /\ Idle(t) /\ kind[c] = "root" /\ c \notin begun /\ \A u \in Threads : ~OnChain(u)
      /\ begun' = begun \cup {c}
      /\ UNCHANGED <<state, owner, settler, reason, requests, request, counts, ran>>
  BY DEF Begin, MaySettle, LegalRules, kind, cores
<1>3. state[c] = "Pending"
  BY <1>1, <1>2 DEF RootInv
<1>4. failed' = [failed EXCEPT ![t] = FALSE] /\ stack' = [stack EXCEPT ![t] = <<f>>]
  BY <1>3 DEF Begin
<1>5. kind' = kind /\ handler' = handler /\ target' = target
  BY <1>2, SameRequest
<1>6. f \in Frames /\ f.op = "settle" /\ f.core = c
  BY MadeSettle
<1> HIDE DEF f
<1>7. \A u \in Threads : \A x \in flying[u] : ~(x.core > NumRoots)
  <2>1. ASSUME NEW u \in Threads, NEW x \in flying[u], x.core > NumRoots PROVE FALSE
    <3>1. x \in In(stack[u]) /\ x.op \in {"then", "attach"}
      BY <2>1 DEF flying, calls
    <3>2. PICK j \in 1..Len(stack[u]) : x = stack[u][j]
      BY <3>1 DEF In
    <3>3. OnChain(u)
      BY <2>1, <3>1, <3>2 DEF OnChain
    <3>4. QED
      BY <1>2, <3>3
  <2>2. QED
    BY <2>1
<1>8. \A u \in Threads : \A x \in flying[u] : kind[x.core] \notin Kinds
  <2>1. ASSUME NEW u \in Threads, NEW x \in flying[u], kind[x.core] \in Kinds PROVE FALSE
    <3>1. x.core \in Cores /\ x.core <= NumRoots
      BY <1>1, <1>7, Sorts DEF Cores, LegalRules
    <3>2. QED
      BY <1>1, <2>1, <3>1 DEF CoreInv, Kinds
  <2>2. QED
    BY <2>1
<1>9. PICK N : N = {f}
  OBVIOUS
<1>10. StackInv' /\ Steps(t, f, N)
  BY <1>1, <1>2, <1>4, <1>6, <1>9, FirstSteps
<1>11. f \notin calls[t]
  BY <1>1, <1>2, TopFacts
<1>12. /\ looping' = looping /\ flying' = flying /\ attaching' = attaching /\ calling' = calling
       /\ ending' = ending
       /\ \A u \in Threads : \A x : x \in settling'[u] <=> x \in settling[u] \/ (u = t /\ x = f)
  <2>1. f.op = "settle" /\ (\A x : x \in N <=> x = f) /\ f \notin settling[t]
    BY <1>6, <1>9, <1>11 DEF settling
  <2>2. looping' = looping /\ flying' = flying /\ attaching' = attaching /\ calling' = calling /\ ending' = ending
    BY <1>10, <2>1, KeptSorts
  <2>3. QED
    BY <1>10, <2>1, <2>2, Sorted
<1>13. CoreInv'
  BY <1>1, <1>2, <1>5 DEF CoreInv
<1>14. FlyingInv'
  BY <1>1, <1>2, <1>5, <1>7, <1>12 DEF FlyingInv
<1>15. ApartInv' /\ OwnerInv'
  BY <1>1, <1>2, <1>12 DEF ApartInv, OwnerInv
<1>16. QuietInv'
  BY <1>5, <1>8, <1>12 DEF QuietInv
<1>17. RootInv'
  <2>1. \A u \in Threads : \A x \in settling[u] : x.core # c
    BY <1>1, <1>2 DEF RootInv
  <2>2. QED
    BY <1>1, <1>2, <1>3, <1>5, <1>6, <1>12, <2>1 DEF RootInv
<1>18. LoopInv' /\ OneLoopInv' /\ AheadInv' /\ BehindInv'
  BY <1>1, <1>2, <1>5, <1>12 DEF LoopInv, OneLoopInv, AheadInv, BehindInv, Opened, Settled, Way
<1>19. CallInv'
  BY <1>1, <1>2, <1>5, <1>12 DEF CallInv, Settled, Way
<1>20. ToldInv'
  BY <1>1, <1>2, <1>5, <1>12 DEF ToldInv, Opened, Settled, Way
<1>21. AttachInv' /\ CountInv'
  BY <1>1, <1>2, <1>5, <1>12 DEF AttachInv, CountInv, Settled, Way
<1>22. TypeOK' /\ NoErrors'
  BY <1>1, <1>2, <1>4 DEF TypeOK, NoErrors
<1>23. ListInv' /\ RanInv' /\ ChainerInv' /\ RoomInv'
  BY <1>1, <1>2, <1>5 DEF ListInv, RanInv, ChainerInv, RoomInv, Free, Reserved
<1>24. QED
  BY <1>10, <1>13, <1>14, <1>15, <1>16, <1>17, <1>18, <1>19, <1>20, <1>21, <1>22, <1>23 DEF IInv

\* With the mutex of the core: it is settled, and the loop begins.
LEMMA SettleLockedStep ==
  ASSUME LegalRules, IInv, NEW t \in Threads, SettleLocked(t)
  PROVE  IInv'
<1> DEFINE f == Top(t)
           c == f.core
           g == Each(c, f.how, TRUE)
<1>1. /\ TypeOK /\ StackInv /\ CoreInv /\ ListInv /\ FlyingInv /\ ApartInv /\ QuietInv /\ OwnerInv
      /\ RootInv /\ LoopInv /\ OneLoopInv /\ AheadInv /\ BehindInv /\ CallInv /\ ToldInv /\ AttachInv
      /\ CountInv /\ RanInv /\ ChainerInv /\ RoomInv /\ NoErrors
  BY DEF IInv
<1>2. /\ At(t, "settle") /\ f.op = "settle" /\ owner[c] = None
      /\ owner' = [owner EXCEPT ![c] = t]
      /\ state' = [state EXCEPT ![c] = IF f.how = "resolve" THEN "Fulfilled" ELSE "Rejected"]
      /\ settler' = [settler EXCEPT ![c] = t]
      /\ reason' = [reason EXCEPT ![c] = @ \/ f.how = "reject"]
      /\ Replace(t, <<g>>)
      /\ UNCHANGED <<requests, request, counts, failed, ran, begun>>
  BY DEF SettleLocked, SettledBy, At
<1>3. kind' = kind /\ handler' = handler /\ target' = target
  BY <1>2, SameRequest
<1>4. ~Idle(t) /\ f \in settling[t] /\ calling[t] = {} /\ c \in Cores /\ f.how \in Hows
  BY <1>1, <1>2, TopIs, Sorts
<1>5. /\ g.op = "each" /\ g.core = c /\ g.how = f.how /\ g.k = 1 /\ g.locked = TRUE
      /\ g \in Frames
  BY <1>4, MadeEach
<1>6. Top(t) = f /\ f.core = c
  OBVIOUS
<1> HIDE DEF f, c, g
<1>7. None \notin Threads /\ None # "Pending" /\ None # "Fulfilled" /\ None # "Rejected"
  BY DEF LegalRules
<1>8. kind[c] = "root" /\ state[c] = "Pending" /\ c \in begun /\ ~Opened(c) /\ ~Settled(c)
  BY <1>1, <1>4, <1>6 DEF RootInv, Opened, Settled
<1>9. /\ state' \in [Cores -> {None, "Pending", "Fulfilled", "Rejected"}]
      /\ \A d \in Cores : d # c => state'[d] = state[d]
      /\ state'[c] = IF f.how = "resolve" THEN "Fulfilled" ELSE "Rejected"
  BY <1>1, <1>2, <1>4 DEF TypeOK
<1>10. /\ owner' \in [Cores -> Threads \cup {None}]
       /\ owner'[c] = t /\ \A d \in Cores : owner'[d] = owner[d] \/ d = c
  BY <1>1, <1>2, <1>4 DEF TypeOK
<1>11. /\ settler' \in [Cores -> Threads \cup {None}] /\ reason' \in [Cores -> BOOLEAN]
       /\ \A d \in Cores : d # c => reason'[d] = reason[d]
  BY <1>1, <1>2, <1>4 DEF TypeOK
<1>12. /\ \A u \in Threads : \A x \in looping[u] : x.core # c
       /\ \A u \in Threads : \A x \in attaching[u] : x.core # c
  BY <1>1, <1>2, <1>7, <1>8 DEF LoopInv, OwnerInv
<1>13. PICK N : N = {g}
  OBVIOUS
<1>14. StackInv' /\ Steps(t, f, N)
  <2>1. g \notin calls[t]
    BY <1>4, <1>5, <1>12 DEF looping
  <2>2. QED
    BY <1>1, <1>2, <1>4, <1>5, <1>6, <1>13, <2>1, OneSteps
<1>15. /\ flying' = flying /\ attaching' = attaching /\ calling' = calling /\ ending' = ending
       /\ \A u \in Threads : \A x :
            /\ x \in settling'[u] <=> (x \in settling[u] /\ ~(u = t /\ x = f))
            /\ x \in looping'[u] <=> x \in looping[u] \/ (u = t /\ x = g)
  <2>1. /\ f.op = "settle" /\ g.op = "each" /\ (\A x : x \in N <=> x = g)
        /\ \A u \in Threads : \A x : x \in looping[u] => x.op = "each"
    BY <1>1, <1>2, <1>5, <1>13, Sorts
  <2>2. flying' = flying /\ attaching' = attaching /\ calling' = calling /\ ending' = ending
    BY <1>14, <2>1, KeptSorts
  <2>3. \A u \in Threads : \A x :
          /\ x \in settling'[u] <=>
               (x \in settling[u] /\ ~(u = t /\ x = f)) \/ (u = t /\ x \in N /\ x.op = "settle")
          /\ x \in looping'[u] <=>
               (x \in looping[u] /\ ~(u = t /\ x = f)) \/ (u = t /\ x \in N /\ x.op = "each")
    BY <1>14, Sorted
  <2>4. QED
    BY <2>1, <2>2, <2>3
<1>16. CoreInv'
  BY <1>1, <1>2, <1>3, <1>7, <1>8, <1>9 DEF CoreInv
<1>17. FlyingInv'
  BY <1>1, <1>2, <1>3, <1>8, <1>9, <1>15, Sorts DEF FlyingInv
<1>18. ApartInv'
  BY <1>1, <1>15 DEF ApartInv
<1>19. QuietInv'
  BY <1>1, <1>3, <1>4, <1>15 DEF QuietInv
<1>20. OwnerInv'
  <2>1. ASSUME NEW u \in Threads, NEW x \in attaching[u] PROVE owner'[x.core] = u
    BY <1>1, <1>10, <1>12, <2>1, Sorts DEF OwnerInv
  <2>2. ASSUME NEW u \in Threads, NEW x \in looping'[u], x.locked PROVE owner'[x.core] = u
    BY <1>1, <1>5, <1>10, <1>12, <1>15, <2>2, Sorts DEF OwnerInv
  <2>3. ASSUME NEW u \in Threads, NEW x \in attaching[u], NEW y \in looping'[u] PROVE y.core # x.core
    BY <1>1, <1>5, <1>12, <1>15, <2>3 DEF OwnerInv
  <2>4. QED
    BY <1>1, <1>15, <2>1, <2>2, <2>3 DEF OwnerInv
<1>21. RootInv'
  <2>1. \A u \in Threads : \A x \in settling'[u] : x.core # c /\ x.core \in Cores
    <3>1. ASSUME NEW u \in Threads, NEW x \in settling'[u], x.core = c PROVE FALSE
      <4>1. x \in settling[u] /\ u = t
        BY <1>1, <1>4, <1>6, <1>15, <3>1 DEF RootInv
      <4>2. x = f
        BY <1>1, <1>4, <1>6, <4>1, TopSorts
      <4>3. QED
        BY <1>15, <3>1, <4>1, <4>2
    <3>2. QED
      BY <1>1, <1>15, <3>1, Sorts
  <2>2. QED
    BY <1>1, <1>2, <1>3, <1>8, <1>9, <1>15, <2>1 DEF RootInv
<1>22. LoopInv'
  <2>1. ASSUME NEW u \in Threads, NEW x \in looping'[u]
        PROVE  /\ kind[x.core] \in Attachable /\ x.core \in Cores
               /\ \/ state'[x.core] \in {"Fulfilled", "Rejected"}
                  \/ kind[x.core] = "value" /\ ran[x.core] # <<>>
               /\ x.locked <=> kind[x.core] = "root"
               /\ state'[x.core] \in {"Fulfilled", "Rejected"} =>
                    x.how = IF state'[x.core] = "Fulfilled" THEN "resolve" ELSE "reject"
               /\ x.k <= Len(requests[x.core]) + 1
    <3>1. CASE x \in looping[u]
      <4>1. x.core # c /\ x.core \in Cores
        BY <1>1, <1>12, <3>1, Sorts
      <4>2. state'[x.core] = state[x.core]
        BY <1>9, <4>1
      <4>3. QED
        BY <1>1, <3>1, <4>1, <4>2 DEF LoopInv, Opened, Settled, Way
    <3>2. CASE u = t /\ x = g
      BY <1>1, <1>4, <1>5, <1>8, <1>9, <3>2, Shapes DEF Attachable, Hows
    <3>3. QED
      BY <1>15, <2>1, <3>1, <3>2
  <2>2. QED
    BY <1>2, <1>3, <2>1 DEF LoopInv, Opened, Settled, Way
<1>23. OneLoopInv'
  BY <1>1, <1>5, <1>12, <1>15 DEF OneLoopInv
<1>24. AheadInv'
  <2>1. \A j \in 1..Len(requests[c]) : ran[requests[c][j]] = <<>>
    BY <1>1, <1>4, <1>8 DEF ToldInv
  <2>2. QED
    BY <1>1, <1>2, <1>5, <1>15, <2>1 DEF AheadInv
<1>25. BehindInv'
  <2>1. ASSUME NEW u \in Threads, NEW x \in looping'[u], NEW j \in 1..Len(requests[x.core]), j < x.k
        PROVE  \/ ran[requests[x.core][j]] = <<x.how>>
               \/ j = x.k - 1 /\ Call(requests[x.core][j], x.how, x.core) \in calling[u]
    <3>1. x # g
      BY <1>5, <2>1
    <3>2. QED
      BY <1>1, <1>15, <2>1, <3>1 DEF BehindInv
  <2>2. QED
    BY <1>2, <1>15, <2>1 DEF BehindInv
<1>26. CallInv'
  <2>1. ASSUME NEW u \in Threads, NEW x \in calling[u]
        PROVE  /\ kind[x.req] \in Hanging /\ ran[x.req] = <<>>
               /\ \/ /\ Attach(x.core, x.req) \in attaching[u] /\ state'[x.core] \in {"Fulfilled", "Rejected"}
                     /\ x.how = IF state'[x.core] = "Fulfilled" THEN "resolve" ELSE "reject"
                  \/ \E e \in looping'[u] : /\ e.core = x.core /\ e.how = x.how
                                            /\ e.k - 1 \in 1..Len(requests[x.core])
                                            /\ requests[x.core][e.k - 1] = x.req
    <3>1. CASE Attach(x.core, x.req) \in attaching[u] /\ Settled(x.core) /\ x.how = Way(x.core)
      <4>1. x.core \in Cores /\ x.core # c
        BY <1>1, <1>8, <2>1, <3>1, Sorts
      <4>2. QED
        BY <1>1, <1>9, <2>1, <3>1, <4>1 DEF CallInv, Settled, Way
    <3>2. CASE \E e \in looping[u] : /\ e.core = x.core /\ e.how = x.how
                                     /\ e.k - 1 \in 1..Len(requests[x.core])
                                     /\ requests[x.core][e.k - 1] = x.req
      BY <1>1, <1>15, <2>1, <3>2 DEF CallInv
    <3>3. QED
      BY <1>1, <2>1, <3>1, <3>2 DEF CallInv
  <2>2. QED
    BY <1>2, <1>3, <1>15, <2>1 DEF CallInv, Settled, Way
<1>27. ToldInv'
  <2>1. ASSUME NEW d \in Cores, NEW j \in 1..Len(requests[d])
        PROVE  /\ /\ state'[d] \in {"Fulfilled", "Rejected"}
                  /\ ran[requests[d][j]] # <<IF state'[d] = "Fulfilled" THEN "resolve" ELSE "reject">>
                  => \E u \in Threads : \E e \in looping'[u] : e.core = d
               /\ ~(state'[d] \in {"Fulfilled", "Rejected"} \/ (kind[d] = "value" /\ ran[d] # <<>>)) =>
                    ran[requests[d][j]] = <<>>
    <3>1. CASE d = c
      BY <1>5, <1>9, <1>15, <3>1
    <3>2. CASE d # c
      BY <1>1, <1>9, <1>15, <2>1, <3>2 DEF ToldInv, Opened, Settled, Way
    <3>3. QED
      BY <3>1, <3>2
  <2>2. ran' = ran /\ requests' = requests
    BY <1>2
  <2>3. QED
    BY <1>3, <2>1, <2>2 DEF ToldInv, Opened, Settled, Way
<1>28. AttachInv'
  <2>1. ASSUME NEW u \in Threads, NEW x \in attaching[u] PROVE state'[x.core] = state[x.core]
    BY <1>1, <1>9, <1>12, <2>1, Sorts
  <2>2. QED
    BY <1>1, <1>2, <1>15, <2>1 DEF AttachInv, Settled, Way
<1>29. CountInv'
  BY <1>1, <1>2, <1>15 DEF CountInv
<1>30. RanInv' /\ ChainerInv'
  <2>1. \A r \in Cores : kind[r] \in Kinds => r # c
    BY <1>8 DEF Kinds
  <2>2. RanInv'
    <3>1. ASSUME NEW r \in Cores
          PROVE  /\ ran[r] \in {<<>>, <<"resolve">>, <<"reject">>}
                 /\ kind[r] \in Kinds /\ ran[r] = <<>> => state'[r] = "Pending"
                 /\ kind[r] = "value" /\ ran[r] = <<"resolve">> => state'[r] = "Fulfilled"
                 /\ kind[r] \in Kinds /\ handler[r] = "rethrow" /\ ran[r] = <<"reject">> =>
                      state'[r] = "Rejected" /\ reason'[r]
      <4>1. CASE r = c
        BY <1>1, <1>8, <2>1, <4>1 DEF RanInv, Kinds
      <4>2. CASE r # c
        <5>1. state'[r] = state[r] /\ reason'[r] = reason[r]
          BY <1>9, <1>11, <4>2
        <5>2. QED
          BY <1>1, <5>1 DEF RanInv
      <4>3. QED
        BY <4>1, <4>2
    <3>2. ran' = ran
      BY <1>2
    <3>3. QED
      BY <1>3, <3>1, <3>2 DEF RanInv
  <2>3. \A r \in Cores : kind[r] = "chainer" => target[r] \in Cores /\ target[r] # c
    BY <1>1, <1>8, Shapes DEF ChainerInv
  <2>4. ChainerInv'
    BY <1>1, <1>2, <1>3, <1>9, <2>3 DEF ChainerInv
  <2>5. QED
    BY <2>2, <2>4
<1>31. RoomInv'
  <2>1. Free' = Free
    BY <1>4, <1>7, <1>8, <1>9 DEF Free
  <2>2. Reserved' = Reserved
    BY <1>2 DEF Reserved
  <2>3. QED
    BY <1>1, <2>1, <2>2 DEF RoomInv
<1>32. TypeOK' /\ ListInv' /\ NoErrors'
  BY <1>1, <1>2, <1>3, <1>9, <1>10, <1>11 DEF TypeOK, ListInv, NoErrors
<1>33. QED
  BY <1>14, <1>16, <1>17, <1>18, <1>19, <1>20, <1>21, <1>22, <1>23, <1>24, <1>25, <1>26, <1>27, <1>28,
     <1>29, <1>30, <1>31, <1>32 DEF IInv

-----------------------------------------------------------------------------
(* New cores.                                                              *)

LEMMA LeastIn ==
  ASSUME NumCores \in Nat, NEW S, S \subseteq Cores, S # {}
  PROVE  Least(S) \in S
<1>1. S \subseteq Nat
  BY DEF Cores
<1>2. PICK x \in S : \A y \in S : ~(<<y, x>> \in OpToRel(<, Nat))
  BY <1>1, NatLessThanWellFounded, WFMin
<1>3. \A y \in S : ~(y < x)
  BY <1>1, <1>2 DEF OpToRel
<1>4. \A y \in S : x <= y
  BY <1>1, <1>3
<1>5. QED
  BY <1>4 DEF Least

\* A free core is nowhere.
LEMMA Fresh ==
  ASSUME LegalRules, IInv, NEW d \in Cores, state[d] = None
  PROVE  /\ kind[d] = "none" /\ requests[d] = <<>> /\ ran[d] = <<>> /\ d \notin begun /\ d > NumRoots
         /\ \A c \in Cores : \A j \in 1..Len(requests[c]) : requests[c][j] # d
         /\ \A u \in Threads : \A x \in flying[u] : x.core # d /\ x.req # d
         /\ \A u \in Threads : \A x \in settling[u] : x.core # d
         /\ \A u \in Threads : \A x \in looping[u] : x.core # d
         /\ \A u \in Threads : \A x \in calling[u] : x.core # d /\ x.req # d
         /\ \A u \in Threads : \A x \in ending[u] : x.req # d
         /\ \A q \in Cores : kind[q] = "chainer" => target[q] # d
<1>1. /\ TypeOK /\ StackInv /\ CoreInv /\ ListInv /\ FlyingInv /\ RootInv /\ LoopInv /\ CallInv
      /\ CountInv /\ ChainerInv
  BY DEF IInv
<1>2. kind[d] = "none"
  BY <1>1 DEF CoreInv
<1>3. "none" \notin Attachable /\ "none" \notin Hanging /\ "none" # "root" /\ "none" # "promise"
  BY DEF Attachable, Hanging, Kinds
<1>4. /\ requests[d] = <<>> /\ ran[d] = <<>> /\ d \notin begun
  BY <1>1, <1>2, <1>3 DEF CoreInv
<1>5. d > NumRoots
  <2>1. ~(d <= NumRoots)
    BY <1>1, <1>2, <1>3 DEF CoreInv
  <2>2. QED
    BY <2>1 DEF Cores, LegalRules
<1>6. \A c \in Cores : \A j \in 1..Len(requests[c]) : requests[c][j] # d
  BY <1>1, <1>2, <1>3 DEF ListInv
<1>7. \A u \in Threads : \A x \in flying[u] : x.core # d /\ x.req # d
  BY <1>1, <1>2, <1>3 DEF FlyingInv
<1>8. \A u \in Threads : \A x \in settling[u] : x.core # d
  BY <1>1, <1>2, <1>3 DEF RootInv
<1>9. \A u \in Threads : \A x \in looping[u] : x.core # d
  BY <1>1, <1>2, <1>3 DEF LoopInv
<1>10. \A u \in Threads : \A x \in calling[u] : x.core # d /\ x.req # d
  <2>1. ASSUME NEW u \in Threads, NEW x \in calling[u] PROVE x.core # d
    <3>1. CASE Attach(x.core, x.req) \in attaching[u]
      <4>1. /\ Attach(x.core, x.req) \in flying[u]
            /\ Attach(x.core, x.req).core = x.core
        BY <1>1, <3>1, Sorts DEF Attach
      <4>2. QED
        BY <1>7, <4>1
    <3>2. CASE \E e \in looping[u] : e.core = x.core
      BY <1>9, <3>2
    <3>3. QED
      BY <1>1, <2>1, <3>1, <3>2 DEF CallInv
  <2>2. QED
    BY <1>1, <1>2, <1>3, <2>1 DEF CallInv
<1>11. \A u \in Threads : \A x \in ending[u] : x.req # d
  BY <1>1, <1>4 DEF CountInv
<1>12. \A q \in Cores : kind[q] = "chainer" => target[q] # d
  BY <1>1, <1>2, <1>3 DEF ChainerInv
<1>13. QED
  BY <1>2, <1>4, <1>5, <1>6, <1>7, <1>8, <1>9, <1>10, <1>11, <1>12

\* The callbacks that are going to return a promise.
promised == {r \in Cores : kind[r] = "promise" /\ ran[r] = <<>>}

LEMMA FiniteSets ==
  ASSUME NumCores \in Nat
  PROVE  /\ IsFiniteSet(Free) /\ Cardinality(Free) \in Nat
         /\ IsFiniteSet(promised) /\ Cardinality(promised) \in Nat
         /\ Reserved = 2 * Cardinality(promised)
<1>1. IsFiniteSet(Cores)
  BY FS_Interval DEF Cores
<1>2. Free \subseteq Cores /\ promised \subseteq Cores
  BY DEF Free, promised
<1>3. IsFiniteSet(Free) /\ IsFiniteSet(promised)
  BY <1>1, <1>2, FS_Subset
<1>4. Cardinality(Free) \in Nat /\ Cardinality(promised) \in Nat
  BY <1>3, FS_CardinalityType
<1>5. promised = {r \in Cores : request[r].kind = "promise" /\ ran[r] = <<>>}
  BY DEF promised, kind
<1>6. QED
  BY <1>3, <1>4, <1>5 DEF Reserved

\* then makes a core for its request, and is on its way to the list.
LEMMA NewThenStep ==
  ASSUME LegalRules, IInv, NEW t \in Threads, NEW c \in Cores, NEW what \in Continuations,
         NewThen(t, c, what[1], what[2])
  PROVE  IInv'
<1> DEFINE r == Least(Free)
           f == Then(c, r)
           k == what[1]
           h == what[2]
<1>1. /\ TypeOK /\ StackInv /\ CoreInv /\ ListInv /\ FlyingInv /\ ApartInv /\ QuietInv /\ OwnerInv
      /\ RootInv /\ LoopInv /\ OneLoopInv /\ AheadInv /\ BehindInv /\ CallInv /\ ToldInv /\ AttachInv
      /\ CountInv /\ RanInv /\ ChainerInv /\ RoomInv /\ NoErrors
  BY DEF IInv
<1>2. /\ NumCores \in Nat /\ NumRoots \in Nat /\ None \notin Threads
      /\ None # "Pending" /\ None # "Fulfilled" /\ None # "Rejected"
      /\ k \in Kinds /\ h \in Handlers /\ (k = "promise" => h = "rethrow")
  <2>1. what \in (Kinds \X Handlers) \ {<<"promise", "ignore">>}
    BY DEF LegalRules
  <2>2. k \in Kinds /\ h \in Handlers /\ what = <<k, h>>
    BY <2>1
  <2>3. k = "promise" => h # "ignore"
    BY <2>1, <2>2
  <2>4. QED
    BY <2>2, <2>3 DEF LegalRules, Handlers
<1>3. /\ Idle(t) /\ state[c] # None /\ MayAttach(c) /\ kind[c] # "chainer"
      /\ Cardinality(Free) >= Reserved + Needed(k)
      /\ state' = [state EXCEPT ![r] = "Pending"]
      /\ request' = [request EXCEPT ![r] = [kind |-> k, handler |-> h, target |-> r]]
      /\ stack' = [stack EXCEPT ![t] = <<f>>]
      /\ failed' = [failed EXCEPT ![t] = FALSE]
      /\ UNCHANGED <<owner, settler, reason, requests, counts, ran, begun>>
  BY DEF NewThen, kind
<1>4. r \in Free /\ r \in Cores /\ state[r] = None
  <2>1. /\ IsFiniteSet(Free) /\ Cardinality(Free) \in Nat /\ Cardinality(promised) \in Nat
        /\ Reserved = 2 * Cardinality(promised)
    BY <1>2, FiniteSets
  <2>2. Needed(k) \in {1, 3}
    BY DEF Needed
  <2>3. Cardinality(Free) # 0
    BY <1>3, <2>1, <2>2
  <2>4. Free # {}
    BY <2>3, FS_EmptySet
  <2>5. Free \subseteq Cores
    BY DEF Free
  <2>6. r \in Free
    BY <1>2, <2>4, <2>5, LeastIn
  <2>7. QED
    BY <2>6 DEF Free
<1>5. f \in Frames /\ f.op = "then" /\ f.core = c /\ f.req = r
  BY <1>4, MadeThen
<1> HIDE DEF f, r, k, h
<1>6. /\ kind[r] = "none" /\ requests[r] = <<>> /\ ran[r] = <<>> /\ r \notin begun /\ r > NumRoots
      /\ \A d \in Cores : \A j \in 1..Len(requests[d]) : requests[d][j] # r
      /\ \A u \in Threads : \A x \in flying[u] : x.core # r /\ x.req # r
      /\ \A u \in Threads : \A x \in settling[u] : x.core # r
      /\ \A u \in Threads : \A x \in looping[u] : x.core # r
      /\ \A u \in Threads : \A x \in calling[u] : x.core # r /\ x.req # r
      /\ \A q \in Cores : kind[q] = "chainer" => target[q] # r
  BY <1>4, Fresh
<1>7. r # c
  BY <1>3, <1>4
<1>8. /\ state' \in [Cores -> {None, "Pending", "Fulfilled", "Rejected"}]
      /\ state'[r] = "Pending" /\ \A d \in Cores : d # r => state'[d] = state[d]
  BY <1>1, <1>3, <1>4 DEF TypeOK
<1>9. /\ request' \in [Cores -> [kind : Kinds \cup {"root", "none", "chainer"},
                                 handler : Handlers, target : Cores]]
      /\ request'[r] = [kind |-> k, handler |-> h, target |-> r]
      /\ \A d \in Cores : d # r => request'[d] = request[d]
  BY <1>1, <1>2, <1>3, <1>4 DEF TypeOK
<1>10. /\ kind'[r] = k /\ handler'[r] = h /\ target'[r] = r
       /\ \A d \in Cores : d # r => kind'[d] = kind[d] /\ handler'[d] = handler[d] /\ target'[d] = target[d]
  BY <1>4, <1>9 DEF kind, handler, target
<1>11. k \in Attachable /\ k \in Hanging /\ k # "root" /\ k # "chainer" /\ k # "none"
  BY <1>2 DEF Attachable, Hanging, Kinds
<1>12. kind[c] \in Attachable
  BY <1>1, <1>3, Shapes DEF CoreInv, Attachable, AnyKind
<1>13. kind[c] \in Kinds => \A u \in Threads : calls[u] = {}
  <2>1. SUFFICES ASSUME kind[c] \in Kinds PROVE \A u \in Threads : calls[u] = {}
    OBVIOUS
  <2>2. ~(c <= NumRoots)
    BY <1>1, <2>1 DEF CoreInv, Kinds
  <2>3. \A u \in Threads : Idle(u)
    BY <1>3, <2>2 DEF MayAttach, LegalRules
  <2>4. QED
    BY <1>1, <2>3, TopFacts
<1>14. PICK N : N = {f}
  OBVIOUS
<1>15. StackInv' /\ Steps(t, f, N)
  BY <1>1, <1>3, <1>5, <1>14, FirstSteps
<1>16. f \notin calls[t]
  BY <1>1, <1>3, TopFacts
<1>17. /\ looping' = looping /\ settling' = settling /\ attaching' = attaching /\ calling' = calling
       /\ ending' = ending
       /\ \A u \in Threads : \A x : x \in flying'[u] <=> x \in flying[u] \/ (u = t /\ x = f)
  <2>1. f.op = "then" /\ (\A x : x \in N <=> x = f) /\ f \notin flying[t]
    BY <1>5, <1>14, <1>16 DEF flying
  <2>2. looping' = looping /\ settling' = settling /\ attaching' = attaching /\ calling' = calling /\ ending' = ending
    BY <1>15, <2>1, KeptSorts
  <2>3. QED
    BY <1>15, <2>1, <2>2, Sorted
<1>18. CoreInv'
  <2>1. ASSUME NEW d \in Cores
        PROVE  /\ state'[d] = None <=> kind'[d] = "none"
               /\ d <= NumRoots => kind'[d] = "root"
               /\ requests[d] # <<>> => kind'[d] \in Attachable
               /\ kind'[d] \notin Hanging => ran[d] = <<>>
               /\ kind'[d] # "root" => d \notin begun
               /\ kind'[d] = "promise" => handler'[d] = "rethrow"
    <3>1. CASE d = r
      BY <1>2, <1>4, <1>6, <1>8, <1>10, <1>11, <3>1 DEF Cores
    <3>2. CASE d # r
      BY <1>1, <1>8, <1>10, <3>2 DEF CoreInv
    <3>3. QED
      BY <3>1, <3>2
  <2>2. requests' = requests /\ ran' = ran /\ begun' = begun
    BY <1>3
  <2>3. QED
    BY <2>1, <2>2 DEF CoreInv
<1>19. \A d \in Cores : \A j \in 1..Len(requests[d]) : requests[d][j] \in Cores /\ requests[d][j] # r
  BY <1>1, <1>6, Shapes
<1>20. ListInv'
  <2>1. \A d \in Cores : \A j \in 1..Len(requests[d]) : kind'[requests[d][j]] \in Hanging
    BY <1>1, <1>10, <1>19 DEF ListInv
  <2>2. requests' = requests
    BY <1>3
  <2>3. QED
    BY <1>1, <2>1, <2>2 DEF ListInv
<1>21. FlyingInv'
  <2>1. ASSUME NEW u \in Threads, NEW x \in flying'[u]
        PROVE  /\ kind'[x.core] \in Attachable /\ kind'[x.req] \in Hanging
               /\ requests[x.req] = <<>>
               /\ \A d \in Cores : \A j \in 1..Len(requests[d]) : requests[d][j] # x.req
               /\ x.op = "then" => ran[x.req] = <<>>
               /\ kind'[x.req] = "chainer" =>
                    x.core > NumRoots /\ kind'[x.core] = "root" /\ state'[x.core] = "Pending" /\ x.core \notin begun
    <3>1. CASE x \in flying[u]
      <4>1. x.core \in Cores /\ x.req \in Cores /\ x.core # r /\ x.req # r
        BY <1>1, <1>6, <3>1, Sorts
      <4>2. /\ kind'[x.core] = kind[x.core] /\ kind'[x.req] = kind[x.req] /\ state'[x.core] = state[x.core]
        BY <1>8, <1>10, <4>1
      <4>3. QED
        BY <1>1, <3>1, <4>2 DEF FlyingInv
    <3>2. CASE u = t /\ x = f
      BY <1>5, <1>6, <1>7, <1>10, <1>11, <1>12, <3>2
    <3>3. QED
      BY <1>17, <2>1, <3>1, <3>2
  <2>2. requests' = requests /\ ran' = ran /\ begun' = begun
    BY <1>3
  <2>3. QED
    BY <2>1, <2>2 DEF FlyingInv
<1>22. ApartInv'
  <2>1. \A u \in Threads : \A x \in flying[u] : x.req # c
    <3>1. ASSUME NEW u \in Threads, NEW x \in flying[u], x.req = c PROVE FALSE
      <4>1. kind[c] \in Hanging
        BY <1>1, <3>1 DEF FlyingInv
      <4>2. kind[c] \in Kinds
        BY <1>3, <4>1 DEF Hanging
      <4>3. x \in calls[u]
        BY <3>1 DEF flying
      <4>4. QED
        BY <1>13, <4>2, <4>3
    <3>2. QED
      BY <3>1
  <2>2. QED
    BY <1>1, <1>5, <1>6, <1>7, <1>17, <2>1 DEF ApartInv
<1>23. QuietInv'
  <2>1. ASSUME NEW u \in Threads, NEW v \in Threads, NEW x \in flying'[u], kind'[x.core] \in Kinds
        PROVE  /\ settling[v] = {}
               /\ \A y \in looping[v] : y.core # x.core /\ requests[y.core] = <<>>
               /\ \A y \in calling[v] : Attach(y.core, y.req) \in attaching[v]
    <3>1. CASE x \in flying[u]
      <4>1. x.core \in Cores /\ x.core # r
        BY <1>1, <1>6, <3>1, Sorts
      <4>2. kind[x.core] \in Kinds
        BY <1>10, <2>1, <4>1
      <4>3. QED
        BY <1>1, <3>1, <4>2 DEF QuietInv
    <3>2. CASE u = t /\ x = f
      <4>1. kind[c] \in Kinds
        BY <1>5, <1>7, <1>10, <2>1, <3>2
      <4>2. \A y : y \notin settling[v] /\ y \notin looping[v] /\ y \notin calling[v]
        BY <1>13, <4>1 DEF settling, looping, calling
      <4>3. QED
        BY <4>2
    <3>3. QED
      BY <1>17, <2>1, <3>1, <3>2
  <2>2. requests' = requests
    BY <1>3
  <2>3. QED
    BY <1>17, <2>1, <2>2 DEF QuietInv
<1>24. OwnerInv'
  BY <1>1, <1>3, <1>17 DEF OwnerInv
<1>25. RootInv'
  <2>1. ASSUME NEW d \in Cores, kind'[d] = "root", state'[d] # "Pending" PROVE d \in begun
    BY <1>1, <1>8, <1>10, <1>11, <2>1 DEF RootInv
  <2>2. ASSUME NEW u \in Threads, NEW x \in settling[u]
        PROVE  kind'[x.core] = "root" /\ state'[x.core] = "Pending" /\ x.core \in begun
    <3>1. x.core \in Cores /\ x.core # r
      BY <1>1, <1>6, <2>2, Sorts
    <3>2. QED
      BY <1>1, <1>8, <1>10, <2>2, <3>1 DEF RootInv
  <2>3. QED
    BY <1>1, <1>3, <1>17, <2>1, <2>2 DEF RootInv
<1>26. LoopInv'
  <2>1. ASSUME NEW u \in Threads, NEW x \in looping[u]
        PROVE  kind'[x.core] = kind[x.core] /\ state'[x.core] = state[x.core]
    BY <1>1, <1>6, <1>8, <1>10, <2>1, Sorts
  <2>2. requests' = requests /\ ran' = ran
    BY <1>3
  <2>3. QED
    BY <1>1, <1>17, <2>1, <2>2 DEF LoopInv, Opened, Settled, Way
<1>27. OneLoopInv' /\ AheadInv' /\ BehindInv'
  BY <1>1, <1>3, <1>17 DEF OneLoopInv, AheadInv, BehindInv
<1>28. CallInv'
  <2>1. ASSUME NEW u \in Threads, NEW x \in calling[u]
        PROVE  kind'[x.req] = kind[x.req] /\ state'[x.core] = state[x.core]
    BY <1>1, <1>6, <1>8, <1>10, <2>1, Sorts
  <2>2. requests' = requests /\ ran' = ran
    BY <1>3
  <2>3. QED
    BY <1>1, <1>17, <2>1, <2>2 DEF CallInv, Settled, Way
<1>29. ToldInv'
  <2>1. ASSUME NEW d \in Cores, NEW j \in 1..Len(requests[d])
        PROVE  state'[d] = state[d] /\ kind'[d] = kind[d]
    <3>1. d # r
      BY <1>6, <2>1
    <3>2. QED
      BY <1>8, <1>10, <3>1
  <2>2. requests' = requests /\ ran' = ran
    BY <1>3
  <2>3. QED
    BY <1>1, <1>17, <2>1, <2>2 DEF ToldInv, Opened, Settled, Way
<1>30. AttachInv'
  <2>1. ASSUME NEW u \in Threads, NEW x \in attaching[u] PROVE state'[x.core] = state[x.core]
    BY <1>1, <1>6, <1>8, <2>1, Sorts
  <2>2. QED
    BY <1>1, <1>3, <1>17, <2>1 DEF AttachInv, Settled, Way
<1>31. CountInv'
  BY <1>1, <1>3, <1>17 DEF CountInv
<1>32. RanInv'
  <2>1. ASSUME NEW d \in Cores
        PROVE  /\ ran[d] \in {<<>>, <<"resolve">>, <<"reject">>}
               /\ kind'[d] \in Kinds /\ ran[d] = <<>> => state'[d] = "Pending"
               /\ kind'[d] = "value" /\ ran[d] = <<"resolve">> => state'[d] = "Fulfilled"
               /\ kind'[d] \in Kinds /\ handler'[d] = "rethrow" /\ ran[d] = <<"reject">> =>
                    state'[d] = "Rejected" /\ reason[d]
    <3>1. CASE d = r
      BY <1>6, <1>8, <3>1
    <3>2. CASE d # r
      BY <1>1, <1>8, <1>10, <3>2 DEF RanInv
    <3>3. QED
      BY <3>1, <3>2
  <2>2. ran' = ran /\ reason' = reason
    BY <1>3
  <2>3. QED
    BY <2>1, <2>2 DEF RanInv
<1>33. ChainerInv'
  <2>1. ASSUME NEW q \in Cores, kind'[q] = "chainer"
        PROVE  /\ q # r /\ kind[q] = "chainer" /\ target'[q] = target[q]
               /\ kind'[target[q]] = kind[target[q]] /\ state'[target[q]] = state[target[q]]
    <3>1. q # r /\ kind[q] = "chainer" /\ target'[q] = target[q]
      BY <1>10, <1>11, <2>1
    <3>2. target[q] \in Cores /\ target[q] # r
      BY <1>1, <1>6, <3>1, Shapes
    <3>3. QED
      BY <1>8, <1>10, <3>1, <3>2
  <2>2. ran' = ran
    BY <1>3
  <2>3. ASSUME NEW q \in Cores, kind'[q] = "chainer"
        PROVE  /\ kind'[target'[q]] = "promise" /\ ran[target'[q]] = <<"resolve">>
               /\ ran[q] = <<>> <=> state'[target'[q]] = "Pending"
    BY <1>1, <2>1, <2>3 DEF ChainerInv
  <2>4. ASSUME NEW q \in Cores, NEW p \in Cores,
               kind'[q] = "chainer", kind'[p] = "chainer", target'[p] = target'[q]
        PROVE  p = q
    BY <1>1, <2>1, <2>4 DEF ChainerInv
  <2>5. QED
    BY <2>2, <2>3, <2>4 DEF ChainerInv
<1>34. RoomInv'
  <2>1. /\ IsFiniteSet(Free) /\ Cardinality(Free) \in Nat
        /\ IsFiniteSet(promised) /\ Cardinality(promised) \in Nat
        /\ Reserved = 2 * Cardinality(promised)
    BY <1>2, FiniteSets
  <2>2. Reserved' = 2 * Cardinality(promised')
    <3>1. promised' = {d \in Cores : request'[d].kind = "promise" /\ ran'[d] = <<>>}
      BY DEF promised, kind
    <3>2. QED
      BY <3>1 DEF Reserved
  <2>3. Cardinality(Free') = Cardinality(Free) - 1
    <3>1. Free' = Free \ {r}
      BY <1>2, <1>4, <1>8 DEF Free
    <3>2. QED
      BY <1>4, <2>1, <3>1, FS_RemoveElement
  <2>4. CASE k = "promise"
    <3>1. promised' = promised \cup {r} /\ r \notin promised
      BY <1>3, <1>4, <1>6, <1>10, <2>4 DEF promised
    <3>2. Cardinality(promised') = Cardinality(promised) + 1
      BY <2>1, <3>1, FS_AddElement
    <3>3. QED
      BY <1>3, <2>1, <2>2, <2>3, <2>4, <3>2 DEF RoomInv, Needed
  <2>5. CASE k # "promise"
    <3>1. promised' = promised
      BY <1>3, <1>4, <1>6, <1>10, <2>5 DEF promised
    <3>2. QED
      BY <1>3, <2>1, <2>2, <2>3, <2>5, <3>1 DEF RoomInv, Needed
  <2>6. QED
    BY <2>4, <2>5
<1>35. TypeOK' /\ NoErrors'
  BY <1>1, <1>3, <1>8, <1>9 DEF TypeOK, NoErrors
<1>36. QED
  BY <1>15, <1>18, <1>20, <1>21, <1>22, <1>23, <1>24, <1>25, <1>26, <1>27, <1>28, <1>29, <1>30, <1>31,
     <1>32, <1>33, <1>34, <1>35 DEF IInv

-----------------------------------------------------------------------------
(* A callback runs.                                                        *)

\* The core that a call goes on to: the promise that then returned, or for a chainer
\* the one that it is to settle.
Onto(r) == IF kind[r] = "chainer" THEN target[r] ELSE r

\* Who has a request that is about to be called.
LEMMA Running ==
  ASSUME LegalRules, IInv, NEW t \in Threads, At(t, "call"), NEW f, f = Top(t)
  PROVE  /\ ~Idle(t) /\ f \in calling[t] /\ f.op = "call" /\ f = Call(f.req, f.how, f.core)
         /\ f.req \in Cores /\ f.how \in Hows /\ f.core \in Cores /\ settling[t] = {}
         /\ kind[f.req] \in Hanging /\ ran[f.req] = <<>>
         /\ \A d \in Cores : \A j \in 1..Len(requests[d]) : requests[d][j] = f.req =>
              d = f.core /\ \E e \in looping[t] : e.core = d /\ e.how = f.how /\ e.k - 1 = j
         /\ \A u \in Threads : \A x \in flying[u] : x.req = f.req =>
              x.op = "attach" /\ x.core = f.core /\ Settled(f.core) /\ f.how = Way(f.core)
         /\ \A u \in Threads : \A x \in calling[u] : x.req = f.req => u = t /\ x = f
         /\ \A u \in Threads : \A x \in ending[u] : x.req # f.req
         /\ \A how \in Hows : counts[f.req][how] = 0
         /\ \A u \in Threads : \A x \in flying[u] : kind[x.core] \in Kinds =>
              requests[f.req] = <<>> /\ x.core # f.req /\ kind[f.req] # "chainer"
<1> DEFINE r == f.req
           c == f.core
<1>1. /\ TypeOK /\ StackInv /\ ListInv /\ FlyingInv /\ ApartInv /\ QuietInv
      /\ LoopInv /\ OneLoopInv /\ CallInv /\ CountInv
  BY DEF IInv
<1>2. /\ ~Idle(t) /\ f \in calling[t] /\ f.op = "call" /\ f = Call(f.req, f.how, f.core)
      /\ r \in Cores /\ f.how \in Hows /\ c \in Cores /\ settling[t] = {}
  BY <1>1, TopIs, Sorts
<1>3. kind[r] \in Hanging /\ ran[r] = <<>>
  BY <1>1, <1>2 DEF CallInv
<1>4. PICK a : a = Attach(c, r)
  OBVIOUS
<1>5. a.op = "attach" /\ a.core = c /\ a.req = r
  BY <1>4, MadeOf
<1>6. \/ /\ a \in attaching[t] /\ a \in flying[t] /\ Settled(c) /\ f.how = Way(c)
         /\ \A d \in Cores : \A j \in 1..Len(requests[d]) : requests[d][j] # r
         /\ requests[r] = <<>>
      \/ /\ \E e \in looping[t] : e.core = c /\ e.how = f.how /\ e.k - 1 \in 1..Len(requests[c]) /\ requests[c][e.k - 1] = r
         /\ \A u \in Threads : \A x \in flying[u] : x.req # r
  <2>1. CASE Attach(c, r) \in attaching[t] /\ Settled(c) /\ f.how = Way(c)
    <3>1. a \in attaching[t] /\ a \in flying[t]
      BY <1>1, <1>4, <2>1, Sorts
    <3>2. QED
      BY <1>1, <1>5, <2>1, <3>1 DEF FlyingInv
  <2>2. CASE \E e \in looping[t] : /\ e.core = c /\ e.how = f.how
                                   /\ e.k - 1 \in 1..Len(requests[c])
                                   /\ requests[c][e.k - 1] = r
    <3>1. \A u \in Threads : \A x \in flying[u] : x.req # r
      BY <1>1, <1>2, <2>2 DEF FlyingInv
    <3>2. QED
      BY <2>2, <3>1
  <2>3. QED
    BY <1>1, <1>2, <2>1, <2>2 DEF CallInv
<1> HIDE DEF r, c
<1>7. f.req = r /\ f.core = c
  BY DEF r, c
<1>8. ASSUME NEW d \in Cores, NEW j \in 1..Len(requests[d]), requests[d][j] = r
      PROVE  d = c /\ \E e \in looping[t] : e.core = d /\ e.how = f.how /\ e.k - 1 = j
  <2>1. PICK e \in looping[t] : e.core = c /\ e.how = f.how /\ e.k - 1 \in 1..Len(requests[c]) /\ requests[c][e.k - 1] = r
    BY <1>6, <1>8
  <2>2. PICK k \in 1..Len(requests[c]) : k = e.k - 1 /\ requests[c][k] = r
    BY <2>1
  <2>3. d = c /\ j = k
    BY <1>1, <1>2, <1>8, <2>2 DEF ListInv
  <2>4. QED
    BY <2>1, <2>2, <2>3
<1>9. ASSUME NEW u \in Threads, NEW x \in flying[u], x.req = r
      PROVE  u = t /\ x = a /\ a \in attaching[t] /\ Settled(c) /\ f.how = Way(c)
  <2>1. a \in attaching[t] /\ a \in flying[t] /\ Settled(c) /\ f.how = Way(c)
    BY <1>6, <1>9
  <2>2. QED
    BY <1>1, <1>5, <1>9, <2>1 DEF ApartInv
<1>10. ASSUME NEW u \in Threads, NEW x \in calling[u], x.req = r PROVE u = t /\ x = f
  <2>1. u = t
    <3>1. CASE Attach(x.core, x.req) \in attaching[u]
      <4>1. Attach(x.core, x.req) \in flying[u] /\ Attach(x.core, x.req).req = r
        BY <1>1, <1>10, <3>1, Sorts, MadeOf
      <4>2. QED
        BY <1>9, <4>1
    <3>2. CASE \E e \in looping[u] : /\ e.core = x.core /\ e.how = x.how
                                     /\ e.k - 1 \in 1..Len(requests[x.core])
                                     /\ requests[x.core][e.k - 1] = x.req
      <4>1. PICK e \in looping[u] : /\ e.core = x.core /\ e.k - 1 \in 1..Len(requests[x.core])
                                    /\ requests[x.core][e.k - 1] = x.req
        BY <3>2
      <4>2. x.core \in Cores
        BY <1>1, <1>10, Sorts
      <4>3. \E g \in looping[t] : g.core = x.core
        BY <1>8, <1>10, <4>1, <4>2
      <4>4. QED
        BY <1>1, <4>1, <4>3 DEF OneLoopInv
    <3>3. QED
      BY <1>1, <1>10, <3>1, <3>2 DEF CallInv
  <2>2. QED
    BY <1>1, <1>2, <1>10, <2>1, TopSorts
<1>11. \A u \in Threads : \A x \in ending[u] : x.req # r
  <2>1. \A how : <<how>> # <<>>
    OBVIOUS
  <2>2. QED
    BY <1>1, <1>3, <2>1 DEF CountInv
<1>12. \A how \in Hows : counts[r][how] = 0
  <2>1. \A how : <<how>> # <<>>
    OBVIOUS
  <2>2. QED
    BY <1>1, <1>2, <1>3, <2>1 DEF CountInv
<1>13. ASSUME NEW u \in Threads, NEW x \in flying[u], kind[x.core] \in Kinds
       PROVE  requests[r] = <<>> /\ x.core # r /\ kind[r] # "chainer"
  <2>1. a \in attaching[t]
    BY <1>1, <1>2, <1>4, <1>7, <1>13 DEF QuietInv
  <2>2. a \in flying[t]
    BY <1>1, <2>1, Sorts
  <2>3. Settled(c) /\ requests[r] = <<>>
    BY <1>5, <1>6, <2>2
  <2>4. x.core # r
    BY <1>1, <1>5, <1>13, <2>2 DEF ApartInv
  <2>5. kind[r] # "chainer"
    BY <1>1, <1>5, <2>2, <2>3 DEF FlyingInv, Settled
  <2>6. QED
    BY <2>3, <2>4, <2>5
<1>14. \A u \in Threads : \A x \in flying[u] : x.req = r =>
         x.op = "attach" /\ x.core = c /\ Settled(c) /\ f.how = Way(c)
  BY <1>5, <1>9
<1>15. QED
  BY <1>2, <1>3, <1>7, <1>8, <1>10, <1>11, <1>12, <1>13, <1>14

\* The core it goes on to has not been told, and nobody is telling it or attaches to it.
LEMMA Untold ==
  ASSUME LegalRules, IInv, NEW t \in Threads, At(t, "call"), NEW r, r = Top(t).req, NEW d, d = Onto(r)
  PROVE  /\ d \in Cores /\ kind[d] \in Kinds /\ state[d] = "Pending" /\ ~Opened(d)
         /\ kind[r] = "chainer" => kind[d] = "promise" /\ ran[d] = <<"resolve">> /\ d # r
         /\ \A u \in Threads : \A x \in looping[u] : x.core # d
         /\ \A u \in Threads : \A x \in flying[u] : x.core # d
         /\ \A j \in 1..Len(requests[d]) : ran[requests[d][j]] = <<>> /\ requests[d][j] # r
<1>1. PICK f : f = Top(t)
  OBVIOUS
<1>2. /\ f \in calling[t] /\ r = f.req /\ r \in Cores /\ kind[r] \in Hanging /\ ran[r] = <<>>
      /\ \A e \in Cores : \A j \in 1..Len(requests[e]) : requests[e][j] = r =>
           \E g \in looping[t] : g.core = e
      /\ \A u \in Threads : \A x \in flying[u] : kind[x.core] \in Kinds => x.core # r /\ kind[r] # "chainer"
  BY <1>1, Running
<1>3. TypeOK /\ StackInv /\ RanInv /\ ChainerInv /\ LoopInv /\ ToldInv
  BY DEF IInv
<1>4. <<"resolve">> # <<>>
  OBVIOUS
<1>5. /\ d \in Cores /\ kind[d] \in Kinds /\ state[d] = "Pending" /\ ~Opened(d)
      /\ kind[r] = "chainer" => kind[d] = "promise" /\ ran[d] = <<"resolve">> /\ d # r
  <2>1. CASE kind[r] = "chainer"
    <3>1. d = target[r] /\ d \in Cores /\ kind[d] = "promise" /\ ran[d] = <<"resolve">> /\ state[d] = "Pending"
      BY <1>2, <1>3, <2>1, Shapes DEF ChainerInv, Onto
    <3>2. QED
      BY <1>2, <1>4, <3>1 DEF Opened, Settled, Kinds
  <2>2. CASE kind[r] # "chainer"
    <3>1. d = r /\ kind[r] \in Kinds /\ state[r] = "Pending"
      BY <1>2, <1>3, <2>2 DEF RanInv, Onto, Hanging
    <3>2. QED
      BY <1>2, <2>2, <3>1 DEF Opened, Settled
  <2>3. QED
    BY <2>1, <2>2
<1>6. \A u \in Threads : \A x \in looping[u] : x.core # d
  BY <1>3, <1>5 DEF LoopInv
<1>7. \A u \in Threads : \A x \in flying[u] : x.core # d
  BY <1>2, <1>5 DEF Onto
<1>8. \A j \in 1..Len(requests[d]) : ran[requests[d][j]] = <<>> /\ requests[d][j] # r
  BY <1>2, <1>3, <1>5, <1>6 DEF ToldInv
<1>9. QED
  BY <1>5, <1>6, <1>7, <1>8

\* What a step does in which a callback runs, and what hangs on the core it goes on to is
\* told (by Chain, or by doReject without settling it), or nothing comes after it.
Goes(t, f, d, g, e) ==
  /\ f = Top(t) /\ d = Onto(f.req)
  /\ g \in Frames /\ g.op = "each" /\ g.core = d /\ g.how = f.how /\ g.k = 1 /\ ~g.locked
  /\ e \in Frames /\ e.op = "called" /\ e.req = f.req /\ e.how = f.how
  /\ ran' = [ran EXCEPT ![f.req] = Append(@, f.how)]
  /\ UNCHANGED <<owner, requests, request, counts, failed, begun>>
  /\ \/ SettledBy(d, f.how, t) /\ Replace(t, <<g, e>>)
     \/ /\ UNCHANGED <<state, settler, reason>> /\ Replace(t, <<g, e>>)
        /\ kind[f.req] = "value" /\ f.how = "reject" /\ handler[f.req] = "ignore"
     \/ /\ UNCHANGED <<state, settler, reason>> /\ Replace(t, <<e>>)
        /\ kind[f.req] = "void" /\ (f.how = "resolve" \/ handler[f.req] = "ignore")

LEMMA RunStep ==
  ASSUME LegalRules, IInv, NEW t \in Threads, At(t, "call"), NEW f, NEW d, NEW g, NEW e,
         Goes(t, f, d, g, e)
  PROVE  IInv'
<1> DEFINE r == f.req
           c == f.core
           how == f.how
<1>1. /\ TypeOK /\ StackInv /\ CoreInv /\ ListInv /\ FlyingInv /\ ApartInv /\ QuietInv /\ OwnerInv
      /\ RootInv /\ LoopInv /\ OneLoopInv /\ AheadInv /\ BehindInv /\ CallInv /\ ToldInv /\ AttachInv
      /\ CountInv /\ RanInv /\ ChainerInv /\ RoomInv /\ NoErrors
  BY DEF IInv
<1>2. /\ owner' = owner /\ requests' = requests /\ request' = request /\ counts' = counts
      /\ failed' = failed /\ begun' = begun
      /\ kind' = kind /\ handler' = handler /\ target' = target
  BY SameRequest DEF Goes
<1>3. /\ ~Idle(t) /\ f \in calling[t] /\ f.op = "call" /\ f = Call(r, how, c)
      /\ r \in Cores /\ how \in Hows /\ c \in Cores /\ settling[t] = {}
      /\ kind[r] \in Hanging /\ ran[r] = <<>>
      /\ \A x \in Cores : \A j \in 1..Len(requests[x]) : requests[x][j] = r =>
           x = c /\ \E y \in looping[t] : y.core = x /\ y.how = how /\ y.k - 1 = j
      /\ \A u \in Threads : \A x \in flying[u] : x.req = r =>
           x.op = "attach" /\ x.core = c /\ Settled(c) /\ how = Way(c)
      /\ \A u \in Threads : \A x \in calling[u] : x.req = r => u = t /\ x = f
      /\ \A u \in Threads : \A x \in ending[u] : x.req # r
      /\ \A h \in Hows : counts[r][h] = 0
      /\ \A u \in Threads : \A x \in flying[u] : kind[x.core] \in Kinds =>
           requests[r] = <<>> /\ x.core # r /\ kind[r] # "chainer"
  BY Running DEF Goes
<1>4. /\ d \in Cores /\ kind[d] \in Kinds /\ state[d] = "Pending" /\ ~Opened(d)
      /\ kind[r] = "chainer" => kind[d] = "promise" /\ ran[d] = <<"resolve">> /\ d # r
      /\ \A u \in Threads : \A x \in looping[u] : x.core # d
      /\ \A u \in Threads : \A x \in flying[u] : x.core # d
      /\ \A j \in 1..Len(requests[d]) : ran[requests[d][j]] = <<>> /\ requests[d][j] # r
  <2>1. r = Top(t).req /\ d = Onto(r)
    BY DEF Goes
  <2>2. QED
    BY <2>1, Untold
<1>5. kind[r] # "chainer" => d = r
  BY DEF Goes, Onto
<1>6. kind[r] = "chainer" => d = target[r]
  BY DEF Goes, Onto
<1>7. /\ g \in Frames /\ g.op = "each" /\ g.core = d /\ g.how = how /\ g.k = 1 /\ ~g.locked
  BY DEF Goes
<1>8. e \in Frames /\ e.op = "called" /\ e.req = r /\ e.how = how
  BY DEF Goes
<1>9. /\ ran' \in [Cores -> Seq(Hows)] /\ ran'[r] = <<how>>
      /\ \A x \in Cores : x # r => ran'[x] = ran[x]
  <2>1. ran \in [Cores -> Seq(Hows)]
    BY <1>1 DEF TypeOK, Hows
  <2>2. Append(ran[r], how) = <<how>> /\ ran' = [ran EXCEPT ![r] = Append(@, how)]
    BY <1>3 DEF Goes
  <2>3. <<how>> \in Seq(Hows)
    BY <1>3
  <2>4. ran' = [ran EXCEPT ![r] = <<how>>]
    BY <2>2
  <2>5. QED
    BY <1>3, <2>1, <2>3, <2>4
<1>10. PICK n \in {1, 2} :
         /\ n = 2 => Replace(t, <<g, e>>)
         /\ n = 1 => Replace(t, <<e>>)
         /\ n = 1 => UNCHANGED <<state, settler, reason>>
         /\ \/ SettledBy(d, how, t)
            \/ UNCHANGED <<state, settler, reason>> /\ n = 2 /\ kind[r] = "value" /\ how = "reject" /\ handler[r] = "ignore"
            \/ UNCHANGED <<state, settler, reason>> /\ n = 1 /\ kind[r] = "void" /\ (how = "resolve" \/ handler[r] = "ignore")
  <2>1. CASE SettledBy(d, f.how, t) /\ Replace(t, <<g, e>>)
    BY <2>1
  <2>2. CASE /\ UNCHANGED <<state, settler, reason>> /\ Replace(t, <<g, e>>)
             /\ kind[f.req] = "value" /\ f.how = "reject" /\ handler[f.req] = "ignore"
    BY <2>2
  <2>3. CASE /\ UNCHANGED <<state, settler, reason>> /\ Replace(t, <<e>>)
             /\ kind[f.req] = "void" /\ (f.how = "resolve" \/ handler[f.req] = "ignore")
    BY <2>3
  <2>4. QED
    BY <2>1, <2>2, <2>3 DEF Goes
<1>11. Top(t) = f /\ f.req = r /\ f.core = c /\ f.how = how
  BY DEF Goes
<1> HIDE DEF r, c, how
<1>12. None # "Pending" /\ None # "Fulfilled" /\ None # "Rejected"
  BY DEF LegalRules
<1>13. /\ state' \in [Cores -> {None, "Pending", "Fulfilled", "Rejected"}]
       /\ settler' \in [Cores -> Threads \cup {None}] /\ reason' \in [Cores -> BOOLEAN]
       /\ \A x \in Cores : x # d => state'[x] = state[x] /\ reason'[x] = reason[x]
       /\ \/ /\ state'[d] = IF how = "resolve" THEN "Fulfilled" ELSE "Rejected"
             /\ how = "reject" => reason'[d]
             /\ n = 2
          \/ /\ state'[d] = "Pending" /\ n = 2 /\ kind[r] = "value" /\ how = "reject" /\ handler[r] = "ignore"
          \/ /\ state'[d] = "Pending" /\ n = 1 /\ kind[r] = "void" /\ (how = "resolve" \/ handler[r] = "ignore")
  <2>1. /\ state \in [Cores -> {None, "Pending", "Fulfilled", "Rejected"}]
        /\ settler \in [Cores -> Threads \cup {None}] /\ reason \in [Cores -> BOOLEAN]
    BY <1>1 DEF TypeOK
  <2>2. CASE SettledBy(d, how, t)
    <3>1. /\ state' = [state EXCEPT ![d] = IF how = "resolve" THEN "Fulfilled" ELSE "Rejected"]
          /\ settler' = [settler EXCEPT ![d] = t]
          /\ reason' = [reason EXCEPT ![d] = @ \/ how = "reject"]
      BY <2>2 DEF SettledBy
    <3>2. /\ state' \in [Cores -> {None, "Pending", "Fulfilled", "Rejected"}]
          /\ state'[d] = IF how = "resolve" THEN "Fulfilled" ELSE "Rejected"
          /\ \A x \in Cores : x # d => state'[x] = state[x]
      BY <1>4, <2>1, <3>1
    <3>3. settler' \in [Cores -> Threads \cup {None}]
      BY <1>4, <2>1, <3>1
    <3>4. /\ reason' \in [Cores -> BOOLEAN] /\ (how = "reject" => reason'[d])
          /\ \A x \in Cores : x # d => reason'[x] = reason[x]
      BY <1>4, <2>1, <3>1
    <3>5. n = 2
      <4>1. n = 1 => state'[d] = state[d]
        BY <1>10
      <4>2. QED
        BY <1>3, <1>4, <1>10, <3>2, <4>1 DEF Hows
    <3>6. QED
      BY <3>2, <3>3, <3>4, <3>5
  <2>3. CASE state' = state /\ settler' = settler /\ reason' = reason /\ ~SettledBy(d, how, t)
    BY <1>4, <1>10, <2>1, <2>3
  <2>4. QED
    BY <1>10, <2>2, <2>3
<1>14. e \notin calls[t] /\ g \notin calls[t] /\ g # e /\ Waits(e)
  <2>1. e \notin ending[t] /\ g \notin looping[t]
    BY <1>3, <1>4, <1>7, <1>8
  <2>2. QED
    BY <1>7, <1>8, <2>1 DEF ending, looping, Waits
<1>15. PICK N : N = IF n = 2 THEN {g, e} ELSE {e}
  OBVIOUS
<1>16. StackInv' /\ Steps(t, f, N)
  <2>1. CASE n = 2
    BY <1>1, <1>3, <1>7, <1>8, <1>10, <1>11, <1>14, <1>15, <2>1, TwoSteps
  <2>2. CASE n = 1
    <3>1. N = {e} /\ Replace(t, <<e>>) /\ e \notin calls[t] \ {Top(t)}
      BY <1>10, <1>14, <1>15, <2>2
    <3>2. QED
      BY <1>1, <1>3, <1>8, <1>11, <3>1, OneSteps
  <2>3. QED
    BY <2>1, <2>2
<1>17. /\ settling' = settling /\ flying' = flying /\ attaching' = attaching
       /\ \A u \in Threads : \A x :
            /\ x \in calling'[u] <=> (x \in calling[u] /\ ~(u = t /\ x = f))
            /\ x \in ending'[u] <=> x \in ending[u] \/ (u = t /\ x = e)
            /\ x \in looping'[u] <=> x \in looping[u] \/ (u = t /\ x = g /\ n = 2)
  <2>1. /\ f.op = "call" /\ e.op = "called" /\ g.op = "each"
        /\ \A u \in Threads : \A x : x \in ending[u] => x.op = "called"
        /\ \A u \in Threads : \A x : x \in looping[u] => x.op = "each"
        /\ \A x : x \in N <=> x = e \/ (x = g /\ n = 2)
    BY <1>1, <1>3, <1>7, <1>8, <1>15, Sorts
  <2>2. settling' = settling /\ flying' = flying /\ attaching' = attaching
    BY <1>16, <2>1, KeptSorts
  <2>3. \A u \in Threads : \A x :
          /\ x \in calling'[u] <=>
               (x \in calling[u] /\ ~(u = t /\ x = f)) \/ (u = t /\ x \in N /\ x.op = "call")
          /\ x \in ending'[u] <=>
               (x \in ending[u] /\ ~(u = t /\ x = f)) \/ (u = t /\ x \in N /\ x.op = "called")
          /\ x \in looping'[u] <=>
               (x \in looping[u] /\ ~(u = t /\ x = f)) \/ (u = t /\ x \in N /\ x.op = "each")
    BY <1>16, Sorted
  <2>4. QED
    BY <2>1, <2>2, <2>3
<1>18. <<how>> # <<>> /\ \A x : <<x>> = <<how>> <=> x = how
  <2>1. <<how>> # <<>>
    OBVIOUS
  <2>2. ASSUME NEW x, <<x>> = <<how>> PROVE x = how
    <3>1. <<x>>[1] = x /\ <<how>>[1] = how
      OBVIOUS
    <3>2. QED
      BY <2>2, <3>1
  <2>3. QED
    BY <2>1, <2>2
<1>19. \A u \in Threads : \A x \in attaching[u] : x.core # d /\ x.core \in Cores /\ x.req \in Cores /\ x \in flying[u]
  BY <1>1, <1>4, Sorts
<1>20. \A x \in Cores : \A j \in 1..Len(requests[x]) : requests[x][j] \in Cores
  BY <1>1, Shapes
<1>21. CoreInv' /\ ListInv'
  <2>1. CoreInv'
    BY <1>1, <1>2, <1>3, <1>4, <1>9, <1>12, <1>13 DEF CoreInv
  <2>2. ListInv'
    BY <1>1, <1>2 DEF ListInv
  <2>3. QED
    BY <2>1, <2>2
<1>22. FlyingInv'
  <2>1. ASSUME NEW u \in Threads, NEW x \in flying[u]
        PROVE  state'[x.core] = state[x.core] /\ (x.op = "then" => ran'[x.req] = ran[x.req])
    <3>1. x.core \in Cores /\ x.core # d /\ x.req \in Cores
      BY <1>1, <1>4, <2>1, Sorts
    <3>2. x.op = "then" => x.req # r
      BY <1>3, <2>1
    <3>3. QED
      BY <1>9, <1>13, <3>1, <3>2
  <2>2. QED
    BY <1>1, <1>2, <1>17, <2>1 DEF FlyingInv
<1>23. ApartInv'
  BY <1>1, <1>17 DEF ApartInv
<1>24. QuietInv'
  <2>1. ASSUME NEW u \in Threads, NEW v \in Threads, NEW x \in flying[u], kind[x.core] \in Kinds
        PROVE  /\ settling[v] = {}
               /\ \A y \in looping'[v] : y.core # x.core /\ requests[y.core] = <<>>
               /\ \A y \in calling'[v] : Attach(y.core, y.req) \in attaching[v]
    <3>1. /\ settling[v] = {}
          /\ \A y \in looping[v] : y.core # x.core /\ requests[y.core] = <<>>
          /\ \A y \in calling[v] : Attach(y.core, y.req) \in attaching[v]
      BY <1>1, <2>1 DEF QuietInv
    <3>2. d # x.core /\ requests[d] = <<>>
      BY <1>3, <1>4, <1>5, <2>1
    <3>3. QED
      BY <1>7, <1>17, <3>1, <3>2
  <2>2. QED
    BY <1>2, <1>17, <2>1 DEF QuietInv
<1>25. OwnerInv'
  <2>1. ASSUME NEW u \in Threads, NEW x \in looping'[u], x.locked PROVE owner[x.core] = u
    BY <1>1, <1>7, <1>17, <2>1 DEF OwnerInv
  <2>2. ASSUME NEW u \in Threads, NEW x \in attaching[u], NEW y \in looping'[u] PROVE y.core # x.core
    BY <1>1, <1>7, <1>17, <1>19, <2>2 DEF OwnerInv
  <2>3. QED
    BY <1>1, <1>2, <1>17, <2>1, <2>2 DEF OwnerInv
<1>26. RootInv'
  <2>1. kind[d] # "root"
    BY <1>4 DEF Kinds
  <2>2. ASSUME NEW u \in Threads, NEW x \in settling[u] PROVE state'[x.core] = state[x.core]
    BY <1>1, <1>13, <2>1, <2>2, Sorts DEF RootInv
  <2>3. QED
    BY <1>1, <1>2, <1>13, <1>17, <2>1, <2>2 DEF RootInv
<1>27. LoopInv'
  <2>1. ASSUME NEW u \in Threads, NEW x \in looping'[u]
        PROVE  /\ kind[x.core] \in Attachable
               /\ \/ state'[x.core] \in {"Fulfilled", "Rejected"}
                  \/ kind[x.core] = "value" /\ ran'[x.core] # <<>>
               /\ x.locked <=> kind[x.core] = "root"
               /\ state'[x.core] \in {"Fulfilled", "Rejected"} =>
                    x.how = IF state'[x.core] = "Fulfilled" THEN "resolve" ELSE "reject"
               /\ x.k <= Len(requests[x.core]) + 1
    <3>1. CASE x \in looping[u]
      <4>1. x.core # d /\ x.core \in Cores
        BY <1>1, <1>4, <3>1, Sorts
      <4>2. state'[x.core] = state[x.core] /\ (ran[x.core] # <<>> => ran'[x.core] # <<>>)
        BY <1>9, <1>13, <1>18, <4>1
      <4>3. QED
        BY <1>1, <3>1, <4>1, <4>2 DEF LoopInv, Opened, Settled, Way
    <3>2. CASE u = t /\ x = g /\ n = 2
      <4>1. x.core = d /\ x.how = how /\ x.k = 1 /\ ~x.locked
        BY <1>7, <3>2
      <4>2. kind[d] \in Attachable /\ kind[d] # "root"
        BY <1>4 DEF Attachable, Kinds
      <4>3. \/ state'[d] \in {"Fulfilled", "Rejected"}
            \/ kind[d] = "value" /\ ran'[d] # <<>>
        <5>1. CASE state'[d] = "Pending"
          <6>1. kind[r] = "value" \/ kind[r] = "void"
            BY <1>13, <5>1
          <6>2. kind[r] = "value"
            BY <1>10, <1>13, <1>3, <3>2, <5>1, <6>1
          <6>3. d = r
            BY <1>5, <6>2
          <6>4. QED
            BY <1>9, <1>18, <6>2, <6>3
        <5>2. CASE state'[d] # "Pending"
          BY <1>13, <5>2
        <5>3. QED
          BY <5>1, <5>2
      <4>4. state'[d] \in {"Fulfilled", "Rejected"} => how = IF state'[d] = "Fulfilled" THEN "resolve" ELSE "reject"
        BY <1>3, <1>13 DEF Hows
      <4>5. 1 <= Len(requests[d]) + 1
        BY <1>1, <1>4, Shapes
      <4>6. QED
        BY <4>1, <4>2, <4>3, <4>4, <4>5
    <3>3. QED
      BY <1>17, <2>1, <3>1, <3>2
  <2>2. QED
    BY <1>2, <2>1 DEF LoopInv, Opened, Settled, Way
<1>28. OneLoopInv'
  BY <1>1, <1>4, <1>7, <1>17 DEF OneLoopInv
<1>29. \A u \in Threads : \A x \in looping[u] : \A j \in 1..Len(requests[x.core]) :
         requests[x.core][j] = r => x.how = how /\ j = x.k - 1
  <2>1. ASSUME NEW u \in Threads, NEW x \in looping[u], NEW j \in 1..Len(requests[x.core]), requests[x.core][j] = r
        PROVE  x.how = how /\ j = x.k - 1
    <3>1. x.core \in Cores
      BY <1>1, <2>1, Sorts
    <3>2. PICK y \in looping[t] : y.core = x.core /\ y.how = how /\ y.k - 1 = j
      BY <1>3, <2>1, <3>1
    <3>3. x = y
      BY <1>1, <2>1, <3>2 DEF OneLoopInv
    <3>4. QED
      BY <3>2, <3>3
  <2>2. QED
    BY <2>1
<1>30. AheadInv'
  <2>1. ASSUME NEW u \in Threads, NEW x \in looping'[u], NEW j \in 1..Len(requests[x.core]), j >= x.k
        PROVE  ran'[requests[x.core][j]] = <<>>
    <3>1. CASE x \in looping[u]
      <4>1. x.core \in Cores /\ x.k \in Nat
        BY <1>1, <3>1, Sorts
      <4>2. j # x.k - 1
        BY <2>1, <4>1
      <4>3. requests[x.core][j] \in Cores /\ requests[x.core][j] # r
        BY <1>20, <1>29, <3>1, <4>1, <4>2
      <4>4. QED
        BY <1>1, <1>9, <2>1, <3>1, <4>3 DEF AheadInv
    <3>2. CASE x.core = d
      <4>1. requests[d][j] \in Cores /\ requests[d][j] # r /\ ran[requests[d][j]] = <<>>
        BY <1>4, <1>20, <2>1, <3>2
      <4>2. QED
        BY <1>9, <3>2, <4>1
    <3>3. QED
      BY <1>7, <1>17, <2>1, <3>1, <3>2
  <2>2. QED
    BY <1>2, <2>1 DEF AheadInv
<1>31. BehindInv'
  <2>1. ASSUME NEW u \in Threads, NEW x \in looping'[u], NEW j \in 1..Len(requests[x.core]), j < x.k
        PROVE  \/ ran'[requests[x.core][j]] = <<x.how>>
               \/ j = x.k - 1 /\ Call(requests[x.core][j], x.how, x.core) \in calling'[u]
    <3>1. x \in looping[u]
      BY <1>7, <1>17, <2>1
    <3>2. x.core \in Cores /\ requests[x.core][j] \in Cores
      BY <1>1, <1>20, <3>1, Sorts
    <3>3. CASE requests[x.core][j] = r
      <4>1. x.how = how
        BY <1>29, <3>1, <3>3
      <4>2. QED
        BY <1>9, <3>3, <4>1
    <3>4. CASE requests[x.core][j] # r
      <4>1. ran'[requests[x.core][j]] = ran[requests[x.core][j]]
        BY <1>9, <3>2, <3>4
      <4>2. Call(requests[x.core][j], x.how, x.core) # f
        BY <1>11, <3>4, MadeOf
      <4>3. \/ ran[requests[x.core][j]] = <<x.how>>
            \/ j = x.k - 1 /\ Call(requests[x.core][j], x.how, x.core) \in calling[u]
        BY <1>1, <2>1, <3>1 DEF BehindInv
      <4>4. QED
        BY <1>17, <4>1, <4>2, <4>3
    <3>5. QED
      BY <3>3, <3>4
  <2>2. QED
    BY <1>2, <2>1 DEF BehindInv
<1>32. CallInv'
  <2>1. ASSUME NEW u \in Threads, NEW x \in calling'[u]
        PROVE  /\ kind[x.req] \in Hanging /\ ran'[x.req] = <<>>
               /\ \/ /\ Attach(x.core, x.req) \in attaching[u] /\ state'[x.core] \in {"Fulfilled", "Rejected"}
                     /\ x.how = IF state'[x.core] = "Fulfilled" THEN "resolve" ELSE "reject"
                  \/ \E y \in looping'[u] : /\ y.core = x.core /\ y.how = x.how
                                            /\ y.k - 1 \in 1..Len(requests[x.core])
                                            /\ requests[x.core][y.k - 1] = x.req
    <3>1. x \in calling[u] /\ x.req \in Cores /\ x.core \in Cores /\ x.req # r
      BY <1>1, <1>3, <1>17, <2>1, Sorts
    <3>2. kind[x.req] \in Hanging /\ ran'[x.req] = <<>>
      BY <1>1, <1>9, <3>1 DEF CallInv
    <3>3. CASE Attach(x.core, x.req) \in attaching[u] /\ Settled(x.core) /\ x.how = Way(x.core)
      <4>1. x.core # d
        BY <1>4, <3>3 DEF Settled
      <4>2. state'[x.core] = state[x.core]
        BY <1>13, <3>1, <4>1
      <4>3. QED
        BY <3>2, <3>3, <4>2 DEF Settled, Way
    <3>4. CASE \E y \in looping[u] : /\ y.core = x.core /\ y.how = x.how
                                     /\ y.k - 1 \in 1..Len(requests[x.core])
                                     /\ requests[x.core][y.k - 1] = x.req
      BY <1>17, <3>2, <3>4
    <3>5. QED
      BY <1>1, <3>1, <3>3, <3>4 DEF CallInv
  <2>2. QED
    BY <1>2, <1>17, <2>1 DEF CallInv, Settled, Way
<1>33. ToldInv'
  <2>1. ASSUME NEW x \in Cores, NEW j \in 1..Len(requests[x])
        PROVE  /\ /\ state'[x] \in {"Fulfilled", "Rejected"}
                  /\ ran'[requests[x][j]] # <<IF state'[x] = "Fulfilled" THEN "resolve" ELSE "reject">>
                  => \E u \in Threads : \E y \in looping'[u] : y.core = x
               /\ ~(state'[x] \in {"Fulfilled", "Rejected"} \/ (kind[x] = "value" /\ ran'[x] # <<>>)) =>
                    ran'[requests[x][j]] = <<>>
    <3>1. CASE x = d
      <4>1. state'[d] \in {"Fulfilled", "Rejected"} => g \in looping'[t] /\ g.core = d
        BY <1>7, <1>13, <1>17
      <4>2. ran'[requests[d][j]] = <<>>
        BY <1>4, <1>9, <1>20, <2>1, <3>1
      <4>3. QED
        BY <3>1, <4>1, <4>2
    <3>2. CASE x # d /\ requests[x][j] = r
      <4>1. x = c /\ \E y \in looping[t] : y.core = x /\ y.how = how
        BY <1>3, <2>1, <3>2
      <4>2. PICK y \in looping[t] : y.core = x /\ y.how = how
        BY <4>1
      <4>3. y \in looping'[t]
        BY <1>17, <4>2
      <4>4. Opened(x) /\ (Settled(x) => how = Way(x))
        BY <1>1, <4>2 DEF LoopInv
      <4>5. state'[x] = state[x] /\ (ran[x] # <<>> => ran'[x] # <<>>)
        BY <1>9, <1>13, <1>18, <2>1, <3>2
      <4>6. QED
        BY <4>2, <4>3, <4>4, <4>5 DEF Opened, Settled
    <3>3. CASE x # d /\ requests[x][j] # r
      <4>1. state'[x] = state[x] /\ (ran[x] # <<>> => ran'[x] # <<>>)
        BY <1>9, <1>13, <1>18, <2>1, <3>3
      <4>2. ran'[requests[x][j]] = ran[requests[x][j]]
        BY <1>9, <1>20, <2>1, <3>3
      <4>3. \A u \in Threads : \A y : y \in looping[u] => y \in looping'[u]
        BY <1>17
      <4>4. /\ Settled(x) /\ ran[requests[x][j]] # <<Way(x)>> =>
                 \E u \in Threads : \E y \in looping[u] : y.core = x
            /\ ~Opened(x) => ran[requests[x][j]] = <<>>
        BY <1>1, <2>1 DEF ToldInv
      <4>5. QED
        BY <4>1, <4>2, <4>3, <4>4 DEF Opened, Settled, Way
    <3>4. QED
      BY <3>1, <3>2, <3>3
  <2>2. QED
    BY <1>2, <2>1 DEF ToldInv, Opened, Settled, Way
<1>34. AttachInv'
  <2>1. ASSUME NEW u \in Threads, NEW x \in attaching[u]
        PROVE  /\ state'[x.core] = state[x.core]
               /\ Settled(x.core) => \/ ran'[x.req] = <<Way(x.core)>>
                                     \/ Call(x.req, Way(x.core), x.core) \in calling'[u]
               /\ ~Settled(x.core) => ran'[x.req] = <<>>
    <3>1. state'[x.core] = state[x.core]
      BY <1>13, <1>19, <2>1
    <3>2. CASE x.req = r
      <4>1. Settled(x.core) /\ how = Way(x.core)
        BY <1>3, <1>19, <2>1, <3>2
      <4>2. QED
        BY <1>9, <3>1, <3>2, <4>1
    <3>3. CASE x.req # r
      <4>1. ran'[x.req] = ran[x.req]
        BY <1>9, <1>19, <2>1, <3>3
      <4>2. Call(x.req, Way(x.core), x.core) # f
        BY <1>11, <3>3, MadeOf
      <4>3. /\ Settled(x.core) => \/ ran[x.req] = <<Way(x.core)>>
                                  \/ Call(x.req, Way(x.core), x.core) \in calling[u]
            /\ ~Settled(x.core) => ran[x.req] = <<>>
        BY <1>1, <2>1 DEF AttachInv
      <4>4. QED
        BY <1>17, <3>1, <4>1, <4>2, <4>3
    <3>4. QED
      BY <3>2, <3>3
  <2>2. QED
    BY <1>17, <2>1 DEF AttachInv, Settled, Way
<1>35. CountInv'
  <2>1. ASSUME NEW x \in Cores, NEW h \in Hows, counts[x][h] # 0 PROVE ran'[x] = <<h>>
    BY <1>1, <1>3, <1>9, <2>1 DEF CountInv
  <2>2. ASSUME NEW u \in Threads, NEW x \in ending'[u] PROVE ran'[x.req] = <<x.how>> /\ counts[x.req][x.how] = 0
    <3>1. CASE x \in ending[u]
      <4>1. x.req \in Cores /\ x.req # r
        BY <1>1, <1>3, <3>1, Sorts
      <4>2. QED
        BY <1>1, <1>9, <3>1, <4>1 DEF CountInv
    <3>2. CASE u = t /\ x = e
      BY <1>3, <1>8, <1>9, <3>2
    <3>3. QED
      BY <1>17, <2>2, <3>1, <3>2
  <2>3. ASSUME NEW u \in Threads, NEW v \in Threads, NEW x \in ending'[u], NEW y \in ending'[v], y.req = x.req
        PROVE  v = u /\ y = x
    BY <1>1, <1>3, <1>8, <1>17, <2>3 DEF CountInv
  <2>4. QED
    BY <1>2, <2>1, <2>2, <2>3 DEF CountInv
<1>36. RanInv'
  <2>1. ASSUME NEW x \in Cores
        PROVE  /\ ran'[x] \in {<<>>, <<"resolve">>, <<"reject">>}
               /\ kind[x] \in Kinds /\ ran'[x] = <<>> => state'[x] = "Pending"
               /\ kind[x] = "value" /\ ran'[x] = <<"resolve">> => state'[x] = "Fulfilled"
               /\ kind[x] \in Kinds /\ handler[x] = "rethrow" /\ ran'[x] = <<"reject">> =>
                    state'[x] = "Rejected" /\ reason'[x]
    <3>1. CASE x # d /\ x # r
      BY <1>1, <1>9, <1>13, <3>1 DEF RanInv
    <3>2. CASE x = d /\ x # r
      <4>1. kind[x] = "promise" /\ ran'[x] = <<"resolve">>
        BY <1>4, <1>5, <1>9, <3>2
      <4>2. <<"resolve">> # <<>> /\ <<"resolve">> # <<"reject">>
        OBVIOUS
      <4>3. QED
        BY <4>1, <4>2
    <3>3. CASE x = r /\ kind[r] = "chainer"
      <4>1. ran'[x] \in {<<"resolve">>, <<"reject">>}
        BY <1>3, <1>9, <3>3 DEF Hows
      <4>2. QED
        BY <3>3, <4>1 DEF Kinds
    <3>4. CASE x = r /\ kind[r] # "chainer"
      <4>1. d = r /\ ran'[r] = <<how>> /\ ran'[r] # <<>> /\ how \in Hows
        BY <1>3, <1>5, <1>9, <1>18, <3>4
      <4>2. /\ ran'[r] = <<"resolve">> <=> how = "resolve"
            /\ ran'[r] = <<"reject">> <=> how = "reject"
        BY <1>18, <4>1
      <4>3. kind[r] = "value" /\ how = "resolve" => state'[r] = "Fulfilled"
        BY <1>13, <4>1
      <4>4. handler[r] = "rethrow" /\ how = "reject" => state'[r] = "Rejected" /\ reason'[r]
        BY <1>13, <4>1
      <4>5. ran'[r] \in {<<>>, <<"resolve">>, <<"reject">>}
        BY <4>1, <4>2 DEF Hows
      <4>6. QED
        BY <3>4, <4>1, <4>2, <4>3, <4>4, <4>5
    <3>5. QED
      BY <3>1, <3>2, <3>3, <3>4
  <2>2. QED
    BY <1>2, <2>1 DEF RanInv
<1>37. ChainerInv'
  <2>1. ASSUME NEW q \in Cores, kind[q] = "chainer"
        PROVE  /\ kind[target[q]] = "promise" /\ ran'[target[q]] = <<"resolve">>
               /\ ran'[q] = <<>> <=> state'[target[q]] = "Pending"
    <3>1. /\ target[q] \in Cores /\ kind[target[q]] = "promise" /\ ran[target[q]] = <<"resolve">>
          /\ ran[q] = <<>> <=> state[target[q]] = "Pending"
      BY <1>1, <2>1, Shapes DEF ChainerInv
    <3>2. target[q] # r
      <4>1. <<"resolve">> # <<>>
        OBVIOUS
      <4>2. QED
        BY <1>3, <3>1, <4>1
    <3>3. ran'[target[q]] = <<"resolve">>
      BY <1>9, <3>1, <3>2
    <3>4. CASE q = r
      <4>1. target[q] = d /\ ran'[q] # <<>>
        BY <1>6, <1>9, <1>18, <2>1, <3>4
      <4>2. state'[d] # "Pending"
        BY <1>13, <2>1, <3>4
      <4>3. QED
        BY <3>1, <3>3, <4>1, <4>2
    <3>5. CASE q # r
      <4>1. target[q] # d
        BY <1>1, <1>3, <1>5, <1>6, <2>1, <3>2, <3>5 DEF ChainerInv
      <4>2. QED
        BY <1>9, <1>13, <2>1, <3>1, <3>3, <3>5, <4>1
    <3>6. QED
      BY <3>4, <3>5
  <2>2. QED
    BY <1>1, <1>2, <2>1 DEF ChainerInv
<1>38. RoomInv'
  <2>1. NumCores \in Nat
    BY DEF LegalRules
  <2>2. /\ IsFiniteSet(promised) /\ Cardinality(promised) \in Nat /\ Cardinality(Free) \in Nat
        /\ Reserved = 2 * Cardinality(promised)
    BY <2>1, FiniteSets
  <2>3. Reserved' = 2 * Cardinality(promised')
    <3>1. promised' = {x \in Cores : request'[x].kind = "promise" /\ ran'[x] = <<>>}
      BY DEF promised, kind
    <3>2. QED
      BY <3>1 DEF Reserved
  <2>4. Free' = Free
    <3>1. state'[d] # None
      BY <1>12, <1>13
    <3>2. QED
      BY <1>4, <1>12, <1>13, <3>1 DEF Free
  <2>5. promised' \subseteq promised
    BY <1>2, <1>3, <1>9, <1>18 DEF promised
  <2>6. Cardinality(promised') <= Cardinality(promised) /\ Cardinality(promised') \in Nat
    BY <2>2, <2>5, FS_Subset, FS_CardinalityType
  <2>7. QED
    BY <1>1, <2>2, <2>3, <2>4, <2>6 DEF RoomInv
<1>39. TypeOK' /\ NoErrors'
  BY <1>1, <1>2, <1>9, <1>13 DEF TypeOK, NoErrors, Hows
<1>40. QED
  BY <1>16, <1>21, <1>22, <1>23, <1>24, <1>25, <1>26, <1>27, <1>28, <1>30, <1>31, <1>32, <1>33, <1>34,
     <1>35, <1>36, <1>37, <1>38, <1>39 DEF IInv


-----------------------------------------------------------------------------
(* A callback that returns a promise.                                      *)

\* Where a request that is in a list is called from, once more for a loop.
LEMMA RunningLoop ==
  ASSUME LegalRules, IInv, NEW t \in Threads, At(t, "call"), NEW f, f = Top(t)
  PROVE  \A u \in Threads : \A x \in looping[u] : \A j \in 1..Len(requests[x.core]) :
           requests[x.core][j] = f.req => x.how = f.how /\ j = x.k - 1
<1>1. ASSUME NEW u \in Threads, NEW x \in looping[u], NEW j \in 1..Len(requests[x.core]),
             requests[x.core][j] = f.req
      PROVE  x.how = f.how /\ j = x.k - 1
  <2>1. TypeOK /\ StackInv /\ OneLoopInv
    BY DEF IInv
  <2>2. x.core \in Cores
    BY <2>1, Sorts
  <2>3. \E e \in looping[t] : e.core = x.core /\ e.how = f.how /\ e.k - 1 = j
    BY <1>1, <2>2, Running
  <2>4. PICK y \in looping[t] : y.core = x.core /\ y.how = f.how /\ y.k - 1 = j
    BY <2>3
  <2>5. x = y
    BY <2>1, <2>4 DEF OneLoopInv
  <2>6. QED
    BY <2>4, <2>5
<1>2. QED
  BY <1>1

\* There is room for the two promises that it makes.
LEMMA TwoFree ==
  ASSUME LegalRules, IInv, NEW r \in promised, NEW i, i = Least(Free), NEW p, p = Least(Free \ {i})
  PROVE  i \in Free /\ p \in Free /\ p # i
<1>1. NumCores \in Nat
  BY DEF LegalRules
<1>2. /\ IsFiniteSet(Free) /\ Cardinality(Free) \in Nat
      /\ IsFiniteSet(promised) /\ Cardinality(promised) \in Nat
      /\ Reserved = 2 * Cardinality(promised)
  BY <1>1, FiniteSets
<1>3. Cardinality(promised) # 0
  BY <1>2, FS_EmptySet
<1>4. Cardinality(Free) >= 2
  BY <1>2, <1>3 DEF IInv, RoomInv
<1>5. Free \subseteq Cores
  BY DEF Free
<1>6. Free # {}
  BY <1>4, FS_EmptySet
<1>7. i \in Free
  BY <1>1, <1>5, <1>6, LeastIn
<1>8. Cardinality(Free \ {i}) = Cardinality(Free) - 1
  BY <1>2, <1>7, FS_RemoveElement
<1>9. Free \ {i} # {}
  <2>1. Cardinality(Free \ {i}) # 0
    BY <1>2, <1>4, <1>8
  <2>2. QED
    BY <2>1, FS_EmptySet
<1>10. p \in Free \ {i}
  BY <1>1, <1>5, <1>9, LeastIn
<1>11. QED
  BY <1>7, <1>10

\* The step, with names for its parts: f is the call, i the promise that the callback
\* returned, p what then made for the chainer.
Returns(t, f, i, p, g, e) ==
  /\ f = Top(t) /\ f.how = "resolve" /\ kind[f.req] = "promise"
  /\ i = Least(Free) /\ p = Least(Free \ {i})
  /\ g \in Frames /\ g.op = "then" /\ g.core = i /\ g.req = p
  /\ e \in Frames /\ e.op = "called" /\ e.req = f.req /\ e.how = f.how
  /\ state' = [state EXCEPT ![i] = "Pending", ![p] = "Pending"]
  /\ request' = [request EXCEPT ![i].kind = "root",
                   ![p] = [kind |-> "chainer", handler |-> "ignore", target |-> f.req]]
  /\ ran' = [ran EXCEPT ![f.req] = Append(@, f.how)]
  /\ Replace(t, <<g, e>>)
  /\ UNCHANGED <<owner, settler, reason, requests, counts, failed, begun>>

LEMMA ReturnsStep ==
  ASSUME LegalRules, IInv, NEW t \in Threads, At(t, "call"), NEW f, NEW i, NEW p, NEW g, NEW e,
         Returns(t, f, i, p, g, e)
  PROVE  IInv'
<1> DEFINE r == f.req
           c == f.core
           how == f.how
<1>1. /\ TypeOK /\ StackInv /\ CoreInv /\ ListInv /\ FlyingInv /\ ApartInv /\ QuietInv /\ OwnerInv
      /\ RootInv /\ LoopInv /\ OneLoopInv /\ AheadInv /\ BehindInv /\ CallInv /\ ToldInv /\ AttachInv
      /\ CountInv /\ RanInv /\ ChainerInv /\ RoomInv /\ NoErrors
  BY DEF IInv
<1>2. /\ owner' = owner /\ settler' = settler /\ reason' = reason /\ requests' = requests
      /\ counts' = counts /\ failed' = failed /\ begun' = begun
  BY DEF Returns
<1>3. /\ ~Idle(t) /\ f \in calling[t] /\ f.op = "call" /\ f = Call(r, how, c)
      /\ r \in Cores /\ how \in Hows /\ c \in Cores /\ settling[t] = {}
      /\ kind[r] \in Hanging /\ ran[r] = <<>>
      /\ \A x \in Cores : \A j \in 1..Len(requests[x]) : requests[x][j] = r =>
           x = c /\ \E y \in looping[t] : y.core = x /\ y.how = how /\ y.k - 1 = j
      /\ \A u \in Threads : \A x \in flying[u] : x.req = r =>
           x.op = "attach" /\ x.core = c /\ Settled(c) /\ how = Way(c)
      /\ \A u \in Threads : \A x \in calling[u] : x.req = r => u = t /\ x = f
      /\ \A u \in Threads : \A x \in ending[u] : x.req # r
      /\ \A h \in Hows : counts[r][h] = 0
  BY Running DEF Returns
<1>4. how = "resolve" /\ kind[r] = "promise" /\ state[r] = "Pending"
  BY <1>1, <1>3 DEF Returns, RanInv, Kinds
<1>5. i \in Free /\ p \in Free /\ p # i
  <2>1. r \in promised
    BY <1>3, <1>4 DEF promised
  <2>2. i = Least(Free) /\ p = Least(Free \ {i})
    BY DEF Returns
  <2>3. QED
    BY <2>1, <2>2, TwoFree
<1>6. i \in Cores /\ p \in Cores /\ state[i] = None /\ state[p] = None
  BY <1>5 DEF Free
<1>7. g \in Frames /\ g.op = "then" /\ g.core = i /\ g.req = p
  BY DEF Returns
<1>8. e \in Frames /\ e.op = "called" /\ e.req = r /\ e.how = how
  BY DEF Returns
<1>9. /\ ran' \in [Cores -> Seq(Hows)] /\ ran'[r] = <<how>>
      /\ \A x \in Cores : x # r => ran'[x] = ran[x]
  <2>1. ran \in [Cores -> Seq(Hows)]
    BY <1>1 DEF TypeOK, Hows
  <2>2. Append(ran[r], how) = <<how>> /\ ran' = [ran EXCEPT ![r] = Append(@, how)]
    BY <1>3 DEF Returns
  <2>3. <<how>> \in Seq(Hows)
    BY <1>3
  <2>4. ran' = [ran EXCEPT ![r] = <<how>>]
    BY <2>2
  <2>5. QED
    BY <1>3, <2>1, <2>3, <2>4
<1>10. Replace(t, <<g, e>>) /\ Top(t) = f /\ f.req = r /\ f.core = c /\ f.how = how
  BY DEF Returns
<1>11. None # "Pending" /\ None # "Fulfilled" /\ None # "Rejected"
  BY DEF LegalRules
<1>12. r # i /\ r # p
  BY <1>4, <1>6, <1>11
<1>13. /\ state' \in [Cores -> {None, "Pending", "Fulfilled", "Rejected"}]
       /\ state'[i] = "Pending" /\ state'[p] = "Pending"
       /\ \A x \in Cores : x # i /\ x # p => state'[x] = state[x]
  <2>1. state \in [Cores -> {None, "Pending", "Fulfilled", "Rejected"}]
    BY <1>1 DEF TypeOK
  <2>2. state' = [state EXCEPT ![i] = "Pending", ![p] = "Pending"]
    BY DEF Returns
  <2>3. QED
    BY <1>6, <2>1, <2>2
<1>14. /\ request' \in [Cores -> [kind : Kinds \cup {"root", "none", "chainer"},
                                  handler : Handlers, target : Cores]]
       /\ kind'[i] = "root" /\ kind'[p] = "chainer" /\ target'[p] = r
       /\ \A x \in Cores : x # i /\ x # p =>
            kind'[x] = kind[x] /\ handler'[x] = handler[x] /\ target'[x] = target[x]
  <2>1. request \in [Cores -> [kind : Kinds \cup {"root", "none", "chainer"},
                               handler : Handlers, target : Cores]]
    BY <1>1 DEF TypeOK
  <2>2. request' = [request EXCEPT ![i].kind = "root",
                      ![p] = [kind |-> "chainer", handler |-> "ignore", target |-> r]]
    BY DEF Returns
  <2>3. PICK q : q = [request[i] EXCEPT !.kind = "root"]
    OBVIOUS
  <2>4. q \in [kind : Kinds \cup {"root", "none", "chainer"}, handler : Handlers, target : Cores]
        /\ q.kind = "root"
    BY <1>6, <2>1, <2>3
  <2>5. PICK m : m = [kind |-> "chainer", handler |-> "ignore", target |-> r]
    OBVIOUS
  <2>6. m \in [kind : Kinds \cup {"root", "none", "chainer"}, handler : Handlers, target : Cores]
        /\ m.kind = "chainer" /\ m.target = r
    BY <1>3, <2>5 DEF Handlers
  <2>7. request' = [request EXCEPT ![i] = q, ![p] = m]
    BY <2>2, <2>3, <2>5
  <2> HIDE DEF r
  <2>8. /\ request' \in [Cores -> [kind : Kinds \cup {"root", "none", "chainer"},
                                   handler : Handlers, target : Cores]]
        /\ request'[i] = q /\ request'[p] = m
        /\ \A x \in Cores : x # i /\ x # p => request'[x] = request[x]
    BY <1>5, <1>6, <2>1, <2>4, <2>6, <2>7
  <2>9. QED
    BY <1>6, <2>4, <2>6, <2>8 DEF kind, handler, target
<1> HIDE DEF r, c, how
<1>15. \A d \in {i, p} :
         /\ d \in Cores
         /\ kind[d] = "none" /\ requests[d] = <<>> /\ ran[d] = <<>> /\ d \notin begun /\ d > NumRoots
         /\ \A x \in Cores : \A j \in 1..Len(requests[x]) : requests[x][j] # d
         /\ \A u \in Threads : \A x \in flying[u] : x.core # d /\ x.req # d
         /\ \A u \in Threads : \A x \in settling[u] : x.core # d
         /\ \A u \in Threads : \A x \in looping[u] : x.core # d
         /\ \A u \in Threads : \A x \in calling[u] : x.core # d /\ x.req # d
         /\ \A u \in Threads : \A x \in ending[u] : x.req # d
         /\ \A q \in Cores : kind[q] = "chainer" => target[q] # d
  BY <1>6, Fresh
<1>16. e \notin calls[t] /\ g \notin calls[t] /\ g # e /\ Waits(e)
  <2>1. e \notin ending[t] /\ g \notin flying[t]
    BY <1>3, <1>7, <1>8, <1>15
  <2>2. QED
    BY <1>7, <1>8, <2>1 DEF ending, flying, Waits
<1>17. PICK N : N = {g, e}
  OBVIOUS
<1>18. StackInv' /\ Steps(t, f, N)
  BY <1>1, <1>3, <1>7, <1>8, <1>10, <1>16, <1>17, TwoSteps
<1>19. /\ settling' = settling /\ looping' = looping /\ attaching' = attaching
       /\ \A u \in Threads : \A x :
            /\ x \in calling'[u] <=> (x \in calling[u] /\ ~(u = t /\ x = f))
            /\ x \in ending'[u] <=> x \in ending[u] \/ (u = t /\ x = e)
            /\ x \in flying'[u] <=> x \in flying[u] \/ (u = t /\ x = g)
  <2>1. /\ f.op = "call" /\ e.op = "called" /\ g.op = "then"
        /\ \A u \in Threads : \A x : x \in ending[u] => x.op = "called"
        /\ \A u \in Threads : \A x : x \in flying[u] => x.op \in {"then", "attach"}
        /\ \A x : x \in N <=> x = e \/ x = g
    BY <1>1, <1>3, <1>7, <1>8, <1>17, Sorts
  <2>2. settling' = settling /\ looping' = looping /\ attaching' = attaching
    BY <1>18, <2>1, KeptSorts
  <2>3. \A u \in Threads : \A x :
          /\ x \in calling'[u] <=>
               (x \in calling[u] /\ ~(u = t /\ x = f)) \/ (u = t /\ x \in N /\ x.op = "call")
          /\ x \in ending'[u] <=>
               (x \in ending[u] /\ ~(u = t /\ x = f)) \/ (u = t /\ x \in N /\ x.op = "called")
          /\ x \in flying'[u] <=>
               (x \in flying[u] /\ ~(u = t /\ x = f)) \/ (u = t /\ x \in N /\ x.op \in {"then", "attach"})
    BY <1>18, Sorted
  <2>4. QED
    BY <2>1, <2>2, <2>3
<1>20. <<how>> # <<>> /\ \A x : <<x>> = <<how>> <=> x = how
  <2>1. <<how>> # <<>>
    OBVIOUS
  <2>2. QED
    BY <2>1
<1>21. \A x \in Cores : x # i /\ x # p =>
         /\ kind'[x] = kind[x] /\ handler'[x] = handler[x] /\ target'[x] = target[x]
         /\ state'[x] = state[x]
  BY <1>13, <1>14
<1>22. \A x \in Cores : \A j \in 1..Len(requests[x]) :
         /\ x # i /\ x # p /\ requests[x][j] \in Cores /\ requests[x][j] # i /\ requests[x][j] # p
  <2>1. ASSUME NEW x \in Cores, NEW j \in 1..Len(requests[x])
        PROVE  x # i /\ x # p /\ requests[x][j] \in Cores /\ requests[x][j] # i /\ requests[x][j] # p
    <3>1. Len(requests[x]) # 0
      BY <1>1, <2>1, Shapes
    <3>2. requests[x] # <<>> /\ requests[x][j] \in Cores
      BY <1>1, <2>1, <3>1, Shapes
    <3>3. QED
      BY <1>15, <2>1, <3>2
  <2>2. QED
    BY <2>1
<1>23. CoreInv'
  <2>1. ASSUME NEW x \in Cores
        PROVE  /\ state'[x] = None <=> kind'[x] = "none"
               /\ x <= NumRoots => kind'[x] = "root"
               /\ requests[x] # <<>> => kind'[x] \in Attachable
               /\ kind'[x] \notin Hanging => ran'[x] = <<>>
               /\ kind'[x] # "root" => x \notin begun
               /\ kind'[x] = "promise" => handler'[x] = "rethrow"
    <3>1. CASE x = i
      BY <1>9, <1>11, <1>12, <1>13, <1>14, <1>15, <3>1
    <3>2. CASE x = p
      <4>1. p > NumRoots => ~(p <= NumRoots)
        BY <1>6 DEF LegalRules, Cores
      <4>2. QED
        BY <1>11, <1>13, <1>14, <1>15, <3>2, <4>1 DEF Hanging
    <3>3. CASE x = r
      BY <1>1, <1>3, <1>4, <1>12, <1>21, <3>3 DEF CoreInv
    <3>4. CASE x # i /\ x # p /\ x # r
      BY <1>1, <1>9, <1>21, <3>4 DEF CoreInv
    <3>5. QED
      BY <3>1, <3>2, <3>3, <3>4
  <2>2. QED
    BY <1>2, <2>1 DEF CoreInv
<1>24. ListInv'
  <2>1. \A x \in Cores : \A j \in 1..Len(requests[x]) : kind'[requests[x][j]] \in Hanging
    BY <1>1, <1>21, <1>22 DEF ListInv
  <2>2. QED
    BY <1>1, <1>2, <2>1 DEF ListInv
<1>25. \A u \in Threads : \A x \in flying[u] :
         /\ x.core \in Cores /\ x.req \in Cores /\ x.core # i /\ x.core # p /\ x.req # i /\ x.req # p
  BY <1>1, <1>15, Sorts
<1>26. FlyingInv'
  <2>1. ASSUME NEW u \in Threads, NEW x \in flying'[u]
        PROVE  /\ kind'[x.core] \in Attachable /\ kind'[x.req] \in Hanging
               /\ requests[x.req] = <<>>
               /\ \A d \in Cores : \A j \in 1..Len(requests[d]) : requests[d][j] # x.req
               /\ x.op = "then" => ran'[x.req] = <<>>
               /\ kind'[x.req] = "chainer" =>
                    x.core > NumRoots /\ kind'[x.core] = "root" /\ state'[x.core] = "Pending" /\ x.core \notin begun
    <3>1. CASE x \in flying[u]
      <4>1. x.op = "then" => ran'[x.req] = ran[x.req]
        BY <1>3, <1>9, <1>25, <3>1
      <4>2. kind'[x.core] = kind[x.core] /\ kind'[x.req] = kind[x.req] /\ state'[x.core] = state[x.core]
        BY <1>21, <1>25, <3>1
      <4>3. QED
        BY <1>1, <3>1, <4>1, <4>2 DEF FlyingInv
    <3>2. CASE u = t /\ x = g
      <4>1. x.core = i /\ x.req = p /\ ran'[p] = <<>>
        BY <1>7, <1>9, <1>12, <1>15, <3>2
      <4>2. QED
        BY <1>13, <1>14, <1>15, <4>1 DEF Attachable, Hanging
    <3>3. QED
      BY <1>19, <2>1, <3>1, <3>2
  <2>2. QED
    BY <1>2, <2>1 DEF FlyingInv
<1>27. ApartInv'
  <2>1. ASSUME NEW u \in Threads, NEW v \in Threads, NEW x \in flying'[u], NEW y \in flying'[v]
        PROVE  y.core # x.req /\ (y.req = x.req => v = u /\ y = x)
    <3>1. CASE x \in flying[u] /\ y \in flying[v]
      BY <1>1, <3>1 DEF ApartInv
    <3>2. CASE u = t /\ x = g /\ y \in flying[v]
      BY <1>7, <1>25, <3>2
    <3>3. CASE x \in flying[u] /\ v = t /\ y = g
      BY <1>7, <1>25, <3>3
    <3>4. CASE u = t /\ x = g /\ v = t /\ y = g
      BY <1>5, <1>7, <3>4
    <3>5. QED
      BY <1>19, <2>1, <3>1, <3>2, <3>3, <3>4
  <2>2. QED
    BY <2>1 DEF ApartInv
<1>28. QuietInv'
  <2>1. ASSUME NEW u \in Threads, NEW v \in Threads, NEW x \in flying'[u], kind'[x.core] \in Kinds
        PROVE  /\ settling[v] = {}
               /\ \A y \in looping[v] : y.core # x.core /\ requests[y.core] = <<>>
               /\ \A y \in calling'[v] : Attach(y.core, y.req) \in attaching[v]
    <3>1. x \in flying[u]
      BY <1>7, <1>14, <1>19, <2>1 DEF Kinds
    <3>2. kind[x.core] \in Kinds
      BY <1>21, <1>25, <2>1, <3>1
    <3>3. QED
      BY <1>1, <1>19, <3>1, <3>2 DEF QuietInv
  <2>2. QED
    BY <1>2, <1>19, <2>1 DEF QuietInv
<1>29. OwnerInv' /\ OneLoopInv'
  BY <1>1, <1>2, <1>19 DEF OwnerInv, OneLoopInv
<1>30. RootInv'
  <2>1. ASSUME NEW x \in Cores, kind'[x] = "root", state'[x] # "Pending" PROVE x \in begun
    BY <1>1, <1>13, <1>21, <2>1 DEF RootInv
  <2>2. ASSUME NEW u \in Threads, NEW x \in settling[u]
        PROVE  kind'[x.core] = "root" /\ state'[x.core] = "Pending" /\ x.core \in begun
    <3>1. x.core \in Cores /\ x.core # i /\ x.core # p
      BY <1>1, <1>15, <2>2, Sorts
    <3>2. QED
      BY <1>1, <1>21, <2>2, <3>1 DEF RootInv
  <2>3. QED
    BY <1>1, <1>2, <1>19, <2>1, <2>2 DEF RootInv
<1>31. LoopInv'
  <2>1. ASSUME NEW u \in Threads, NEW x \in looping[u]
        PROVE  /\ kind'[x.core] = kind[x.core] /\ state'[x.core] = state[x.core]
               /\ ran[x.core] # <<>> => ran'[x.core] # <<>>
    <3>1. x.core \in Cores /\ x.core # i /\ x.core # p
      BY <1>1, <1>15, <2>1, Sorts
    <3>2. QED
      BY <1>9, <1>20, <1>21, <3>1
  <2>2. QED
    BY <1>1, <1>2, <1>19, <2>1 DEF LoopInv, Opened, Settled, Way
<1>32. \A u \in Threads : \A x \in looping[u] : \A j \in 1..Len(requests[x.core]) :
         requests[x.core][j] = r => x.how = how /\ j = x.k - 1
  BY <1>10, RunningLoop
<1>33. AheadInv'
  <2>1. ASSUME NEW u \in Threads, NEW x \in looping[u], NEW j \in 1..Len(requests[x.core]), j >= x.k
        PROVE  ran'[requests[x.core][j]] = <<>>
    <3>1. x.core \in Cores /\ x.k \in Nat
      BY <1>1, <2>1, Sorts
    <3>2. j # x.k - 1
      BY <2>1, <3>1
    <3>3. requests[x.core][j] \in Cores /\ requests[x.core][j] # r
      BY <1>22, <1>32, <2>1, <3>1, <3>2
    <3>4. QED
      BY <1>1, <1>9, <2>1, <3>3 DEF AheadInv
  <2>2. QED
    BY <1>2, <1>19, <2>1 DEF AheadInv
<1>34. BehindInv'
  <2>1. ASSUME NEW u \in Threads, NEW x \in looping[u], NEW j \in 1..Len(requests[x.core]), j < x.k
        PROVE  \/ ran'[requests[x.core][j]] = <<x.how>>
               \/ j = x.k - 1 /\ Call(requests[x.core][j], x.how, x.core) \in calling'[u]
    <3>1. x.core \in Cores
      BY <1>1, <2>1, Sorts
    <3>2. requests[x.core][j] \in Cores
      BY <1>22, <2>1, <3>1
    <3>3. CASE requests[x.core][j] = r
      <4>1. x.how = how
        BY <1>32, <2>1, <3>3
      <4>2. QED
        BY <1>9, <3>3, <4>1
    <3>4. CASE requests[x.core][j] # r
      <4>1. ran'[requests[x.core][j]] = ran[requests[x.core][j]]
        BY <1>9, <3>2, <3>4
      <4>2. Call(requests[x.core][j], x.how, x.core) # f
        BY <1>10, <3>4, MadeOf
      <4>3. \/ ran[requests[x.core][j]] = <<x.how>>
            \/ j = x.k - 1 /\ Call(requests[x.core][j], x.how, x.core) \in calling[u]
        BY <1>1, <2>1 DEF BehindInv
      <4>4. QED
        BY <1>19, <4>1, <4>2, <4>3
    <3>5. QED
      BY <3>3, <3>4
  <2>2. QED
    BY <1>2, <1>19, <2>1 DEF BehindInv
<1>35. CallInv'
  <2>1. ASSUME NEW u \in Threads, NEW x \in calling'[u]
        PROVE  /\ x \in calling[u] /\ ran'[x.req] = <<>>
               /\ kind'[x.req] = kind[x.req] /\ state'[x.core] = state[x.core]
    <3>1. x \in calling[u] /\ x.req \in Cores /\ x.core \in Cores /\ x.req # r
      BY <1>1, <1>3, <1>19, <2>1, Sorts
    <3>2. x.req # i /\ x.req # p /\ x.core # i /\ x.core # p
      BY <1>15, <3>1
    <3>3. ran[x.req] = <<>>
      BY <1>1, <3>1 DEF CallInv
    <3>4. QED
      BY <1>9, <1>21, <3>1, <3>2, <3>3
  <2>2. QED
    BY <1>1, <1>2, <1>19, <2>1 DEF CallInv, Settled, Way
<1>36. ToldInv'
  <2>1. ASSUME NEW x \in Cores, NEW j \in 1..Len(requests[x])
        PROVE  /\ state'[x] = state[x] /\ kind'[x] = kind[x]
               /\ /\ Settled(x)
                  /\ ran'[requests[x][j]] # <<Way(x)>>
                  => \E u \in Threads : \E y \in looping[u] : y.core = x
               /\ ~(Settled(x) \/ (kind[x] = "value" /\ ran'[x] # <<>>)) => ran'[requests[x][j]] = <<>>
    <3>1. /\ state'[x] = state[x] /\ kind'[x] = kind[x] /\ requests[x][j] \in Cores
          /\ ran[x] # <<>> => ran'[x] # <<>>
      BY <1>9, <1>20, <1>21, <1>22, <2>1
    <3>2. CASE requests[x][j] = r
      <4>1. PICK y \in looping[t] : y.core = x /\ y.how = how
        BY <1>3, <2>1, <3>2
      <4>2. Opened(x)
        BY <1>1, <4>1 DEF LoopInv
      <4>3. QED
        BY <3>1, <4>1, <4>2 DEF Opened
    <3>3. CASE requests[x][j] # r
      <4>1. ran'[requests[x][j]] = ran[requests[x][j]]
        BY <1>9, <3>1, <3>3
      <4>2. /\ Settled(x) /\ ran[requests[x][j]] # <<Way(x)>> =>
                 \E u \in Threads : \E y \in looping[u] : y.core = x
            /\ ~Opened(x) => ran[requests[x][j]] = <<>>
        BY <1>1, <2>1 DEF ToldInv
      <4>3. QED
        BY <3>1, <4>1, <4>2 DEF Opened
    <3>4. QED
      BY <3>2, <3>3
  <2>2. QED
    BY <1>2, <1>19, <2>1 DEF ToldInv, Opened, Settled, Way
<1>37. AttachInv'
  <2>1. ASSUME NEW u \in Threads, NEW x \in attaching[u]
        PROVE  /\ state'[x.core] = state[x.core]
               /\ Settled(x.core) => \/ ran'[x.req] = <<Way(x.core)>>
                                     \/ Call(x.req, Way(x.core), x.core) \in calling'[u]
               /\ ~Settled(x.core) => ran'[x.req] = <<>>
    <3>1. x \in flying[u]
      BY <1>1, <2>1, Sorts
    <3>2. state'[x.core] = state[x.core] /\ x.req \in Cores
      BY <1>21, <1>25, <3>1
    <3>3. CASE x.req = r
      <4>1. Settled(x.core) /\ how = Way(x.core)
        BY <1>3, <3>1, <3>3
      <4>2. QED
        BY <1>9, <3>2, <3>3, <4>1
    <3>4. CASE x.req # r
      <4>1. ran'[x.req] = ran[x.req]
        BY <1>9, <3>2, <3>4
      <4>2. Call(x.req, Way(x.core), x.core) # f
        BY <1>10, <3>4, MadeOf
      <4>3. /\ Settled(x.core) => \/ ran[x.req] = <<Way(x.core)>>
                                  \/ Call(x.req, Way(x.core), x.core) \in calling[u]
            /\ ~Settled(x.core) => ran[x.req] = <<>>
        BY <1>1, <2>1 DEF AttachInv
      <4>4. QED
        BY <1>19, <3>2, <4>1, <4>2, <4>3
    <3>5. QED
      BY <3>3, <3>4
  <2>2. QED
    BY <1>19, <2>1 DEF AttachInv, Settled, Way
<1>38. CountInv'
  <2>1. ASSUME NEW x \in Cores, NEW h \in Hows, counts[x][h] # 0 PROVE ran'[x] = <<h>>
    BY <1>1, <1>3, <1>9, <2>1 DEF CountInv
  <2>2. ASSUME NEW u \in Threads, NEW x \in ending'[u] PROVE ran'[x.req] = <<x.how>> /\ counts[x.req][x.how] = 0
    <3>1. CASE x \in ending[u]
      <4>1. x.req \in Cores /\ x.req # r
        BY <1>1, <1>3, <3>1, Sorts
      <4>2. QED
        BY <1>1, <1>9, <3>1, <4>1 DEF CountInv
    <3>2. CASE u = t /\ x = e
      BY <1>3, <1>8, <1>9, <3>2
    <3>3. QED
      BY <1>19, <2>2, <3>1, <3>2
  <2>3. ASSUME NEW u \in Threads, NEW v \in Threads, NEW x \in ending'[u], NEW y \in ending'[v], y.req = x.req
        PROVE  v = u /\ y = x
    BY <1>1, <1>3, <1>8, <1>19, <2>3 DEF CountInv
  <2>4. QED
    BY <1>2, <2>1, <2>2, <2>3 DEF CountInv
<1>39. RanInv'
  <2>1. ASSUME NEW x \in Cores
        PROVE  /\ ran'[x] \in {<<>>, <<"resolve">>, <<"reject">>}
               /\ kind'[x] \in Kinds /\ ran'[x] = <<>> => state'[x] = "Pending"
               /\ kind'[x] = "value" /\ ran'[x] = <<"resolve">> => state'[x] = "Fulfilled"
               /\ kind'[x] \in Kinds /\ handler'[x] = "rethrow" /\ ran'[x] = <<"reject">> =>
                    state'[x] = "Rejected" /\ reason[x]
    <3>1. CASE x = r
      <4>1. ran'[x] = <<"resolve">> /\ kind'[x] = "promise"
        BY <1>4, <1>9, <1>12, <1>21, <2>1, <3>1
      <4>2. <<"resolve">> # <<>> /\ <<"resolve">> # <<"reject">>
        OBVIOUS
      <4>3. QED
        BY <4>1, <4>2
    <3>2. CASE x = i \/ x = p
      <4>1. ran'[x] = <<>> /\ state'[x] = "Pending"
        BY <1>9, <1>12, <1>13, <1>15, <3>2
      <4>2. <<"resolve">> # <<>> /\ <<>> # <<"reject">>
        OBVIOUS
      <4>3. QED
        BY <4>1, <4>2
    <3>3. CASE x # i /\ x # p /\ x # r
      BY <1>1, <1>9, <1>21, <3>3 DEF RanInv
    <3>4. QED
      BY <3>1, <3>2, <3>3
  <2>2. QED
    BY <1>2, <2>1 DEF RanInv
<1>40. ChainerInv'
  <2>1. \A q \in Cores : kind[q] = "chainer" =>
          /\ target[q] \in Cores /\ target[q] # r /\ target[q] # i /\ target[q] # p /\ q # i /\ q # p /\ q # r
    <3>1. ASSUME NEW q \in Cores, kind[q] = "chainer"
          PROVE  target[q] \in Cores /\ target[q] # r /\ target[q] # i /\ target[q] # p /\ q # i /\ q # p /\ q # r
      <4>1. target[q] \in Cores /\ ran[target[q]] = <<"resolve">>
        BY <1>1, <3>1, Shapes DEF ChainerInv
      <4>2. <<"resolve">> # <<>>
        OBVIOUS
      <4>3. QED
        BY <1>3, <1>4, <1>15, <3>1, <4>1, <4>2
    <3>2. QED
      BY <3>1
  <2>2. ASSUME NEW q \in Cores, kind'[q] = "chainer"
        PROVE  /\ kind'[target'[q]] = "promise" /\ ran'[target'[q]] = <<"resolve">>
               /\ ran'[q] = <<>> <=> state'[target'[q]] = "Pending"
    <3>1. CASE q = p
      BY <1>4, <1>9, <1>12, <1>3, <1>14, <1>15, <1>21, <3>1
    <3>2. CASE q # p
      <4>1. kind[q] = "chainer" /\ q # i
        BY <1>14, <1>21, <2>2, <3>2
      <4>2. target'[q] = target[q] /\ q # r
        BY <1>21, <2>1, <3>2, <4>1
      <4>3. PICK o : o = target[q]
        OBVIOUS
      <4>4. o \in Cores /\ o # r /\ o # i /\ o # p /\ target'[q] = o
        BY <2>1, <4>1, <4>2, <4>3
      <4>5. kind[o] = "promise" /\ ran[o] = <<"resolve">> /\ (ran[q] = <<>> <=> state[o] = "Pending")
        BY <1>1, <4>1, <4>3 DEF ChainerInv
      <4>6. kind'[o] = "promise" /\ ran'[o] = <<"resolve">> /\ state'[o] = state[o] /\ ran'[q] = ran[q]
        BY <1>9, <1>21, <4>2, <4>4, <4>5
      <4>7. QED
        BY <4>4, <4>5, <4>6
    <3>3. QED
      BY <3>1, <3>2
  <2>3. ASSUME NEW q \in Cores, NEW o \in Cores,
               kind'[q] = "chainer", kind'[o] = "chainer", target'[o] = target'[q]
        PROVE  o = q
    <3>1. ASSUME NEW x \in Cores, kind'[x] = "chainer"
          PROVE  x = p \/ (kind[x] = "chainer" /\ target'[x] = target[x] /\ target[x] # r)
      BY <1>14, <1>21, <2>1, <3>1
    <3>2. QED
      BY <1>1, <1>14, <2>3, <3>1 DEF ChainerInv
  <2>4. QED
    BY <2>2, <2>3 DEF ChainerInv
<1>41. RoomInv'
  <2>1. /\ IsFiniteSet(Free) /\ Cardinality(Free) \in Nat
        /\ IsFiniteSet(promised) /\ Cardinality(promised) \in Nat
        /\ Reserved = 2 * Cardinality(promised)
    BY FiniteSets DEF LegalRules
  <2>2. Reserved' = 2 * Cardinality(promised')
    <3>1. promised' = {x \in Cores : request'[x].kind = "promise" /\ ran'[x] = <<>>}
      BY DEF promised, kind
    <3>2. QED
      BY <3>1 DEF Reserved
  <2>3. Cardinality(Free') = Cardinality(Free) - 2
    <3>1. Free' = (Free \ {i}) \ {p}
      BY <1>6, <1>11, <1>13 DEF Free
    <3>2. IsFiniteSet(Free \ {i}) /\ Cardinality(Free \ {i}) = Cardinality(Free) - 1
      BY <1>5, <2>1, FS_RemoveElement
    <3>3. p \in Free \ {i}
      BY <1>5
    <3>4. Cardinality((Free \ {i}) \ {p}) = Cardinality(Free \ {i}) - 1
      BY <3>2, <3>3, FS_RemoveElement
    <3>5. QED
      BY <2>1, <3>1, <3>2, <3>4
  <2>4. Cardinality(promised') = Cardinality(promised) - 1
    <3>1. promised' = promised \ {r}
      BY <1>9, <1>12, <1>14, <1>15, <1>20, <1>21 DEF promised
    <3>2. r \in promised
      BY <1>3, <1>4 DEF promised
    <3>3. QED
      BY <2>1, <3>1, <3>2, FS_RemoveElement
  <2>5. QED
    BY <1>1, <2>1, <2>2, <2>3, <2>4 DEF RoomInv
<1>42. TypeOK' /\ NoErrors'
  BY <1>1, <1>2, <1>9, <1>13, <1>14 DEF TypeOK, NoErrors, Hows
<1>43. QED
  BY <1>18, <1>23, <1>24, <1>26, <1>27, <1>28, <1>29, <1>30, <1>31, <1>33, <1>34, <1>35, <1>36, <1>37,
     <1>38, <1>39, <1>40, <1>41, <1>42 DEF IInv

-----------------------------------------------------------------------------
(* The calls of callbacks, one by one.                                     *)

LEMMA Facts ==
  ASSUME LegalRules, IInv, NEW t \in Threads, At(t, "call")
  PROVE  /\ Top(t).req \in Cores /\ Top(t).how \in Hows /\ TopKind(t) = kind[Top(t).req]
         /\ request[Top(t).req].handler = handler[Top(t).req]
         /\ request[Top(t).req].target = target[Top(t).req]
         /\ kind[Top(t).req] \in Hanging /\ handler[Top(t).req] \in Handlers
         /\ Onto(Top(t).req) \in Cores
<1>1. PICK f : f = Top(t)
  OBVIOUS
<1>2. f.req \in Cores /\ f.how \in Hows /\ kind[f.req] \in Hanging
  BY <1>1, Running
<1>3. kind[f.req] = request[f.req].kind /\ handler[f.req] = request[f.req].handler /\ target[f.req] = request[f.req].target
  BY <1>2 DEF kind, handler, target
<1>4. handler[f.req] \in Handlers
  BY <1>2, Shapes DEF IInv
<1>5. Onto(f.req) \in Cores
  BY <1>1, Untold
<1>6. QED
  BY <1>1, <1>2, <1>3, <1>4, <1>5 DEF TopKind

\* A callback whose core is settled with its outcome (Chain).
LEMMA ChainStep ==
  ASSUME LegalRules, IInv, NEW t \in Threads, At(t, "call"), NEW d, d = Onto(Top(t).req),
         Chain(t, d, Top(t).how)
  PROVE  IInv'
<1>1. PICK f : f = Top(t)
  OBVIOUS
<1>2. f.req \in Cores /\ f.how \in Hows /\ d \in Cores
  BY <1>1, Facts
<1>3. PICK g : g = Each(d, f.how, FALSE)
  OBVIOUS
<1>4. g \in Frames /\ g.op = "each" /\ g.core = d /\ g.how = f.how /\ g.k = 1 /\ ~g.locked
  BY <1>2, <1>3, MadeEach
<1>5. PICK e : e = Called(f.req, f.how)
  OBVIOUS
<1>6. e \in Frames /\ e.op = "called" /\ e.req = f.req /\ e.how = f.how
  BY <1>2, <1>5, MadeCalled
<1>7. <<g>> \o <<e>> = <<g, e>>
  BY <1>4, <1>6, Joined
<1>8. SettledBy(d, f.how, t) /\ Runs(t, <<g>>) /\ request' = request
  BY <1>1, <1>3 DEF Chain
<1>9. /\ ran' = [ran EXCEPT ![f.req] = Append(@, f.how)]
      /\ Replace(t, <<g>> \o <<e>>)
      /\ UNCHANGED <<owner, requests, counts, failed, begun>>
  BY <1>1, <1>5, <1>8 DEF Runs
<1>10. Goes(t, f, d, g, e)
  BY <1>1, <1>4, <1>6, <1>7, <1>8, <1>9 DEF Goes
<1>11. QED
  BY <1>10, RunStep

LEMMA ResolveValueStep ==
  ASSUME LegalRules, IInv, NEW t \in Threads, ResolveValue(t)
  PROVE  IInv'
<1>1. At(t, "call") /\ Top(t).how = "resolve" /\ TopKind(t) = "value" /\ Chain(t, Top(t).req, "resolve")
  BY DEF ResolveValue
<1>2. kind[Top(t).req] = "value"
  BY <1>1, Facts
<1>3. Top(t).req = Onto(Top(t).req)
  BY <1>2 DEF Onto
<1>4. QED
  BY <1>1, <1>3, ChainStep

LEMMA RunChainerStep ==
  ASSUME LegalRules, IInv, NEW t \in Threads, RunChainer(t)
  PROVE  IInv'
<1>1. At(t, "call") /\ TopKind(t) = "chainer" /\ Chain(t, request[Top(t).req].target, Top(t).how)
  BY DEF RunChainer
<1>2. kind[Top(t).req] = "chainer" /\ request[Top(t).req].target = target[Top(t).req]
  BY <1>1, Facts
<1>3. request[Top(t).req].target = Onto(Top(t).req)
  BY <1>2 DEF Onto
<1>4. QED
  BY <1>1, <1>3, ChainStep

LEMMA RejectRethrowStep ==
  ASSUME LegalRules, IInv, NEW t \in Threads, RejectRethrow(t)
  PROVE  IInv'
<1>1. At(t, "call") /\ Top(t).how = "reject" /\ TopKind(t) # "chainer" /\ Chain(t, Top(t).req, "reject")
  BY DEF RejectRethrow
<1>2. kind[Top(t).req] # "chainer"
  BY <1>1, Facts
<1>3. Top(t).req = Onto(Top(t).req)
  BY <1>2 DEF Onto
<1>4. QED
  BY <1>1, <1>3, ChainStep

\* A callback after which nothing comes, or whose core stays pending.
LEMMA QuietRunStep ==
  ASSUME LegalRules, IInv, NEW t \in Threads, At(t, "call"),
         UNCHANGED <<state, settler, reason, request>>,
         \/ Runs(t, <<>>) /\ kind[Top(t).req] = "void" /\ (Top(t).how = "resolve" \/ handler[Top(t).req] = "ignore")
         \/ /\ Runs(t, <<Each(Top(t).req, "reject", FALSE)>>)
            /\ kind[Top(t).req] = "value" /\ Top(t).how = "reject" /\ handler[Top(t).req] = "ignore"
  PROVE  IInv'
<1>1. PICK f : f = Top(t)
  OBVIOUS
<1>2. PICK d : d = Onto(f.req)
  OBVIOUS
<1>3. f.req \in Cores /\ f.how \in Hows /\ d \in Cores
  BY <1>1, <1>2, Facts
<1>4. PICK g : g = Each(d, f.how, FALSE)
  OBVIOUS
<1>5. g \in Frames /\ g.op = "each" /\ g.core = d /\ g.how = f.how /\ g.k = 1 /\ ~g.locked
  BY <1>3, <1>4, MadeEach
<1>6. PICK e : e = Called(f.req, f.how)
  OBVIOUS
<1>7. e \in Frames /\ e.op = "called" /\ e.req = f.req /\ e.how = f.how
  BY <1>3, <1>6, MadeCalled
<1>8. <<g>> \o <<e>> = <<g, e>> /\ <<>> \o <<e>> = <<e>>
  BY <1>5, <1>7, Joined
<1>9. CASE Runs(t, <<>>) /\ kind[f.req] = "void" /\ (f.how = "resolve" \/ handler[f.req] = "ignore")
  <2>1. /\ ran' = [ran EXCEPT ![f.req] = Append(@, f.how)]
        /\ Replace(t, <<>> \o <<e>>)
        /\ UNCHANGED <<owner, requests, counts, failed, begun>>
    BY <1>1, <1>6, <1>9 DEF Runs
  <2>2. Goes(t, f, d, g, e)
    BY <1>1, <1>2, <1>5, <1>7, <1>8, <1>9, <2>1 DEF Goes
  <2>3. QED
    BY <2>2, RunStep
<1>10. CASE /\ Runs(t, <<Each(f.req, "reject", FALSE)>>)
            /\ kind[f.req] = "value" /\ f.how = "reject" /\ handler[f.req] = "ignore"
  <2>1. d = f.req
    BY <1>2, <1>10 DEF Onto
  <2>2. Runs(t, <<g>>)
    BY <1>4, <1>10, <2>1
  <2>3. /\ ran' = [ran EXCEPT ![f.req] = Append(@, f.how)]
        /\ Replace(t, <<g>> \o <<e>>)
        /\ UNCHANGED <<owner, requests, counts, failed, begun>>
    BY <1>1, <1>6, <2>2 DEF Runs
  <2>4. Goes(t, f, d, g, e)
    BY <1>1, <1>2, <1>5, <1>7, <1>8, <1>10, <2>3 DEF Goes
  <2>5. QED
    BY <2>4, RunStep
<1>11. QED
  BY <1>1, <1>9, <1>10

LEMMA ResolveVoidStep ==
  ASSUME LegalRules, IInv, NEW t \in Threads, ResolveVoid(t)
  PROVE  IInv'
<1>1. /\ At(t, "call") /\ Top(t).how = "resolve" /\ TopKind(t) = "void" /\ Runs(t, <<>>)
      /\ UNCHANGED <<state, settler, reason, request>>
  BY DEF ResolveVoid
<1>2. kind[Top(t).req] = "void"
  BY <1>1, Facts
<1>3. QED
  BY <1>1, <1>2, QuietRunStep

LEMMA RejectStep ==
  ASSUME LegalRules, IInv, NEW t \in Threads, Reject(t)
  PROVE  IInv'
<1>1. /\ At(t, "call") /\ Top(t).how = "reject" /\ TopKind(t) # "chainer"
      /\ request[Top(t).req].handler = "ignore"
      /\ UNCHANGED <<state, settler, reason, request>>
  BY DEF Reject
<1>2. TopKind(t) = "value" => Runs(t, <<Each(Top(t).req, "reject", FALSE)>>)
  BY DEF Reject
<1>3. TopKind(t) = "void" => Runs(t, <<>>)
  BY DEF Reject
<1>4. TopKind(t) = kind[Top(t).req] /\ handler[Top(t).req] = "ignore" /\ kind[Top(t).req] \in Hanging
      /\ Top(t).req \in Cores
  BY <1>1, Facts
<1>5. kind[Top(t).req] # "promise"
  <2>1. kind[Top(t).req] = "promise" => handler[Top(t).req] = "rethrow"
    BY <1>4 DEF IInv, CoreInv
  <2>2. QED
    BY <1>4, <2>1
<1>6. TopKind(t) = "value" \/ TopKind(t) = "void"
  BY <1>1, <1>4, <1>5 DEF Hanging, Kinds
<1>7. QED
  BY <1>1, <1>2, <1>3, <1>4, <1>6, QuietRunStep

LEMMA ResolvePromiseStep ==
  ASSUME LegalRules, IInv, NEW t \in Threads, ResolvePromise(t)
  PROVE  IInv'
<1>1. PICK f : f = Top(t)
  OBVIOUS
<1>2. PICK i : i = Least(Free)
  OBVIOUS
<1>3. PICK p : p = Least(Free \ {i})
  OBVIOUS
<1>4. /\ At(t, "call") /\ f.how = "resolve" /\ TopKind(t) = "promise"
      /\ state' = [state EXCEPT ![i] = "Pending", ![p] = "Pending"]
      /\ request' = [request EXCEPT ![i].kind = "root",
                       ![p] = [kind |-> "chainer", handler |-> "ignore", target |-> f.req]]
      /\ Runs(t, <<Then(i, p)>>)
      /\ UNCHANGED <<settler, reason>>
  BY <1>1, <1>2, <1>3 DEF ResolvePromise
<1>5. f.req \in Cores /\ f.how \in Hows /\ kind[f.req] = "promise"
  BY <1>1, <1>4, Facts
<1>6. i \in Cores /\ p \in Cores
  <2>1. ran[f.req] = <<>>
    BY <1>1, <1>4, Running
  <2>2. f.req \in promised
    BY <1>5, <2>1 DEF promised
  <2>3. QED
    BY <1>2, <1>3, <2>2, TwoFree DEF Free
<1>7. PICK g : g = Then(i, p)
  OBVIOUS
<1>8. g \in Frames /\ g.op = "then" /\ g.core = i /\ g.req = p
  BY <1>6, <1>7, MadeThen
<1>9. PICK e : e = Called(f.req, f.how)
  OBVIOUS
<1>10. e \in Frames /\ e.op = "called" /\ e.req = f.req /\ e.how = f.how
  BY <1>5, <1>9, MadeCalled
<1>11. <<g>> \o <<e>> = <<g, e>>
  BY <1>8, <1>10, Joined
<1>12. /\ ran' = [ran EXCEPT ![f.req] = Append(@, f.how)]
       /\ Replace(t, <<g>> \o <<e>>)
       /\ UNCHANGED <<owner, requests, counts, failed, begun>>
  BY <1>1, <1>4, <1>7, <1>9 DEF Runs
<1>13. Returns(t, f, i, p, g, e)
  BY <1>1, <1>2, <1>3, <1>4, <1>5, <1>8, <1>10, <1>11, <1>12 DEF Returns
<1>14. QED
  BY <1>4, <1>13, ReturnsStep

-----------------------------------------------------------------------------
(* The invariant.                                                          *)

LEMMA InitInv ==
  ASSUME LegalRules, Init
  PROVE  IInv
<1>1. /\ state = [c \in Cores |-> IF c <= NumRoots THEN "Pending" ELSE None]
      /\ owner = [c \in Cores |-> None] /\ settler = [c \in Cores |-> None]
      /\ reason = [c \in Cores |-> FALSE] /\ requests = [c \in Cores |-> <<>>]
      /\ request = [c \in Cores |-> [kind |-> IF c <= NumRoots THEN "root" ELSE "none",
                                     handler |-> "ignore", target |-> c]]
      /\ counts = [c \in Cores |-> [resolve |-> 0, reject |-> 0]]
      /\ stack = [t \in Threads |-> <<>>] /\ failed = [t \in Threads |-> FALSE]
      /\ ran = [c \in Cores |-> <<>>] /\ begun = {}
  BY DEF Init
<1>2. None # "Pending" /\ None # "Fulfilled" /\ None # "Rejected" /\ None \notin Threads
  BY DEF LegalRules
<1>3. \A c \in Cores : /\ kind[c] = IF c <= NumRoots THEN "root" ELSE "none"
                       /\ state[c] = IF c <= NumRoots THEN "Pending" ELSE None
                       /\ requests[c] = <<>> /\ ran[c] = <<>>
  BY <1>1 DEF kind
<1>4. \A t \in Threads : Nested(stack[t]) /\ calls[t] = {}
  <2>1. ASSUME NEW t \in Threads PROVE stack[t] = <<>>
    BY <1>1
  <2>2. <<>> \in Seq(Frames) /\ Len(<<>>) = 0
    OBVIOUS
  <2>3. Nested(<<>>) /\ In(<<>>) = {}
    BY <2>2 DEF Nested, In
  <2>4. QED
    BY <2>1, <2>3 DEF calls
<1>5. StackInv
  <2>1. \A t \in Threads : stack[t] \in Seq(Frames)
    BY <1>4 DEF Nested
  <2>2. stack = [t \in Threads |-> stack[t]]
    BY <1>1
  <2>3. QED
    BY <1>4, <2>1, <2>2 DEF StackInv
<1>6. \A t \in Threads : \A x : /\ x \notin settling[t] /\ x \notin looping[t] /\ x \notin calling[t]
                                /\ x \notin ending[t] /\ x \notin flying[t] /\ x \notin attaching[t]
  BY <1>4 DEF settling, looping, calling, ending, flying, attaching
<1>7. \A c \in Cores : Len(requests[c]) = 0
  BY <1>3
<1>8. TypeOK
  <2>1. /\ state \in [Cores -> {None, "Pending", "Fulfilled", "Rejected"}]
        /\ owner \in [Cores -> Threads \cup {None}]
        /\ settler \in [Cores -> Threads \cup {None}]
        /\ reason \in [Cores -> BOOLEAN]
        /\ requests \in [Cores -> Seq(Cores)]
        /\ failed \in [Threads -> BOOLEAN]
        /\ ran \in [Cores -> Seq({"resolve", "reject"})] /\ begun \subseteq Cores
    BY <1>1
  <2>2. request \in [Cores -> [kind : Kinds \cup {"root", "none", "chainer"},
                               handler : Handlers, target : Cores]]
    BY <1>1 DEF Handlers
  <2>3. counts \in [Cores -> [resolve : 0..1, reject : 0..1]]
    BY <1>1
  <2>4. QED
    BY <2>1, <2>2, <2>3 DEF TypeOK
<1>9. CoreInv
  BY <1>1, <1>2, <1>3 DEF CoreInv
<1>10. ListInv
  BY <1>7 DEF ListInv
<1>11. FlyingInv /\ ApartInv /\ QuietInv /\ OwnerInv /\ LoopInv /\ OneLoopInv /\ AheadInv /\ BehindInv
       /\ CallInv /\ AttachInv
  <2>1. FlyingInv /\ ApartInv
    BY <1>6 DEF FlyingInv, ApartInv
  <2>2. QuietInv /\ OwnerInv
    BY <1>6 DEF QuietInv, OwnerInv
  <2>3. LoopInv /\ OneLoopInv /\ AheadInv /\ BehindInv
    BY <1>6 DEF LoopInv, OneLoopInv, AheadInv, BehindInv
  <2>4. CallInv /\ AttachInv
    BY <1>6 DEF CallInv, AttachInv
  <2>5. QED
    BY <2>1, <2>2, <2>3, <2>4
<1>12. RootInv
  BY <1>3, <1>6 DEF RootInv
<1>13. ToldInv
  BY <1>7 DEF ToldInv
<1>14. CountInv
  <2>1. \A r \in Cores, how \in Hows : counts[r][how] = 0
    BY <1>1 DEF Hows
  <2>2. QED
    BY <1>6, <2>1 DEF CountInv
<1>15. RanInv
  <2>1. <<>> # <<"resolve">> /\ <<>> # <<"reject">>
    OBVIOUS
  <2>2. \A c \in Cores : kind[c] \notin Kinds
    BY <1>3 DEF Kinds
  <2>3. \A c \in Cores : kind[c] # "value"
    BY <1>3
  <2>4. QED
    BY <1>3, <2>1, <2>2, <2>3 DEF RanInv
<1>16. ChainerInv
  BY <1>3 DEF ChainerInv
<1>17. RoomInv
  <2>1. Cardinality(Free) \in Nat /\ Reserved = 2 * Cardinality(promised)
    BY FiniteSets DEF LegalRules
  <2>2. promised = {}
    BY <1>3 DEF promised
  <2>3. Cardinality(promised) = 0
    BY <2>2, FS_EmptySet
  <2>4. QED
    BY <2>1, <2>3 DEF RoomInv
<1>18. NoErrors
  BY <1>1 DEF NoErrors
<1>19. QED
  BY <1>5, <1>8, <1>9, <1>10, <1>11, <1>12, <1>13, <1>14, <1>15, <1>16, <1>17, <1>18 DEF IInv

LEMMA StutterStep ==
  ASSUME IInv, UNCHANGED vars
  PROVE  IInv'
<1>1. /\ state' = state /\ owner' = owner /\ settler' = settler /\ reason' = reason
      /\ requests' = requests /\ request' = request /\ counts' = counts /\ stack' = stack
      /\ failed' = failed /\ ran' = ran /\ begun' = begun
  BY DEF vars, cores
<1>2. StackInv' /\ calls' = calls
  BY <1>1, SameStack DEF IInv
<1>3. /\ settling' = settling /\ looping' = looping /\ calling' = calling /\ ending' = ending
      /\ flying' = flying /\ attaching' = attaching
  BY <1>2 DEF settling, looping, calling, ending, flying, attaching
<1>4. kind' = kind /\ handler' = handler /\ target' = target
  BY <1>1, SameRequest
<1>5. TypeOK' /\ CoreInv' /\ ListInv' /\ RanInv' /\ ChainerInv' /\ RoomInv' /\ NoErrors'
  BY <1>1, <1>4 DEF IInv, TypeOK, CoreInv, ListInv, RanInv, ChainerInv, RoomInv, Free, Reserved, NoErrors
<1>6. FlyingInv' /\ ApartInv' /\ QuietInv' /\ OwnerInv' /\ RootInv'
  BY <1>1, <1>3, <1>4 DEF IInv, FlyingInv, ApartInv, QuietInv, OwnerInv, RootInv
<1>7. LoopInv' /\ OneLoopInv' /\ AheadInv' /\ BehindInv'
  BY <1>1, <1>3, <1>4 DEF IInv, LoopInv, OneLoopInv, AheadInv, BehindInv, Opened, Settled, Way
<1>8. CallInv' /\ ToldInv' /\ AttachInv' /\ CountInv'
  BY <1>1, <1>3, <1>4 DEF IInv, CallInv, ToldInv, AttachInv, CountInv, Opened, Settled, Way
<1>9. QED
  BY <1>2, <1>5, <1>6, <1>7, <1>8 DEF IInv

LEMMA NextInv ==
  ASSUME LegalRules, IInv, [Next]_vars
  PROVE  IInv'
<1>1. ASSUME NEW t \in Threads, Start(t) PROVE IInv'
  <2>1. PICK c \in Cores :
          \/ \E how \in Hows : Begin(t, c, how)
          \/ \E k \in Continuations : NewThen(t, c, k[1], k[2])
    BY <1>1 DEF Start, Hows
  <2>2. QED
    BY <2>1, BeginStep, NewThenStep
<1>2. ASSUME NEW t \in Threads, Continue(t) PROVE IInv'
  <2>1. CASE SettleLocked(t)
    BY <2>1, SettleLockedStep
  <2>2. CASE EachRequest(t)
    BY <2>2, EachCallStep, EachEndStep
  <2>3. CASE CallTwice(t)
    BY <2>3, NotTwice DEF CallTwice
  <2>4. CASE ResolveVoid(t)
    BY <2>4, ResolveVoidStep
  <2>5. CASE ResolveValue(t)
    BY <2>5, ResolveValueStep
  <2>6. CASE ResolvePromise(t)
    BY <2>6, ResolvePromiseStep
  <2>7. CASE RunChainer(t)
    BY <2>7, RunChainerStep
  <2>8. CASE Reject(t)
    BY <2>8, RejectStep
  <2>9. CASE RejectRethrow(t)
    BY <2>9, RejectRethrowStep
  <2>10. CASE EndCall(t)
    BY <2>10, EndCallStep
  <2>11. CASE ThenLocked(t)
    BY <2>11, ThenLockedStep
  <2>12. CASE PushBack(t)
    BY <2>12, PushBackStep
  <2>13. QED
    BY <1>2, <2>1, <2>2, <2>3, <2>4, <2>5, <2>6, <2>7, <2>8, <2>9, <2>10, <2>11, <2>12 DEF Continue
<1>3. CASE UNCHANGED vars
  BY <1>3, StutterStep
<1>4. QED
  BY <1>1, <1>2, <1>3 DEF Next

\* The invariant holds in every state, whatever the threads do
\* (async.h:186-203, 280-330, 547-640, 757-860, 1040-1065).
THEOREM Invariance ==
  ASSUME LegalRules
  PROVE  Spec => []IInv
<1>1. Init => IInv
  BY InitInv
<1>2. IInv /\ [Next]_vars => IInv'
  BY NextInv
<1>3. QED
  BY <1>1, <1>2, PTL DEF Spec

LEMMA InvRunOnce ==
  ASSUME IInv PROVE RunOnce
<1>1. ASSUME NEW r \in Cores PROVE Len(ran[r]) <= 1
  <2>1. ran[r] = <<>> \/ ran[r] = <<"resolve">> \/ ran[r] = <<"reject">>
    BY DEF IInv, RanInv
  <2>2. CASE ran[r] = <<>>
    BY <2>2
  <2>3. CASE ran[r] = <<"resolve">>
    BY <2>3
  <2>4. CASE ran[r] = <<"reject">>
    BY <2>4
  <2>5. QED
    BY <2>1, <2>2, <2>3, <2>4
<1>2. QED
  BY <1>1 DEF RunOnce

LEMMA InvNoneLost ==
  ASSUME IInv PROVE NoneLost
<1>1. SUFFICES ASSUME \A t \in Threads : Idle(t), NEW c \in Cores, Settled(c), NEW r \in ToSet(requests[c])
               PROVE  ran[r] = IF state[c] = "Fulfilled" THEN <<"resolve">> ELSE <<"reject">>
  BY DEF NoneLost
<1>2. \A t \in Threads : \A x : x \notin looping[t]
  BY <1>1, TopFacts DEF IInv, looping
<1>3. PICK j \in 1..Len(requests[c]) : r = requests[c][j]
  BY <1>1 DEF ToSet
<1>4. ran[r] = <<Way(c)>>
  BY <1>1, <1>2, <1>3 DEF IInv, ToldInv
<1>5. QED
  BY <1>4 DEF Way

LEMMA InvFollows ==
  ASSUME IInv PROVE Follows
<1>1. ASSUME NEW r \in Cores
      PROVE  /\ request[r].kind = "value" /\ ran[r] = <<"resolve">> => state[r] = "Fulfilled"
             /\ request[r].kind \in Kinds /\ request[r].handler = "rethrow" /\ ran[r] = <<"reject">> =>
                  state[r] = "Rejected" /\ reason[r]
             /\ request[r].kind = "chainer" /\ ran[r] # <<>> => Settled(request[r].target)
  <2>1. kind[r] = request[r].kind /\ handler[r] = request[r].handler /\ target[r] = request[r].target
    BY DEF kind, handler, target
  <2>2. kind[r] = "chainer" /\ ran[r] # <<>> => Settled(target[r])
    <3>1. SUFFICES ASSUME kind[r] = "chainer", ran[r] # <<>> PROVE Settled(target[r])
      OBVIOUS
    <3>2. target[r] \in Cores
      BY Shapes DEF IInv
    <3>3. kind[target[r]] = "promise" /\ state[target[r]] # "Pending"
      BY <3>1 DEF IInv, ChainerInv
    <3>4. state[target[r]] # None
      BY <3>2, <3>3 DEF IInv, CoreInv
    <3>5. QED
      BY <3>2, <3>3, <3>4 DEF IInv, TypeOK, Settled
  <2>3. QED
    BY <2>1, <2>2 DEF IInv, RanInv
<1>2. QED
  BY <1>1 DEF Follows

\* A callback is called once and not both ways, none of those attached to a settled promise is
\* left out when nobody is at work, what then returned follows it, and no use of a promise by
\* its rules ends in an Error (async.h:186-196, 289-312, 391-397, 550-579, 764, 832, 1052-1060).
THEOREM PromisesKept ==
  ASSUME LegalRules
  PROVE  Spec => [](TypeOK /\ RunOnce /\ NoneLost /\ Follows /\ NoErrors)
<1>1. IInv => TypeOK /\ RunOnce /\ NoneLost /\ Follows /\ NoErrors
  BY InvRunOnce, InvNoneLost, InvFollows DEF IInv
<1>2. QED
  BY <1>1, Invariance, PTL
=============================================================================
