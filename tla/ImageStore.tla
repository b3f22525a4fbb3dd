----------------------------- MODULE ImageStore -----------------------------
(***************************************************************************)
(* What RAID_Controller promises its one caller: pictures are kept under   *)
(* names, one request is handled at a time, and reading a name gives the   *)
(* picture stored last, or that there is none.  Disks, fragments, restarts *)
(* and rebuilds are not seen.                                              *)
(***************************************************************************)
CONSTANTS
  Names,        \* the names of pictures
  Payloads,     \* the pictures
  None,         \* no picture, no request or no answer yet
  NotFound      \* the answer "false"

VARIABLES
  picture,      \* name -> the picture stored under it, or None
  request,      \* the request in progress, or None
  reply         \* the name last asked for, and the answer

vars == <<picture, request, reply>>

TypeOK ==
  /\ picture \in [Names -> Payloads \cup {None}]
  /\ request \in {None} \cup [op : {"read"}, name : Names]
                        \cup [op : {"store"}, name : Names, payload : Payloads]
  /\ reply \in [name : Names, answer : (Names \X Payloads) \cup {NotFound, None}]

Init ==
  /\ picture = [n \in Names |-> None]
  /\ request = None
  /\ reply \in [name : Names, answer : {None}]

Store(n, p) ==
  /\ request = None /\ picture[n] = None
  /\ request' = [op |-> "store", name |-> n, payload |-> p]
  /\ reply' = [name |-> n, answer |-> None]
  /\ UNCHANGED picture

Stored ==
  /\ request # None /\ request.op = "store"
  /\ picture' = [picture EXCEPT ![request.name] = request.payload]
  /\ request' = None
  /\ UNCHANGED reply

Read(n) ==
  /\ request = None
  /\ request' = [op |-> "read", name |-> n]
  /\ reply' = [name |-> n, answer |-> None]
  /\ UNCHANGED picture

Answered ==
  /\ request # None /\ request.op = "read"
  /\ reply' = [reply EXCEPT !.answer = IF picture[request.name] = None THEN NotFound
                                       ELSE <<request.name, picture[request.name]>>]
  /\ request' = None
  /\ UNCHANGED picture

Next ==
  \/ \E n \in Names : Read(n) \/ \E p \in Payloads : Store(n, p)
  \/ Stored
  \/ Answered

\* A request that was taken is brought to its end.
Spec == Init /\ [][Next]_vars /\ WF_vars(Stored \/ Answered)
=============================================================================
