------------------------------ MODULE RaidStore ------------------------------
(***************************************************************************)
(* RaidController implements ImageStore as long as disks are lost one at a *)
(* time and only while the process is stopped, the process stops only      *)
(* between calls, no name is a suffix of another and none is stored twice. *)
(***************************************************************************)
EXTENDS RaidController

\* A request is told from none.
ASSUME RequestsAssumption ==
  \A n \in Names :
    /\ [op |-> "read", name |-> n] # None
    /\ \A p \in Payloads : [op |-> "store", name |-> n, payload |-> p] # None

\* A picture is there from the moment its tree file is written.
PictureOf == [n \in Names |-> IF image[n].status = "stored" THEN image[n].payload ELSE None]

\* The call at the bottom of the stack; a boot is no request.
RequestOf ==
  LET f == stack[Len(stack)] IN
  CASE stack = <<>>             -> None
    [] stack # <<>> /\ f.op = "boot"     -> None
    [] stack # <<>> /\ f.op = "getImage" -> [op |-> "read", name |-> f.name]
    [] OTHER -> [op |-> "store", name |-> f.name, payload |-> f.payload]

Store == INSTANCE ImageStore WITH picture <- PictureOf, request <- RequestOf

\* The controller with its disks, rebuilds and restarts behaves like a store
\* of pictures: every answer is the picture stored under the name and every
\* request that was taken ends.
ImplementsStore == Store!Spec
=============================================================================
