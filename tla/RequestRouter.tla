--------------------------- MODULE RequestRouter ---------------------------
(***************************************************************************)
(* dispatch() of src/src/RequestRouter/router.cpp over the data handler:   *)
(* a request type and a variant that holds a login or a data request.  A   *)
(* login is LoginHandler's; here it only keeps the router busy in between. *)
(***************************************************************************)
EXTENDS DataHandler

CONSTANT None          \* no request, no answer: of the abstract service
ASSUME NoneAssumption == None \notin Requests

VARIABLE route         \* the last call: type, alternative held, return code

routerVars == <<vars, route>>

Call(type, payload, code) == [type |-> type, payload |-> payload, code |-> code]

RouterInit == Init /\ route = Call("LOGIN", "login", "EXIT_SUCCESS")

DispatchData ==
    /\ \E q \in Requests : Start(q)
    /\ route' = Call("DATA", "data", "none")

\* A login, or a payload that holds one under the other type, which nobody reads.
DispatchLogin ==
    /\ pc = "idle"
    /\ \E type \in {"LOGIN", "DATA"} : route' = Call(type, "login", "EXIT_SUCCESS")
    /\ UNCHANGED vars

\* The payload is not touched: it holds the other alternative, which is logged and
\* called a success, or the type is none the router knows.
Untouched(type, payload, code) ==
    /\ pc = "idle" /\ ended' = "no"
    /\ \E q \in {r \in Requests : r.data = <<>>} : request' = q /\ tx' = Transaction(q)
    /\ found' = disk /\ buffer' = <<>> /\ sent' = Absent /\ silent' = FALSE
    /\ route' = Call(type, payload, code)
    /\ UNCHANGED <<disk, out, pc>>

DispatchMismatch == Untouched("LOGIN", "data", "EXIT_SUCCESS")
DispatchUnknown == Untouched("other", "data", "EXIT_FAILURE")

\* A step of the handler; dispatch() returns when it does.
Handle ==
    /\ Step
    /\ route' = [route EXCEPT !.code =
                   IF pc' = "idle" /\ ended' = "returned" THEN "EXIT_SUCCESS" ELSE "none"]

Next == DispatchData \/ DispatchLogin \/ DispatchMismatch \/ DispatchUnknown \/ Handle

Spec == RouterInit /\ [][Next]_routerVars

-----------------------------------------------------------------------------
(* Properties                                                              *)

Results == {"PENDING", "SUCCESS", "NOT_FOUND", "OPEN_FAILURE", "READ_FAILED", "WRITE_FAILURE", "UNKNOWN_ERROR"}

\* The handler changes the transaction as its command lets it: only a copy's target
\* becomes its destination, and a status that is no longer PENDING tells the result
\* of the last call.
TargetKept == tx.target = request.target \/ (request.cmd = "CP" /\ tx.target = request.dest)
StatusTold == tx.status # "PENDING" => tx.status = StatusOf(tx.cmd, tx.fileResult)

\* Every variable keeps its type, the transaction under way is the one that was
\* asked for, and no stream stays open between two requests.
TypeOK ==
    /\ disk \in [Paths -> Nodes] /\ found \in [Paths -> Nodes]
    /\ request \in Requests
    /\ tx \in [cmd : Commands, target : Paths, dest : Paths \union {Top},
               fileResult : Results, status : {"PENDING", "SUCCESS", "FAILURE"}]
    /\ tx.cmd = request.cmd /\ tx.dest = request.dest
    /\ TargetKept /\ StatusTold
    /\ buffer \in Contents /\ silent \in BOOLEAN
    /\ out \in [path : Paths \union {Top}, pending : Contents, good : BOOLEAN]
    /\ pc = "idle" => out = Closed

\* The handler implements the abstract service: what a result says about the files
\* is true, and no request changes what it does not name.
Service == INSTANCE FileService WITH
    files  <- IF pc = "idle" THEN disk ELSE found,
    asked  <- IF pc = "idle" THEN None ELSE request,
    answer <- IF pc # "idle" \/ ended = "no" THEN None
              ELSE [result |-> tx.fileResult, status |-> tx.status, ended |-> ended,
                    sent |-> sent, silent |-> silent]
ImplementsService == Service!Spec

\* moveFile() removes the target whatever became of the write and before the
\* destination is flushed: as long as the process lives and no write fails, what
\* was moved to another path is at the one, at the other or in the stream's buffer.
Moving == request.cmd = "MV" /\ request.dest # request.target /\ IsFile(found, request.target)
Intact == ended # "died" /\ out.good /\ ~silent /\ tx.fileResult # "WRITE_FAILURE"
MoveKeepsContent ==
    Moving /\ Intact =>
      \/ disk[request.target] = found[request.target]
      \/ disk[request.dest] = found[request.target]
      \/ /\ out.path = request.dest /\ IsFile(disk, request.dest)
         /\ disk[request.dest] \o out.pending = found[request.target]

\* A data request that dispatch() accepted has an answer when it returns, unless it
\* is an append, or the payload was of the other type, which is called a success
\* too; one that it rejects was not begun.
AcceptedMeansAnswered ==
    /\ route = Call("DATA", "data", "EXIT_SUCCESS") /\ request.cmd # "AP"
         => tx.status # "PENDING"
    /\ route.code = "EXIT_FAILURE" => tx = Transaction(request)
=============================================================================
