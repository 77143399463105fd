---------------------------- MODULE FileService ----------------------------
(***************************************************************************)
(* What the answer of the data handler says about the files: a request     *)
(* takes effect in one step, and its result tells what became of the paths *)
(* it names.  Everything it does not name stays as it was, whatever        *)
(* happens to the request or to the process.                               *)
(***************************************************************************)
EXTENDS FileTree

CONSTANT None          \* no request, no answer
VARIABLES files,       \* Paths -> what is there
          asked,       \* the request being served, or None
          answer       \* the answer to the last one, or None

vars == <<files, asked, answer>>

\* Where a request writes, what it stores there, and what it removes.
Place(q) == IF q.cmd \in {"CP", "MV"} THEN q.dest ELSE q.target
Prior(q) == IF q.cmd = "AP" THEN Old(files, q.target) ELSE <<>>
Data(q)  == IF q.cmd \in {"CP", "MV"} THEN files[q.target]
            ELSE IF q.cmd = "NEW" THEN <<>> ELSE q.data
Gone(q)  == IF q.cmd = "MV" THEN {q.target} ELSE {}
Writes(q) == q.cmd \in {"RX", "NEW", "CP", "MV", "AP"}

\* The files after data was stored: first written, then removed.
After(q, data, gone) ==
    [p \in Paths |-> IF p \in gone THEN Absent
                     ELSE IF p = Place(q) THEN Prior(q) \o data
                     ELSE WithParent(files, Place(q))[p]]

Init ==
    /\ files \in [Paths -> Nodes]
    /\ asked = None
    /\ answer = None

Ask ==
    /\ asked = None /\ asked' # None
    /\ answer' = None
    /\ UNCHANGED files

\* A request that nobody serves has no answer.
Ignore == asked = None /\ asked' = None /\ answer' = None /\ UNCHANGED files

\* SUCCESS: all of it was stored, unless the flush at the end failed unnoticed.
Succeed(q, a) ==
    /\ a.result = "SUCCESS"
    /\ \/ /\ Writes(q)
          /\ \/ ~a.silent /\ files' = After(q, Data(q), Gone(q))
             \/ a.silent /\ \E part \in Parts(Data(q)) : files' = After(q, part, Gone(q))
       \/ q.cmd = "TX" /\ a.sent = files[q.target] /\ UNCHANGED files
       \/ q.cmd = "DEL" /\ files' = [p \in Paths |-> IF p \in Below(q.target) THEN Absent ELSE files[p]]
       \/ q.cmd = "NOP" /\ UNCHANGED files

\* A refusal leaves every file as it was; directories may have been made.
Refuse(q, a) ==
    /\ a.result \in {"NOT_FOUND", "OPEN_FAILURE", "READ_FAILED"}
    /\ \/ UNCHANGED files
       \/ Writes(q) /\ q.cmd # "MV" /\ files' = WithParent(files, Place(q))

\* WRITE_FAILURE: a part was written, and a move has removed its source even so.
FailToWrite(q, a) ==
    /\ a.result = "WRITE_FAILURE"
    /\ \/ Writes(q) /\ \E part \in Parts(Data(q)) : files' = After(q, part, Gone(q))
       \/ q.cmd = "TX" /\ UNCHANGED files

FailToDelete(q, a) ==
    /\ a.result = "UNKNOWN_ERROR"
    /\ \E some \in SUBSET Below(q.target) :
         files' = [p \in Paths |-> IF p \in some THEN Absent ELSE files[p]]

Answer(q) ==
    LET a == answer'
    IN  /\ a.ended = "returned"
        /\ a.status = IF q.cmd = "AP" THEN "PENDING"
                      ELSE IF a.result = "SUCCESS" THEN "SUCCESS" ELSE "FAILURE"
        /\ Succeed(q, a) \/ Refuse(q, a) \/ FailToWrite(q, a) \/ FailToDelete(q, a)

\* An exception leaves the status open; the source of a move is still there then.
Throw(q) ==
    /\ answer'.ended = "threw" /\ answer'.status = "PENDING"
    /\ \/ UNCHANGED files
       \/ q.cmd = "MV" /\ \E part \in Parts(Data(q)) \union {Data(q)} : files' = After(q, part, {})

\* The process dies: what the request names is in no particular state.
Die(q) ==
    /\ answer'.ended = "died"
    /\ \A p \in Paths \ (Below(q.target) \union {Place(q), Parent[Place(q)]}) : files'[p] = files[p]

End ==
    /\ asked # None /\ asked' = None
    /\ Answer(asked) \/ Throw(asked) \/ Die(asked)

Next == Ask \/ Ignore \/ End

Spec == Init /\ [][Next]_vars
=============================================================================
