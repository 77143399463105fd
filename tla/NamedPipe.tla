----------------------------- MODULE NamedPipe -----------------------------
(***************************************************************************)
(* opstream() and ipstream() of src/src/MessageBus/dispatcher.cpp: a       *)
(* process that writes a line into the fifo at a path and one that reads a *)
(* line from it.  Each calls its function again and again; each makes the  *)
(* fifo if there is nothing at the path, and removes what is there when it *)
(* was called with end = true.                                             *)
(*                                                                         *)
(* Between mkfifo() and open() the other side may remove the path: then    *)
(* the stream of the writer creates a regular file and the reader's does   *)
(* not open.  Opening a fifo waits for the other side, and a write that no *)
(* reader is there for kills the process.  A null fifo_path is outside the *)
(* model: the functions dereference it.                                    *)
(***************************************************************************)
EXTENDS Naturals, SequencesExt

CONSTANT MaxCalls      \* bound: calls of each function

VARIABLES path,        \* the file at fifo_path, or Nothing
          files,       \* every file there ever was: a fifo or not, and its text
          w, r,        \* the writer and the reader: where it is (at), its calls so
                       \*   far, end, and the file it has open or waits for (on)
          printed      \* <<call of the reader, call of the writer>>, as printed

namedVars == <<path, files, w, r, printed>>

Nothing == 0
Idle == [at |-> "idle", call |-> 0, end |-> FALSE, on |-> Nothing]
File(fifo) == [fifo |-> fifo, text |-> <<>>]

NamedInit ==
    /\ path = Nothing /\ files = <<>>
    /\ w = Idle /\ r = Idle
    /\ printed = <<>>

Called(p) == \E e \in BOOLEAN : p' = [p EXCEPT !.at = "mkfifo", !.call = @ + 1, !.end = e]

\* mkfifo(), whose result only the caller of the function sees.
MkFifo ==
    IF path # Nothing THEN UNCHANGED <<path, files>>
    ELSE files' = Append(files, File(TRUE)) /\ path' = Len(files')

Unlink(p) == path' = IF p.end THEN Nothing ELSE path

\* What is in a fifo is gone when the last of the two closes it.
Closed(p, other) ==
    IF files[p.on].fifo /\ other.on # p.on
    THEN [files EXCEPT ![p.on].text = <<>>] ELSE files

\* An open of a fifo: the two sides meet, or the first one waits.
Meets(p, other, next) ==
    p' = [p EXCEPT !.on = path, !.at = IF other.on = path THEN next ELSE "waiting"]
Wakes(p, other, next) ==
    p' = IF other.on # path /\ p.on = path /\ p.at = "waiting" THEN [p EXCEPT !.at = next] ELSE p

-----------------------------------------------------------------------------
(* opstream                                                                *)

Opstream ==
    /\ w.at = "idle" /\ w.call < MaxCalls
    /\ Called(w)
    /\ UNCHANGED <<path, files, r, printed>>

WriterMkFifo ==
    /\ w.at = "mkfifo"
    /\ MkFifo
    /\ w' = [w EXCEPT !.at = "open"]
    /\ UNCHANGED <<r, printed>>

\* std::ofstream: creates what is not there and truncates what is.
WriterOpen ==
    /\ w.at = "open"
    /\ \/ /\ path # Nothing /\ files[path].fifo
          /\ Meets(w, r, "write") /\ Wakes(r, w, "read")
          /\ UNCHANGED <<path, files>>
       \/ /\ path = Nothing
          /\ files' = Append(files, File(FALSE)) /\ path' = Len(files')
          /\ w' = [w EXCEPT !.at = "write", !.on = path'] /\ UNCHANGED r
       \/ /\ path # Nothing /\ ~files[path].fifo
          /\ files' = [files EXCEPT ![path].text = <<>>]
          /\ w' = [w EXCEPT !.at = "write", !.on = path] /\ UNCHANGED <<path, r>>
    /\ UNCHANGED printed

\* close() flushes the line.
WriterWrite ==
    /\ w.at = "write"
    /\ IF files[w.on].fifo /\ r.on # w.on
       THEN w' = [w EXCEPT !.at = "killed", !.on = Nothing] /\ files' = Closed(w, r)
       ELSE /\ w' = [w EXCEPT !.at = "close"]
            /\ files' = [files EXCEPT ![w.on].text = Append(@, w.call)]
    /\ UNCHANGED <<path, r, printed>>

WriterClose ==
    /\ w.at = "close"
    /\ files' = Closed(w, r)
    /\ w' = [w EXCEPT !.at = "unlink", !.on = Nothing]
    /\ UNCHANGED <<path, r, printed>>

WriterUnlink ==
    /\ w.at = "unlink"
    /\ Unlink(w)
    /\ w' = [w EXCEPT !.at = "idle"]
    /\ UNCHANGED <<files, r, printed>>

-----------------------------------------------------------------------------
(* ipstream                                                                *)

Ipstream ==
    /\ r.at = "idle" /\ r.call < MaxCalls
    /\ Called(r)
    /\ UNCHANGED <<path, files, w, printed>>

ReaderMkFifo ==
    /\ r.at = "mkfifo"
    /\ MkFifo
    /\ r' = [r EXCEPT !.at = "open"]
    /\ UNCHANGED <<w, printed>>

\* Faulty variant: the fifo is opened with O_NONBLOCK, as NamedPipe() does.
ReaderOpenNonblocking ==
    /\ r.at = "open" /\ path # Nothing
    /\ r' = [r EXCEPT !.at = "read", !.on = path] /\ Wakes(w, r, "write")
    /\ UNCHANGED <<path, files, printed>>

\* std::ifstream.
ReaderOpen ==
    /\ r.at = "open"
    /\ \/ path # Nothing /\ files[path].fifo /\ Meets(r, w, "read") /\ Wakes(w, r, "write")
       \/ path = Nothing /\ r' = [r EXCEPT !.at = "unlink"] /\ UNCHANGED w
       \/ /\ path # Nothing /\ ~files[path].fifo
          /\ r' = [r EXCEPT !.at = "read", !.on = path] /\ UNCHANGED w
    /\ UNCHANGED <<path, files, printed>>

\* getline(): the stream reads all there is, and the first line is printed.
ReadLine ==
    /\ r.at = "read" /\ files[r.on].text # <<>>
    /\ printed' = Append(printed, <<r.call, Head(files[r.on].text)>>)
    /\ files' = IF files[r.on].fifo THEN [files EXCEPT ![r.on].text = <<>>] ELSE files
    /\ r' = [r EXCEPT !.at = "unlink"]
    /\ UNCHANGED <<path, w>>

\* getline() meets the end of a file, or of a fifo no writer has open.
ReadEnd ==
    /\ r.at = "read" /\ files[r.on].text = <<>>
    /\ files[r.on].fifo => w.on # r.on
    /\ r' = [r EXCEPT !.at = "unlink"]
    /\ UNCHANGED <<path, files, w, printed>>

ReaderUnlink ==
    /\ r.at = "unlink"
    /\ Unlink(r)
    /\ r' = [r EXCEPT !.at = "return"]
    /\ UNCHANGED <<files, w, printed>>

\* The stream is closed by its destructor.
ReaderReturn ==
    /\ r.at = "return"
    /\ files' = IF r.on = Nothing THEN files ELSE Closed(r, w)
    /\ r' = [r EXCEPT !.at = "idle", !.on = Nothing]
    /\ UNCHANGED <<path, w, printed>>

InOpstream == WriterMkFifo \/ WriterOpen \/ WriterWrite \/ WriterClose \/ WriterUnlink
InIpstream == ReaderMkFifo \/ ReaderOpen \/ ReadLine \/ ReadEnd \/ ReaderUnlink \/ ReaderReturn
NamedNext == Opstream \/ InOpstream \/ Ipstream \/ InIpstream

\* Both processes run on inside their calls; nobody has to call again.
NamedFairness == WF_namedVars(InOpstream) /\ WF_namedVars(InIpstream)
NamedSpec == NamedInit /\ [][NamedNext]_namedVars /\ NamedFairness

-----------------------------------------------------------------------------
(* Property                                                                *)

\* Neither function runs, and no regular file is in the way.
AtRest(i, j) ==
    /\ w.at = "idle" /\ w.call = i /\ r.at = "idle" /\ r.call = j
    /\ path # Nothing => files[path].fifo

\* One call of opstream and one of ipstream, both made after the earlier ones had
\* returned, exchange the line whichever comes first and whoever removes the fifo.
\* Calls that overlap with an earlier one of the other side may miss each other.
ExchangeCompletes ==
    \A i, j \in 0..(MaxCalls - 1) :
      [](AtRest(i, j) => [](w.call > i /\ r.call > j
                              => <>(<<j + 1, i + 1>> \in ToSet(printed))))
=============================================================================
