----------------------------- MODULE Transaction -----------------------------
(***************************************************************************)
(* The transaction manager of src/src/transactions/transaction.cpp: a      *)
(* constructor that logs the intent, commit(), and a destructor that rolls *)
(* back what was not committed, over an ofstream that buffers and may fail *)
(* and a log file that a machine crash cuts back to what reached the disk. *)
(*                                                                         *)
(* A stream whose flush failed stays bad: later output to it is dropped    *)
(* and later flushes report failure, but the text that could not be        *)
(* written stays in its buffer, and closing the file tries to write it     *)
(* once more.  A write may fail half way and leave a fragment, to which    *)
(* the next line, of whatever transaction, is glued.                       *)
(***************************************************************************)
EXTENDS Integers, FiniteSets, SequencesExt

CONSTANTS Tx,          \* the transactions
          NoTx,        \* of no transaction
          Modification,\* Tx -> the change each one makes
          Initial,     \* the balance the program starts with
          MaxLive      \* bound: transaction objects alive at a time; main() has 1

ASSUME ModificationAssumption == Modification \in [Tx -> Int] /\ Initial \in Int
ASSUME NoTxAssumption == NoTx \notin Tx
ASSUME MaxLiveAssumption == MaxLive \in Nat \ {0}

VARIABLES live,        \* the constructed objects, innermost scope last
          phase,       \* Tx -> where it is in its life
          balance,     \* the int the transactions share by reference
          original,    \* Tx -> original_state_
          committed,   \* Tx -> committed_
          buffer,      \* Tx -> text left in the stream's buffer
          bad,         \* Tx -> the stream is in a failed state
          log,         \* the lines of the log file, as the operating system has it
          disk,        \* the part of it a machine crash cannot take away
          crashed      \* the machine is gone

object == <<live, phase, original, committed, buffer, bad>>
vars   == <<object, balance, log, disk, crashed>>

Line(t, kind) == [tx |-> t, kind |-> kind]
Lines    == {Line(t, k) : t \in Tx, k \in {"START", "COMMIT", "ABORT"}}
Fragment == Line(NoTx, "fragment")       \* the last line, without its end
Garbage  == Line(NoTx, "garbage")        \* a fragment and a line glued together
Entries  == Lines \union {Fragment, Garbage}

Init ==
    /\ live = <<>>
    /\ phase = [t \in Tx |-> "new"]
    /\ balance = Initial
    /\ original = [t \in Tx |-> Initial]
    /\ committed = [t \in Tx |-> FALSE]
    /\ buffer = [t \in Tx |-> <<>>]
    /\ bad = [t \in Tx |-> FALSE]
    /\ log = <<>>
    /\ disk = <<>>
    /\ crashed = FALSE

Torn(file) == file # <<>> /\ Last(file) = Fragment

\* The file after text was written to its end: all of it, or only a part.
Written(file, text) ==
    IF Torn(file) /\ text # <<>> THEN Front(file) \o <<Garbage>> \o Tail(text) ELSE file \o text
PartWritten(file, text) ==
    IF Torn(file) \/ text = <<>> THEN file ELSE Append(file, Fragment)
Failed(file, text) == {file, PartWritten(file, text)}

\* What closing a file leaves of it: the buffer is written again, and no error is
\* reported.
Closed(file, text) == Failed(file, text) \union {Written(file, text)}

-----------------------------------------------------------------------------
(* The object                                                              *)

Unchanged == UNCHANGED <<disk, crashed>>

\* One thread: nothing else runs while commit() is between its two halves.
Ready == ~crashed /\ \A t \in Tx : phase[t] # "logged"

\* The constructor returns: the intent is in the log.
Construct(t) ==
    /\ Ready /\ phase[t] = "new" /\ Len(live) < MaxLive
    /\ phase' = [phase EXCEPT ![t] = "open"]
    /\ live' = Append(live, t)
    /\ original' = [original EXCEPT ![t] = balance]
    /\ log' = Written(log, <<Line(t, "START")>>)
    /\ UNCHANGED <<balance, committed, buffer, bad>> /\ Unchanged

\* The constructor throws: the file cannot be opened, or the flush fails and the
\* stream is closed as it goes.  No destructor of a Transaction runs.
ConstructThrows(t) ==
    /\ Ready /\ phase[t] = "new" /\ Len(live) < MaxLive
    /\ phase' = [phase EXCEPT ![t] = "gone"]
    /\ \/ log' = log
       \/ \E file \in Failed(log, <<Line(t, "START")>>) :
            log' \in Closed(file, <<Line(t, "START")>>)
    /\ UNCHANGED <<live, balance, original, committed, buffer, bad>> /\ Unchanged

\* Faulty variant: the state of the stream is not looked at after the flush.
CommitUnchecked(t) ==
    /\ Ready /\ phase[t] = "open" /\ ~committed[t] /\ ~bad[t]
    /\ phase' = [phase EXCEPT ![t] = "logged"]
    /\ \/ log' = Written(log, <<Line(t, "COMMIT")>>) /\ UNCHANGED <<buffer, bad>>
       \/ /\ log' \in Failed(log, <<Line(t, "COMMIT")>>)
          /\ buffer' = [buffer EXCEPT ![t] = <<Line(t, "COMMIT")>>]
          /\ bad' = [bad EXCEPT ![t] = TRUE]
    /\ UNCHANGED <<live, balance, original, committed>> /\ Unchanged

\* commit(): the COMMIT line is flushed.  On a stream that failed before, or once
\* committed, a call changes nothing.
CommitLogged(t) ==
    /\ Ready /\ phase[t] = "open" /\ ~committed[t] /\ ~bad[t]
    /\ phase' = [phase EXCEPT ![t] = "logged"]
    /\ log' = Written(log, <<Line(t, "COMMIT")>>)
    /\ UNCHANGED <<live, balance, original, committed, buffer, bad>> /\ Unchanged

\* Faulty variants: the stream forgets that it failed; the balance is updated
\* before the COMMIT line is flushed.
CommitThrowsUnmarked(t) ==
    /\ Ready /\ phase[t] = "open" /\ ~committed[t] /\ ~bad[t]
    /\ log' \in Failed(log, <<Line(t, "COMMIT")>>)
    /\ buffer' = [buffer EXCEPT ![t] = <<Line(t, "COMMIT")>>]
    /\ UNCHANGED <<live, phase, balance, original, committed, bad>> /\ Unchanged
CommitThrowsLate(t) ==
    /\ Ready /\ phase[t] = "open" /\ ~committed[t] /\ ~bad[t]
    /\ log' \in Failed(log, <<Line(t, "COMMIT")>>)
    /\ buffer' = [buffer EXCEPT ![t] = <<Line(t, "COMMIT")>>]
    /\ bad' = [bad EXCEPT ![t] = TRUE]
    /\ balance' = balance + Modification[t]
    /\ UNCHANGED <<live, phase, original, committed>> /\ Unchanged

\* commit(): the flush fails and it throws; the object lives on until its scope ends.
CommitThrows(t) ==
    /\ Ready /\ phase[t] = "open" /\ ~committed[t] /\ ~bad[t]
    /\ log' \in Failed(log, <<Line(t, "COMMIT")>>)
    /\ buffer' = [buffer EXCEPT ![t] = <<Line(t, "COMMIT")>>]
    /\ bad' = [bad EXCEPT ![t] = TRUE]
    /\ UNCHANGED <<live, phase, balance, original, committed>> /\ Unchanged

\* The rest of commit().
CommitApplied(t) ==
    /\ ~crashed /\ phase[t] = "logged"
    /\ phase' = [phase EXCEPT ![t] = "open"]
    /\ balance' = balance + Modification[t]
    /\ committed' = [committed EXCEPT ![t] = TRUE]
    /\ UNCHANGED <<live, original, buffer, bad, log>> /\ Unchanged

\* Faulty variant: the stream's error is cleared before ABORT is written.
DestroyCleared(t) ==
    /\ ~committed[t] /\ log' = Written(log, buffer[t] \o <<Line(t, "ABORT")>>)
    /\ balance' = original[t]

\* ~Transaction() when ABORT is flushed: the rollback.
RolledBack(t) ==
    /\ ~committed[t] /\ ~bad[t]
    /\ log' = Written(log, buffer[t] \o <<Line(t, "ABORT")>>)
    /\ balance' = original[t]

\* ~Transaction() when the flush of ABORT fails, or the stream had failed before
\* and drops it: the exception skips the rollback, and the file is closed.
NotRolledBack(t) ==
    /\ ~committed[t] /\ UNCHANGED balance
    /\ \/ bad[t] /\ log' \in Closed(log, buffer[t])
       \/ /\ ~bad[t]
          /\ \E file \in Failed(log, <<Line(t, "ABORT")>>) :
               log' \in Closed(file, <<Line(t, "ABORT")>>)

NothingToRollBack(t) == committed[t] /\ UNCHANGED <<balance, log>>

\* The innermost scope ends.
Destroy(t) ==
    /\ Ready /\ phase[t] = "open" /\ Last(live) = t
    /\ RolledBack(t) \/ NotRolledBack(t) \/ NothingToRollBack(t)
    /\ phase' = [phase EXCEPT ![t] = "gone"]
    /\ live' = Front(live)
    /\ UNCHANGED <<original, committed, buffer, bad>> /\ Unchanged

-----------------------------------------------------------------------------
(* The machine                                                             *)

\* The operating system writes the file back when it likes: the fsync of
\* durable_flush is applied to stdin.
Writeback ==
    /\ ~crashed /\ disk # log
    /\ disk' = log
    /\ UNCHANGED <<object, balance, log, crashed>>

\* A crash loses the memory and what the disk has not got.
Crash ==
    /\ ~crashed
    /\ crashed' = TRUE
    /\ log' = disk
    /\ UNCHANGED <<object, balance, disk>>

Next ==
    \/ \E t \in Tx :
         \/ Construct(t) \/ ConstructThrows(t)
         \/ CommitLogged(t) \/ CommitThrows(t) \/ CommitApplied(t)
         \/ Destroy(t)
    \/ Writeback
    \/ Crash

Spec == Init /\ [][Next]_vars

-----------------------------------------------------------------------------
(* Properties                                                              *)

\* Text stays in a buffer only behind a failed flush, and only a COMMIT line; the
\* live objects are those whose scope has not ended.
TypeOK ==
    /\ live \in Seq(Tx) /\ IsInjective(live)
    /\ ToSet(live) = {t \in Tx : phase[t] \in {"open", "logged"}}
    /\ phase \in [Tx -> {"new", "open", "logged", "gone"}]
    /\ balance \in Int /\ original \in [Tx -> Int]
    /\ committed \in [Tx -> BOOLEAN] /\ bad \in [Tx -> BOOLEAN]
    /\ buffer = [t \in Tx |-> IF bad[t] THEN <<Line(t, "COMMIT")>> ELSE <<>>]
    /\ log \in Seq(Entries) /\ disk \in Seq(Entries)
    /\ crashed \in BOOLEAN

Logged(t, kind) == Line(t, kind) \in ToSet(log)

\* A commit() that takes effect has handed its COMMIT line, whole, to the operating
\* system before: no flush that failed, no fragment an earlier transaction left and no
\* text it may still hold in a buffer makes the program apply a change that its log
\* does not have, or lose the line later.  That is what the death of the process
\* leaves; what a machine crash leaves is CommitOnDisk below.  For transactions that
\* do not overlap: another one's fragment would spoil the line.
CommitLoggedFirst ==
    \A t \in Tx : committed[t] /\ ~crashed => Logged(t, "COMMIT")

\* "Log the commit status to disk first" (src/src/transactions/transaction.cpp:53): a
\* transaction that is committed has its COMMIT line on the disk.  It need not: the
\* fsync of durable_flush is applied to stdin.
CommitOnDisk ==
    \A t \in Tx : committed[t] => Line(t, "COMMIT") \in ToSet(disk)

\* No transaction has both outcomes in the log: neither a failed flush, nor the
\* retry when the file is closed, nor a half written line makes it so.
OneOutcome == \A t \in Tx : ~(Logged(t, "COMMIT") /\ Logged(t, "ABORT"))

\* A COMMIT line belongs to a transaction that is committed or about to be; only
\* closing the file after a failed flush leaves one for a transaction that is not.
CommitLineMeansCommit ==
    \A t \in Tx : Logged(t, "COMMIT") => committed[t] \/ phase[t] = "logged" \/ bad[t]

\* Between transactions the balance is the initial one and the modifications of
\* the committed transactions, whichever step of the others failed.  For
\* transactions that do not overlap.
BalanceIsCommitted ==
    live = <<>> =>
      balance = Initial + SumFunctionOnSet(Modification, {t \in Tx : committed[t]})
=============================================================================
