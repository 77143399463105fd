---------------------------- MODULE LineChannel ----------------------------
(***************************************************************************)
(* What a pipe promises: the bytes the writer's stream accepted reach the  *)
(* reader in their order, cut into lines where the newlines are.  Bytes    *)
(* are lost only when a party fails, and at the end of a pipe an           *)
(* asynchronous reader loses a line that has no newline.                   *)
(***************************************************************************)
EXTENDS Naturals, Sequences

CONSTANT  IsEnd(_)     \* the byte is a newline
VARIABLES queue,       \* accepted and not yet delivered
          lines,       \* delivered
          failed,      \* a party failed
          cut,         \* a party failed, or a pipe ended before all was in it
          async        \* the reader loses an unfinished line; never changes

vars == <<queue, lines, failed, cut, async>>

Init == queue = <<>> /\ lines = <<>> /\ failed = FALSE /\ cut = FALSE /\ async \in BOOLEAN

Accept ==
    /\ queue' # <<>> /\ queue' = Append(queue, queue'[Len(queue')])
    /\ UNCHANGED lines

\* The first n bytes, with a newline nowhere but at their end.
Unbroken(n) == \A i \in 1..(n - 1) : ~IsEnd(queue[i])

\* A line without a newline is the last of its pipe.
Deliver == \E n \in 1..Len(queue) :
    /\ Unbroken(n) /\ (IsEnd(queue[n]) \/ (~async /\ (n = Len(queue) \/ cut')))
    /\ lines' = Append(lines, SubSeq(queue, 1, n))
    /\ queue' = SubSeq(queue, n + 1, Len(queue))

DropUnfinished == \E n \in 1..Len(queue) :
    /\ async /\ Unbroken(n) /\ ~IsEnd(queue[n])
    /\ queue' = SubSeq(queue, n + 1, Len(queue))
    /\ UNCHANGED lines

\* The bytes from the one place to the other are gone.
Lose ==
    /\ failed'
    /\ \E i \in 0..Len(queue) : \E j \in i..Len(queue) :
         queue' = SubSeq(queue, 1, i) \o SubSeq(queue, j + 1, Len(queue))
    /\ UNCHANGED lines

\* The pipe is cut.
Cut == UNCHANGED <<queue, lines>>

Next ==
    /\ Accept \/ Deliver \/ DropUnfinished \/ Lose \/ Cut
    /\ failed => failed'
    /\ cut => cut'
    /\ UNCHANGED async

Spec == Init /\ [][Next]_vars
=============================================================================
