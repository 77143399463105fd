------------------------- MODULE TransactionProofs -------------------------
(***************************************************************************)
(* Proofs about Transaction, for every set of transactions, and, where a   *)
(* theorem says so, for transactions that do not overlap (MaxLive = 1, as  *)
(* in the program's main()).                                               *)
(***************************************************************************)
EXTENDS Transaction, FiniteFolds, SequenceTheorems, TLAPS

-----------------------------------------------------------------------------
(* Files                                                                   *)

\* No whole line is lost, and none but those of extra appears.
Grows(file, longer, extra) ==
    /\ longer \in Seq(Entries)
    /\ ToSet(file) \intersect Lines \subseteq ToSet(longer)
    /\ ToSet(longer) \intersect Lines \subseteq ToSet(file) \union extra

\* Fragments and garbage are no lines.
LEMMA EntriesDistinct == Fragment \notin Lines /\ Garbage \notin Lines /\ Fragment # Garbage
<1>1. \A l \in Lines : l.tx \in Tx
  BY DEF Lines, Line
<1>2. Fragment.tx = NoTx /\ Garbage.tx = NoTx /\ Fragment.kind # Garbage.kind
  BY DEF Fragment, Garbage, Line
<1> QED BY <1>1, <1>2, NoTxAssumption

\* What appending an entry does.
LEMMA SetOfAppend ==
    ASSUME NEW S, NEW file \in Seq(S), NEW e \in S
    PROVE  /\ Append(file, e) \in Seq(S)
           /\ ToSet(Append(file, e)) = ToSet(file) \union {e}
           /\ Append(file, e) # <<>> /\ Last(Append(file, e)) = e
           /\ file \o <<e>> = Append(file, e)
<1>1. /\ Append(file, e) \in Seq(S)
      /\ Len(Append(file, e)) = Len(file) + 1
      /\ \A i \in 1..Len(file) : Append(file, e)[i] = file[i]
      /\ Append(file, e)[Len(file) + 1] = e
  OBVIOUS
<1>2. DOMAIN file = 1..Len(file) /\ DOMAIN Append(file, e) = 1..(Len(file) + 1) /\ Len(file) \in Nat
  BY <1>1, LenProperties
<1>3. ToSet(Append(file, e)) \subseteq ToSet(file) \union {e}
  BY <1>1, <1>2 DEF ToSet
<1>4. ToSet(file) \union {e} \subseteq ToSet(Append(file, e))
  <2>1. ASSUME NEW i \in 1..Len(file) PROVE file[i] \in ToSet(Append(file, e))
    BY <1>1, <1>2 DEF ToSet
  <2>2. e \in ToSet(Append(file, e))
    <3>1. Len(file) + 1 \in DOMAIN Append(file, e)
      BY <1>2
    <3> QED BY <1>1, <3>1 DEF ToSet
  <2> QED BY <2>1, <2>2, <1>2 DEF ToSet
<1>5. Append(file, e) # <<>> /\ Last(Append(file, e)) = e
  BY <1>1 DEF Last
<1>6. file \o <<e>> = Append(file, e)
  OBVIOUS
<1> QED BY <1>1, <1>3, <1>4, <1>5, <1>6

\* A torn file without its fragment has the same lines.
LEMMA FrontOfTorn ==
    ASSUME NEW file \in Seq(Entries), Torn(file)
    PROVE  /\ Front(file) \in Seq(Entries)
           /\ ToSet(Front(file)) \intersect Lines = ToSet(file) \intersect Lines
<1>1. file # <<>> /\ file[Len(file)] = Fragment
  BY DEF Torn, Last
<1>2. /\ Len(file) \in Nat /\ Len(file) > 0
      /\ DOMAIN file = 1..Len(file)
      /\ \A i \in 1..Len(file) : file[i] \in Entries
  BY <1>1, LenProperties, ElementOfSeq, EmptySeq
<1>3. /\ Front(file) \in Seq(Entries)
      /\ Len(Front(file)) = Len(file) - 1
      /\ \A i \in 1..(Len(file) - 1) : Front(file)[i] = file[i]
  <2> DEFINE n == Len(file) - 1
  <2>1. n \in Int /\ \A i \in 1..n : file[i] \in Entries
    BY <1>2
  <2>2. /\ SubSeq(file, 1, n) \in Seq(Entries)
        /\ Len(SubSeq(file, 1, n)) = IF 1 <= n THEN n - 1 + 1 ELSE 0
        /\ \A i \in 1..(n - 1 + 1) : SubSeq(file, 1, n)[i] = file[1 + i - 1]
    BY <2>1, SubSeqProperties
  <2> QED BY <2>2, <1>2 DEF Front
<1>4. DOMAIN Front(file) = 1..(Len(file) - 1)
  BY <1>3, LenProperties
<1>5. ToSet(Front(file)) \subseteq ToSet(file)
  BY <1>2, <1>3, <1>4 DEF ToSet
<1>6. ToSet(file) \intersect Lines \subseteq ToSet(Front(file))
  <2>1. ASSUME NEW i \in 1..Len(file), file[i] \in Lines PROVE file[i] \in ToSet(Front(file))
    <3>1. i # Len(file)
      BY <2>1, <1>1, EntriesDistinct
    <3>2. Len(file) \in Nat
      BY <1>2
    <3>3. i \in 1..(Len(file) - 1)
      BY <3>1, <3>2
    <3> QED BY <3>3, <1>3, <1>4 DEF ToSet
  <2> QED BY <2>1, <1>2 DEF ToSet
<1> QED BY <1>3, <1>5, <1>6

\* A line is written: it is whole if the file was, and the file is whole then.
LEMMA LineWritten ==
    ASSUME NEW file \in Seq(Entries), NEW l \in Lines
    PROVE  /\ Grows(file, Written(file, <<l>>), {l})
           /\ ~Torn(Written(file, <<l>>))
           /\ ~Torn(file) => l \in ToSet(Written(file, <<l>>))
<1>1. l \in Entries /\ Garbage \in Entries /\ l # Fragment
  BY EntriesDistinct DEF Entries
<1>2. CASE Torn(file)
  <2>1. Written(file, <<l>>) = Append(Front(file), Garbage)
    <3>1. <<l>> # <<>> /\ Tail(<<l>>) = <<>>
      OBVIOUS
    <3>2. Front(file) \o <<Garbage>> = Append(Front(file), Garbage) /\ Append(Front(file), Garbage) \in Seq(Entries)
      BY <1>1, <1>2, FrontOfTorn, SetOfAppend
    <3>3. Append(Front(file), Garbage) \o <<>> = Append(Front(file), Garbage)
      BY <3>2, ConcatEmptySeq
    <3> QED BY <1>2, <3>1, <3>2, <3>3 DEF Written
  <2>2. Front(file) \in Seq(Entries) /\ ToSet(Front(file)) \intersect Lines = ToSet(file) \intersect Lines
    BY <1>2, FrontOfTorn
  <2>3. /\ Append(Front(file), Garbage) \in Seq(Entries)
        /\ ToSet(Append(Front(file), Garbage)) = ToSet(Front(file)) \union {Garbage}
        /\ Last(Append(Front(file), Garbage)) = Garbage
    BY <1>1, <2>2, SetOfAppend
  <2>4. Grows(file, Written(file, <<l>>), {l})
    BY <2>1, <2>2, <2>3, EntriesDistinct DEF Grows
  <2>5. ~Torn(Written(file, <<l>>))
    BY <2>1, <2>3, EntriesDistinct DEF Torn
  <2> QED BY <1>2, <2>4, <2>5
<1>3. CASE ~Torn(file)
  <2>1. Written(file, <<l>>) = Append(file, l)
    BY <1>1, <1>3, SetOfAppend DEF Written
  <2>2. /\ Append(file, l) \in Seq(Entries)
        /\ ToSet(Append(file, l)) = ToSet(file) \union {l}
        /\ Last(Append(file, l)) = l
    BY <1>1, SetOfAppend
  <2>3. Grows(file, Written(file, <<l>>), {l})
    BY <2>1, <2>2 DEF Grows
  <2>4. ~Torn(Written(file, <<l>>))
    BY <1>1, <2>1, <2>2 DEF Torn
  <2> QED BY <2>1, <2>2, <2>3, <2>4
<1> QED BY <1>2, <1>3

\* A write that fails leaves the lines as they were.
LEMMA LineFailed ==
    ASSUME NEW file \in Seq(Entries), NEW l \in Lines, NEW rest \in Failed(file, <<l>>)
    PROVE  Grows(file, rest, {})
<1>1. CASE rest = file
  BY <1>1 DEF Grows
<1>2. CASE rest = Append(file, Fragment)
  BY <1>2, SetOfAppend, EntriesDistinct DEF Grows, Entries
<1> QED BY <1>1, <1>2 DEF Failed, PartWritten

\* Closing the file after that may add the line.
LEMMA LineClosed ==
    ASSUME NEW file \in Seq(Entries), NEW l \in Lines, NEW rest \in Closed(file, <<l>>)
    PROVE  Grows(file, rest, {l})
BY LineFailed, LineWritten DEF Closed, Grows

\* The lines of transactions are lines.
LEMMA LineIsLine ==
    ASSUME NEW t \in Tx, NEW k \in {"START", "COMMIT", "ABORT"}
    PROVE  Line(t, k) \in Lines
BY DEF Lines

\* Two lines are the same only if they say the same of the same transaction.
LEMMA LinesDiffer ==
    \A t, u, k, j : Line(t, k) = Line(u, j) <=> t = u /\ k = j
BY DEF Line

-----------------------------------------------------------------------------
(* Types                                                                   *)

\* A scope begins.
LEMMA Pushed ==
    ASSUME NEW s \in Seq(Tx), IsInjective(s), NEW t \in Tx, t \notin ToSet(s)
    PROVE  /\ Append(s, t) \in Seq(Tx) /\ IsInjective(Append(s, t))
           /\ ToSet(Append(s, t)) = ToSet(s) \union {t}
<1>1. /\ Append(s, t) \in Seq(Tx) /\ ToSet(Append(s, t)) = ToSet(s) \union {t}
  BY SetOfAppend
<1>2. /\ Len(s) \in Nat /\ DOMAIN s = 1..Len(s) /\ DOMAIN Append(s, t) = 1..(Len(s) + 1)
      /\ \A i \in 1..Len(s) : Append(s, t)[i] = s[i]
      /\ Append(s, t)[Len(s) + 1] = t
  BY <1>1, LenProperties
<1>3. \A i \in 1..Len(s) : s[i] # t
  BY <1>2 DEF ToSet
<1>4. ASSUME NEW i \in 1..(Len(s) + 1), NEW j \in 1..(Len(s) + 1),
             Append(s, t)[i] = Append(s, t)[j]
      PROVE  i = j
  <2>1. CASE i \in 1..Len(s) /\ j \in 1..Len(s)
    BY <1>2, <1>4, <2>1 DEF IsInjective
  <2>2. CASE i = Len(s) + 1 \/ j = Len(s) + 1
    <3>1. i \in 1..Len(s) \/ i = Len(s) + 1
      BY <1>2
    <3>2. j \in 1..Len(s) \/ j = Len(s) + 1
      BY <1>2
    <3> QED BY <1>2, <1>3, <1>4, <2>2, <3>1, <3>2
  <2> QED BY <1>2, <2>1, <2>2
<1> QED BY <1>1, <1>2, <1>4 DEF IsInjective

\* The innermost scope ends.
LEMMA Popped ==
    ASSUME NEW s \in Seq(Tx), IsInjective(s), s # <<>>
    PROVE  /\ Front(s) \in Seq(Tx) /\ IsInjective(Front(s))
           /\ ToSet(Front(s)) = ToSet(s) \ {Last(s)}
<1> DEFINE n == Len(s) - 1
<1>1. Len(s) \in Nat /\ Len(s) > 0
  BY LenProperties, EmptySeq
<1>2. n \in Nat /\ n < Len(s) /\ Len(s) = n + 1
  BY <1>1
<1> HIDE DEF n
<1>3. DOMAIN s = 1..Len(s) /\ \A i \in 1..Len(s) : s[i] \in Tx
  BY LenProperties, ElementOfSeq
<1>4. \A i \in 1..n : i \in 1..Len(s) /\ i # Len(s)
  BY <1>1, <1>2
<1>5. \A i \in 1..Len(s) : i \in 1..n \/ i = Len(s)
  BY <1>1, <1>2
<1>6. /\ Front(s) \in Seq(Tx) /\ Len(Front(s)) = n
      /\ \A i \in 1..n : Front(s)[i] = s[i]
  <2>1. n \in Int /\ \A i \in 1..n : s[i] \in Tx
    BY <1>2, <1>3, <1>4
  <2>2. /\ SubSeq(s, 1, n) \in Seq(Tx)
        /\ Len(SubSeq(s, 1, n)) = IF 1 <= n THEN n - 1 + 1 ELSE 0
        /\ \A i \in 1..(n - 1 + 1) : SubSeq(s, 1, n)[i] = s[1 + i - 1]
    BY <2>1, SubSeqProperties
  <2>3. Front(s) = SubSeq(s, 1, n)
    BY DEF Front, n
  <2> QED BY <1>2, <2>2, <2>3
<1>7. DOMAIN Front(s) = 1..n
  BY <1>6, LenProperties
<1>8. Len(s) \in 1..Len(s)
  BY <1>1
<1>9. IsInjective(Front(s))
  BY <1>3, <1>4, <1>6, <1>7 DEF IsInjective
<1>10. ToSet(Front(s)) = ToSet(s) \ {Last(s)}
  <2>1. ASSUME NEW i \in 1..n PROVE Front(s)[i] \in ToSet(s) \ {Last(s)}
    BY <1>3, <1>4, <1>6, <1>8 DEF ToSet, Last, IsInjective
  <2>2. ASSUME NEW i \in 1..Len(s), s[i] # Last(s) PROVE s[i] \in ToSet(Front(s))
    BY <1>5, <1>6, <1>7, <2>2 DEF ToSet, Last
  <2> QED BY <1>3, <1>7, <2>1, <2>2 DEF ToSet
<1> QED BY <1>6, <1>9, <1>10

\* Who is alive depends on the phases only.
LEMMA LiveTx ==
    ASSUME TypeOK, NEW t \in Tx
    PROVE  t \in ToSet(live) <=> phase[t] \in {"open", "logged"}
BY DEF TypeOK

\* The start is well typed.
LEMMA TypeInit == Init => TypeOK
<1> SUFFICES ASSUME Init PROVE TypeOK
  OBVIOUS
<1>1. live \in Seq(Tx) /\ IsInjective(live) /\ ToSet(live) = {}
  BY EmptySeq DEF Init, IsInjective, ToSet
<1>2. log \in Seq(Entries) /\ disk \in Seq(Entries)
  BY EmptySeq DEF Init
<1> QED BY <1>1, <1>2, ModificationAssumption DEF Init, TypeOK

\* A file that grows twice has grown.
LEMMA GrowsInTurn ==
    ASSUME NEW f, NEW g, NEW h, NEW S, NEW T, Grows(f, g, S), Grows(g, h, T)
    PROVE  Grows(f, h, S \union T)
BY DEF Grows

\* One that stays as it is may be said to grow by anything.
LEMMA GrowsNot ==
    ASSUME NEW f \in Seq(Entries), NEW S
    PROVE  Grows(f, f, S)
BY DEF Grows

\* One that grew by less may be said to have grown by more.
LEMMA GrowsLess ==
    ASSUME NEW f, NEW g, NEW S, NEW T, Grows(f, g, S), S \subseteq T
    PROVE  Grows(f, g, T)
BY DEF Grows

\* A line that failed, and the file closed after it.
LEMMA FailedThenClosed ==
    ASSUME NEW f \in Seq(Entries), NEW l \in Lines, NEW g \in Failed(f, <<l>>), NEW h \in Closed(g, <<l>>)
    PROVE  Grows(f, h, {l})
<1>1. Grows(f, g, {}) /\ g \in Seq(Entries)
  BY LineFailed DEF Grows
<1>2. Grows(g, h, {l})
  BY <1>1, LineClosed
<1>3. Grows(f, h, {} \union {l})
  BY <1>1, <1>2, GrowsInTurn
<1> QED BY <1>3, GrowsLess

\* What each call may add to the log.
Outcome(t) == IF committed[t] THEN {} ELSE IF bad[t] THEN {Line(t, "COMMIT")} ELSE {Line(t, "ABORT")}

\* The constructor adds its START line at most.
LEMMA LogOfConstruct ==
    ASSUME TypeOK, NEW t \in Tx
    PROVE  /\ Construct(t) => Grows(log, log', {Line(t, "START")}) /\ ~Torn(log')
           /\ ConstructThrows(t) => Grows(log, log', {Line(t, "START")})
<1>1. log \in Seq(Entries) /\ Line(t, "START") \in Lines
  BY LineIsLine DEF TypeOK
<1>2. Construct(t) => Grows(log, log', {Line(t, "START")}) /\ ~Torn(log')
  BY <1>1, LineWritten DEF Construct
<1>3. ConstructThrows(t) => Grows(log, log', {Line(t, "START")})
  BY <1>1, FailedThenClosed, GrowsNot DEF ConstructThrows
<1> QED BY <1>2, <1>3

\* commit() adds its COMMIT line, or nothing when it throws.
LEMMA LogOfCommit ==
    ASSUME TypeOK, NEW t \in Tx
    PROVE  /\ CommitLogged(t) => /\ Grows(log, log', {Line(t, "COMMIT")}) /\ ~Torn(log')
                                 /\ ~Torn(log) => Line(t, "COMMIT") \in ToSet(log')
           /\ CommitThrows(t) => Grows(log, log', {})
           /\ CommitApplied(t) => log' = log
<1>1. log \in Seq(Entries) /\ Line(t, "COMMIT") \in Lines
  BY LineIsLine DEF TypeOK
<1> QED BY <1>1, LineWritten, LineFailed DEF CommitLogged, CommitThrows, CommitApplied

\* The destructor adds the line of the outcome at most.
LEMMA LogOfDestroy ==
    ASSUME TypeOK, NEW t \in Tx, Destroy(t)
    PROVE  Grows(log, log', Outcome(t))
<1>1. log \in Seq(Entries) /\ Line(t, "COMMIT") \in Lines /\ Line(t, "ABORT") \in Lines
  BY LineIsLine DEF TypeOK
<1>2. buffer[t] = IF bad[t] THEN <<Line(t, "COMMIT")>> ELSE <<>>
  BY DEF TypeOK
<1>3. CASE RolledBack(t)
  <2>1. Outcome(t) = {Line(t, "ABORT")} /\ log' = Written(log, <<Line(t, "ABORT")>>)
    <3>1. <<>> \o <<Line(t, "ABORT")>> = <<Line(t, "ABORT")>>
      OBVIOUS
    <3> QED BY <1>2, <1>3, <3>1 DEF RolledBack, Outcome
  <2> QED BY <1>1, <2>1, LineWritten
<1>4. CASE NotRolledBack(t) /\ bad[t]
  <2>1. Outcome(t) = {Line(t, "COMMIT")} /\ log' \in Closed(log, <<Line(t, "COMMIT")>>)
    BY <1>2, <1>4 DEF NotRolledBack, Outcome
  <2> QED BY <1>1, <2>1, LineClosed
<1>5. CASE NotRolledBack(t) /\ ~bad[t]
  BY <1>1, <1>5, FailedThenClosed DEF NotRolledBack, Outcome
<1>6. CASE NothingToRollBack(t)
  BY <1>1, <1>6, GrowsNot DEF NothingToRollBack
<1> QED BY <1>3, <1>4, <1>5, <1>6 DEF Destroy

-----------------------------------------------------------------------------
(* The types are kept.                                                     *)

\* Every step keeps the types.
LEMMA TypeStep == TypeOK /\ [Next]_vars => TypeOK'
<1> SUFFICES ASSUME TypeOK, [Next]_vars PROVE TypeOK'
  OBVIOUS
<1> USE DEF TypeOK, object
<1>1. ASSUME NEW t \in Tx, Construct(t) PROVE TypeOK'
  <2>1. log' \in Seq(Entries)
    BY <1>1, LogOfConstruct DEF Grows
  <2>2. t \notin ToSet(live)
    BY <1>1 DEF Construct
  <2>3. /\ live' \in Seq(Tx) /\ IsInjective(live')
        /\ ToSet(live') = ToSet(live) \union {t}
    BY <1>1, <2>2, Pushed DEF Construct
  <2>4. ToSet(live') = {u \in Tx : phase'[u] \in {"open", "logged"}}
    BY <1>1, <2>3 DEF Construct
  <2> QED BY <1>1, <2>1, <2>3, <2>4 DEF Construct, Unchanged
<1>2. ASSUME NEW t \in Tx, ConstructThrows(t) PROVE TypeOK'
  <2>1. log' \in Seq(Entries)
    BY <1>2, LogOfConstruct DEF Grows
  <2> QED BY <1>2, <2>1 DEF ConstructThrows, Unchanged
<1>3. ASSUME NEW t \in Tx, CommitLogged(t) PROVE TypeOK'
  <2>1. log' \in Seq(Entries)
    BY <1>3, LogOfCommit DEF Grows
  <2> QED BY <1>3, <2>1 DEF CommitLogged, Unchanged
<1>4. ASSUME NEW t \in Tx, CommitThrows(t) PROVE TypeOK'
  <2>1. log' \in Seq(Entries)
    BY <1>4, LogOfCommit DEF Grows
  <2>2. buffer' = [u \in Tx |-> IF bad'[u] THEN <<Line(u, "COMMIT")>> ELSE <<>>]
    BY <1>4 DEF CommitThrows
  <2> QED BY <1>4, <2>1, <2>2 DEF CommitThrows, Unchanged
<1>5. ASSUME NEW t \in Tx, CommitApplied(t) PROVE TypeOK'
  <2>1. balance' \in Int
    BY <1>5, ModificationAssumption DEF CommitApplied
  <2> QED BY <1>5, <2>1 DEF CommitApplied, Unchanged
<1>6. ASSUME NEW t \in Tx, Destroy(t) PROVE TypeOK'
  <2>1. log' \in Seq(Entries)
    BY <1>6, LogOfDestroy DEF Grows
  <2>2. balance' \in Int
    BY <1>6 DEF Destroy, RolledBack, NotRolledBack, NothingToRollBack
  <2>3. t \in ToSet(live) /\ live # <<>>
    <3>1. t \in ToSet(live)
      BY <1>6 DEF Destroy
    <3>2. ToSet(<<>>) = {}
      BY DEF ToSet
    <3> QED BY <3>1, <3>2
  <2>4. /\ live' \in Seq(Tx) /\ IsInjective(live')
        /\ ToSet(live') = ToSet(live) \ {t}
    BY <1>6, <2>3, Popped DEF Destroy
  <2>5. ToSet(live') = {u \in Tx : phase'[u] \in {"open", "logged"}}
    BY <1>6, <2>4 DEF Destroy
  <2> QED BY <1>6, <2>1, <2>2, <2>4, <2>5 DEF Destroy, Unchanged
<1>7. CASE Writeback
  BY <1>7 DEF Writeback
<1>8. CASE Crash
  BY <1>8 DEF Crash
<1>9. CASE UNCHANGED vars
  BY <1>9 DEF vars
<1> QED BY <1>1, <1>2, <1>3, <1>4, <1>5, <1>6, <1>7, <1>8, <1>9 DEF Next

\* The types of the transaction's state: text stays in a stream's buffer only
\* behind a failed flush, and the live objects are those whose scope has not ended.
THEOREM TypeCorrect == Spec => []TypeOK
BY TypeInit, TypeStep, PTL DEF Spec

-----------------------------------------------------------------------------
(* What the log says, for transactions that may overlap                    *)

\* How far a transaction has come shows in its flags, a line of the log in how far
\* it has come, and the disk has no line the log has not.
Flags(t) ==
    /\ phase[t] = "new" => ~committed[t] /\ ~bad[t]
    /\ phase[t] = "logged" => ~committed[t] /\ ~bad[t]
    /\ committed[t] => ~bad[t]
CommitLine(t) == Logged(t, "COMMIT") => committed[t] \/ phase[t] = "logged" \/ bad[t]
AbortLine(t) == Logged(t, "ABORT") => phase[t] = "gone" /\ ~committed[t] /\ ~bad[t]
DiskBehind == ToSet(disk) \intersect Lines \subseteq ToSet(log)
LogInv == (\A t \in Tx : Flags(t) /\ CommitLine(t) /\ AbortLine(t)) /\ DiskBehind

\* The log is empty at the start.
LEMMA LogInit == Init => LogInv
BY DEF Init, LogInv, Flags, CommitLine, AbortLine, DiskBehind, Logged, ToSet

\* A line that is new in the log is one the step may add.
LEMMA NewLine ==
    ASSUME NEW S, Grows(log, log', S), NEW t \in Tx, NEW k \in {"START", "COMMIT", "ABORT"},
           Logged(t, k)'
    PROVE  Logged(t, k) \/ Line(t, k) \in S
BY LineIsLine DEF Grows, Logged

\* A log that grows is still ahead of the disk.
LEMMA DiskStaysBehind ==
    ASSUME DiskBehind, NEW S, Grows(log, log', S), disk' = disk
    PROVE  DiskBehind'
BY DEF DiskBehind, Grows

\* Every step keeps what the log says true.
LEMMA LogStep == TypeOK /\ LogInv /\ [Next]_vars => LogInv'
<1> SUFFICES ASSUME TypeOK, LogInv, [Next]_vars PROVE LogInv'
  OBVIOUS
<1>1. ASSUME NEW t \in Tx, Construct(t) \/ ConstructThrows(t) PROVE LogInv'
  <2>1. Grows(log, log', {Line(t, "START")}) /\ disk' = disk
    BY <1>1, LogOfConstruct DEF Construct, ConstructThrows, Unchanged
  <2>2. ASSUME NEW u \in Tx, NEW k \in {"COMMIT", "ABORT"}, Logged(u, k)' PROVE Logged(u, k)
    BY <2>1, <2>2, NewLine, LinesDiffer
  <2>3. ASSUME NEW u \in Tx PROVE (Flags(u) /\ CommitLine(u) /\ AbortLine(u))'
    BY <1>1, <2>2 DEF Construct, ConstructThrows, LogInv, Flags, CommitLine, AbortLine, TypeOK
  <2> QED BY <2>1, <2>3, DiskStaysBehind DEF LogInv
<1>2. ASSUME NEW t \in Tx, CommitLogged(t) PROVE LogInv'
  <2>1. Grows(log, log', {Line(t, "COMMIT")}) /\ disk' = disk
    BY <1>2, LogOfCommit DEF CommitLogged, Unchanged
  <2>2. ASSUME NEW u \in Tx, Logged(u, "ABORT")' PROVE Logged(u, "ABORT")
    BY <2>1, <2>2, NewLine, LinesDiffer
  <2>3. ASSUME NEW u \in Tx, Logged(u, "COMMIT")' PROVE Logged(u, "COMMIT") \/ u = t
    BY <2>1, <2>3, NewLine, LinesDiffer
  <2>4. ASSUME NEW u \in Tx PROVE (Flags(u) /\ CommitLine(u) /\ AbortLine(u))'
    BY <1>2, <2>2, <2>3 DEF CommitLogged, LogInv, Flags, CommitLine, AbortLine, TypeOK
  <2> QED BY <2>1, <2>4, DiskStaysBehind DEF LogInv
<1>3. ASSUME NEW t \in Tx, CommitThrows(t) PROVE LogInv'
  <2>1. Grows(log, log', {}) /\ disk' = disk
    BY <1>3, LogOfCommit DEF CommitThrows, Unchanged
  <2>2. ASSUME NEW u \in Tx, NEW k \in {"COMMIT", "ABORT"}, Logged(u, k)' PROVE Logged(u, k)
    BY <2>1, <2>2, NewLine
  <2>3. ASSUME NEW u \in Tx PROVE (Flags(u) /\ CommitLine(u) /\ AbortLine(u))'
    BY <1>3, <2>2 DEF CommitThrows, LogInv, Flags, CommitLine, AbortLine, TypeOK
  <2> QED BY <2>1, <2>3, DiskStaysBehind DEF LogInv
<1>4. ASSUME NEW t \in Tx, CommitApplied(t) PROVE LogInv'
  BY <1>4 DEF CommitApplied, Unchanged, LogInv, Flags, CommitLine, AbortLine, DiskBehind, Logged, TypeOK
<1>5. ASSUME NEW t \in Tx, Destroy(t) PROVE LogInv'
  <2>1. Grows(log, log', Outcome(t)) /\ disk' = disk
    BY <1>5, LogOfDestroy DEF Destroy, Unchanged
  <2>2. ASSUME NEW u \in Tx, Logged(u, "ABORT")' PROVE Logged(u, "ABORT") \/ (u = t /\ ~committed[t] /\ ~bad[t])
    BY <2>1, <2>2, NewLine, LinesDiffer DEF Outcome
  <2>3. ASSUME NEW u \in Tx, Logged(u, "COMMIT")' PROVE Logged(u, "COMMIT") \/ (u = t /\ bad[t])
    BY <2>1, <2>3, NewLine, LinesDiffer DEF Outcome
  <2>4. ASSUME NEW u \in Tx PROVE (Flags(u) /\ CommitLine(u) /\ AbortLine(u))'
    BY <1>5, <2>2, <2>3 DEF Destroy, LogInv, Flags, CommitLine, AbortLine, TypeOK
  <2> QED BY <2>1, <2>4, DiskStaysBehind DEF LogInv
<1>6. CASE Writeback
  BY <1>6 DEF Writeback, object, LogInv, Flags, CommitLine, AbortLine, DiskBehind, Logged
<1>7. CASE Crash
  <2>1. log' = disk /\ disk' = disk /\ UNCHANGED object
    BY <1>7 DEF Crash
  <2>2. ASSUME NEW u \in Tx, NEW k \in {"COMMIT", "ABORT"}, Logged(u, k)' PROVE Logged(u, k)
    BY <2>1, <2>2, LineIsLine DEF LogInv, DiskBehind, Logged
  <2>3. ASSUME NEW u \in Tx PROVE (Flags(u) /\ CommitLine(u) /\ AbortLine(u))'
    BY <2>1, <2>2 DEF object, LogInv, Flags, CommitLine, AbortLine
  <2> QED BY <2>1, <2>3 DEF LogInv, DiskBehind
<1>8. CASE UNCHANGED vars
  BY <1>8 DEF vars, object, LogInv, Flags, CommitLine, AbortLine, DiskBehind, Logged
<1> QED BY <1>1, <1>2, <1>3, <1>4, <1>5, <1>6, <1>7, <1>8 DEF Next

\* So it always is.
LEMMA LogSound == Spec => []LogInv
<1>1. TypeOK /\ LogInv /\ [Next]_vars => TypeOK' /\ LogInv'
  BY TypeStep, LogStep
<1> QED BY TypeInit, LogInit, <1>1, PTL DEF Spec

\* Only a transaction that is committed, about to be, or whose flush failed has a
\* COMMIT line, also after a crash.
THEOREM CommitLineSound == Spec => []CommitLineMeansCommit
<1>1. LogInv => CommitLineMeansCommit
  BY DEF LogInv, CommitLine, CommitLineMeansCommit
<1> QED BY <1>1, LogSound, PTL

\* No transaction has both outcomes in the log, also after a crash.
THEOREM OutcomeUnique == Spec => []OneOutcome
<1>1. LogInv => OneOutcome
  BY DEF LogInv, Flags, CommitLine, AbortLine, OneOutcome
<1> QED BY <1>1, LogSound, PTL

-----------------------------------------------------------------------------
(* Transactions that do not overlap                                        *)

\* The log is whole while a transaction may commit; the COMMIT line is there before
\* the balance is touched, and the balance is what the transaction found until then.
WholeLog(t) == phase[t] = "open" /\ ~committed[t] /\ ~bad[t] => ~Torn(log)
CommitFirst(t) == committed[t] \/ phase[t] = "logged" => Logged(t, "COMMIT")
Untouched(t) == phase[t] \in {"open", "logged"} /\ ~committed[t] => balance = original[t]
AloneInv ==
    /\ Len(live) <= 1
    /\ ~crashed => \A t \in Tx : WholeLog(t) /\ CommitFirst(t) /\ Untouched(t)

\* Nobody is alive at the start.
LEMMA AloneInit == Init => AloneInv
<1> SUFFICES ASSUME Init PROVE AloneInv
  OBVIOUS
<1>1. Len(live) = 0
  BY DEF Init
<1> QED BY <1>1 DEF Init, AloneInv, WholeLog, CommitFirst, Untouched

\* Who is alive is alone, and nobody is when an object is constructed.
LEMMA OnlyOne ==
    ASSUME TypeOK, Len(live) <= 1, NEW t \in Tx, NEW u \in Tx,
           phase[t] \in {"open", "logged"}, phase[u] \in {"open", "logged"}
    PROVE  t = u /\ Len(live) = 1
<1>1. t \in ToSet(live) /\ u \in ToSet(live) /\ live \in Seq(Tx)
  BY LiveTx DEF TypeOK
<1>2. DOMAIN live = 1..Len(live) /\ Len(live) \in Nat
  BY <1>1, LenProperties
<1>3. CASE Len(live) = 0
  <2>1. 1..Len(live) = {}
    BY <1>3
  <2> QED BY <1>1, <1>2, <2>1 DEF ToSet
<1>4. CASE Len(live) = 1
  <2>1. 1..Len(live) = {1}
    BY <1>4
  <2>2. t = live[1] /\ u = live[1]
    BY <1>1, <1>2, <2>1 DEF ToSet
  <2> QED BY <1>4, <2>2
<1> QED BY <1>2, <1>3, <1>4

\* Next to the one that is alive, all others are new or gone.
LEMMA NobodyElse ==
    ASSUME TypeOK, Len(live) <= 1, NEW t \in Tx, phase[t] \in {"open", "logged"}
    PROVE  \A u \in Tx : u # t => phase[u] \in {"new", "gone"}
<1>1. \A u \in Tx : phase[u] \in {"new", "open", "logged", "gone"}
  BY DEF TypeOK
<1> QED BY <1>1, OnlyOne

\* When an object may be constructed, no other one is alive.
LEMMA NobodyYet ==
    ASSUME TypeOK, MaxLive = 1, Len(live) < MaxLive
    PROVE  Len(live) = 0 /\ \A u \in Tx : phase[u] \in {"new", "gone"}
<1>1. live \in Seq(Tx) /\ Len(live) \in Nat
  BY LenProperties DEF TypeOK
<1>2. Len(live) = 0
  BY <1>1
<1>3. ASSUME NEW u \in Tx, phase[u] \in {"open", "logged"} PROVE FALSE
  <2>1. Len(live) <= 1 /\ Len(live) # 1
    BY <1>2
  <2> QED BY <1>3, <2>1, OnlyOne
<1> QED BY <1>2, <1>3 DEF TypeOK

\* A line stays in a log that grows.
LEMMA StillLogged ==
    ASSUME TypeOK, NEW S, Grows(log, log', S), NEW t \in Tx, NEW k \in {"START", "COMMIT", "ABORT"}, Logged(t, k)
    PROVE  Logged(t, k)'
BY LineIsLine DEF Grows, Logged

\* Every step of transactions that do not overlap keeps log and balance in agreement.
LEMMA AloneStep ==
    ASSUME MaxLive = 1, TypeOK, LogInv, AloneInv, [Next]_vars
    PROVE  AloneInv'
<1>1. ASSUME NEW t \in Tx, Construct(t) PROVE AloneInv'
  <2>1. Grows(log, log', {Line(t, "START")}) /\ ~Torn(log') /\ ~crashed
    BY <1>1, LogOfConstruct DEF Construct, Ready
  <2>2. Len(live) = 0 /\ \A u \in Tx : phase[u] \in {"new", "gone"}
    BY <1>1, NobodyYet DEF Construct
  <2>3. Len(live') = 1
    BY <1>1, <2>2 DEF Construct, TypeOK
  <2>4. ASSUME NEW u \in Tx PROVE (WholeLog(u) /\ CommitFirst(u) /\ Untouched(u))'
    <3>1. committed' = committed /\ ~Torn(log)'
      BY <1>1, <2>1 DEF Construct
    <3>2. u # t => phase'[u] = phase[u]
      BY <1>1 DEF Construct, TypeOK
    <3>3. phase'[t] = "open" /\ balance' = original'[t] /\ ~committed[t]
      BY <1>1 DEF Construct, TypeOK, LogInv, Flags
    <3>4. committed[u] => Logged(u, "COMMIT")'
      BY <2>1, StillLogged DEF AloneInv, CommitFirst
    <3> QED BY <2>2, <3>1, <3>2, <3>3, <3>4 DEF WholeLog, CommitFirst, Untouched
  <2> QED BY <2>3, <2>4 DEF AloneInv
<1>2. ASSUME NEW t \in Tx, ConstructThrows(t) PROVE AloneInv'
  <2>1. Grows(log, log', {Line(t, "START")}) /\ ~crashed
    BY <1>2, LogOfConstruct DEF ConstructThrows, Ready
  <2>2. Len(live) = 0 /\ \A u \in Tx : phase[u] \in {"new", "gone"}
    BY <1>2, NobodyYet DEF ConstructThrows
  <2>3. \A u \in Tx : phase'[u] \in {"new", "gone"}
    BY <1>2, <2>2 DEF ConstructThrows, TypeOK
  <2>4. \A u \in Tx : committed'[u] => Logged(u, "COMMIT")'
    BY <1>2, <2>1, StillLogged DEF ConstructThrows, AloneInv, CommitFirst
  <2> QED BY <1>2, <2>2, <2>3, <2>4 DEF ConstructThrows, AloneInv, WholeLog, CommitFirst, Untouched
<1>3. ASSUME NEW t \in Tx, CommitLogged(t) PROVE AloneInv'
  <2>1. /\ Grows(log, log', {Line(t, "COMMIT")}) /\ ~crashed
        /\ ~Torn(log) => Line(t, "COMMIT") \in ToSet(log')
    BY <1>3, LogOfCommit DEF CommitLogged, Ready
  <2>2. phase[t] = "open" /\ ~committed[t] /\ ~bad[t] /\ Len(live) <= 1
    BY <1>3 DEF CommitLogged, AloneInv
  <2>3. ~Torn(log) /\ balance = original[t]
    BY <2>1, <2>2 DEF AloneInv, WholeLog, Untouched
  <2>4. \A u \in Tx : u # t => phase[u] \in {"new", "gone"}
    BY <2>2, NobodyElse
  <2>5. \A u \in Tx : committed[u] \/ u = t => Logged(u, "COMMIT")'
    BY <2>1, <2>3, StillLogged DEF AloneInv, CommitFirst, Logged
  <2>6. \A u \in Tx : phase'[u] = IF u = t THEN "logged" ELSE phase[u]
    BY <1>3 DEF CommitLogged, TypeOK
  <2> QED BY <1>3, <2>2, <2>3, <2>4, <2>5, <2>6 DEF CommitLogged, AloneInv, WholeLog, CommitFirst, Untouched
<1>4. ASSUME NEW t \in Tx, CommitThrows(t) PROVE AloneInv'
  <2>1. Grows(log, log', {}) /\ ~crashed
    BY <1>4, LogOfCommit DEF CommitThrows, Ready
  <2>2. phase[t] = "open" /\ Len(live) <= 1
    BY <1>4 DEF CommitThrows, AloneInv
  <2>3. \A u \in Tx : u # t => phase[u] \in {"new", "gone"}
    BY <2>2, NobodyElse
  <2>4. \A u \in Tx : committed[u] \/ phase[u] = "logged" => Logged(u, "COMMIT")'
    BY <2>1, StillLogged DEF AloneInv, CommitFirst
  <2>5. bad'[t]
    BY <1>4 DEF CommitThrows, TypeOK
  <2>6. \A u \in Tx : phase[u] = "open" => u = t
    BY <2>3
  <2> QED BY <1>4, <2>1, <2>4, <2>5, <2>6 DEF CommitThrows, AloneInv, WholeLog, CommitFirst, Untouched
<1>5. ASSUME NEW t \in Tx, CommitApplied(t) PROVE AloneInv'
  <2>1. phase[t] = "logged" /\ ~crashed /\ log' = log /\ Len(live) <= 1
    BY <1>5 DEF CommitApplied, AloneInv
  <2>2. \A u \in Tx : u # t => phase[u] \in {"new", "gone"}
    BY <2>1, NobodyElse
  <2>3. \A u \in Tx : /\ phase'[u] = IF u = t THEN "open" ELSE phase[u]
                      /\ committed'[u] = IF u = t THEN TRUE ELSE committed[u]
    BY <1>5 DEF CommitApplied, TypeOK
  <2>4. \A u \in Tx : committed[u] \/ u = t => Logged(u, "COMMIT")'
    BY <2>1 DEF AloneInv, CommitFirst, Logged
  <2> QED BY <1>5, <2>1, <2>2, <2>3, <2>4 DEF CommitApplied, AloneInv, WholeLog, CommitFirst, Untouched
<1>6. ASSUME NEW t \in Tx, Destroy(t) PROVE AloneInv'
  <2>1. Grows(log, log', Outcome(t)) /\ ~crashed
    BY <1>6, LogOfDestroy DEF Destroy, Ready
  <2>2. phase[t] = "open" /\ Len(live) <= 1
    BY <1>6 DEF Destroy, AloneInv
  <2>3. \A u \in Tx : u # t => phase[u] \in {"new", "gone"}
    BY <2>2, NobodyElse
  <2>4. \A u \in Tx : phase'[u] \in {"new", "gone"}
    BY <1>6, <2>3 DEF Destroy, TypeOK
  <2>5. \A u \in Tx : committed[u] => Logged(u, "COMMIT")'
    BY <2>1, StillLogged DEF AloneInv, CommitFirst
  <2>6. Len(live') <= 1
    <3>1. live' = Front(live) /\ t \in ToSet(live) /\ live \in Seq(Tx)
      BY <1>6, <2>2, LiveTx DEF Destroy, TypeOK
    <3>2. Len(live) = 1
      BY <2>2, OnlyOne
    <3>3. Front(live) = <<>>
      BY <3>1, <3>2, SubSeqEmpty DEF Front
    <3> QED BY <3>1, <3>3
  <2> QED BY <1>6, <2>4, <2>5, <2>6 DEF Destroy, AloneInv, WholeLog, CommitFirst, Untouched
<1>7. CASE Writeback
  BY <1>7 DEF Writeback, object, AloneInv, WholeLog, CommitFirst, Untouched, Logged
<1>8. CASE Crash
  BY <1>8 DEF Crash, object, AloneInv
<1>9. CASE UNCHANGED vars
  BY <1>9 DEF vars, object, AloneInv, WholeLog, CommitFirst, Untouched, Logged
<1> QED BY <1>1, <1>2, <1>3, <1>4, <1>5, <1>6, <1>7, <1>8, <1>9 DEF Next

\* So they always agree.
LEMMA AloneSound == MaxLive = 1 => (Spec => []AloneInv)
<1> SUFFICES ASSUME MaxLive = 1 PROVE Spec => []AloneInv
  OBVIOUS
<1>1. TypeOK /\ LogInv /\ AloneInv /\ [Next]_vars => AloneInv'
  BY AloneStep
<1> QED BY <1>1, AloneInit, TypeCorrect, LogSound, PTL DEF Spec

\* The COMMIT line of a committed transaction is in the log, whole, as long as the
\* machine runs.
THEOREM CommitIsLoggedFirst == MaxLive = 1 => (Spec => []CommitLoggedFirst)
<1>1. AloneInv => CommitLoggedFirst
  BY DEF AloneInv, CommitFirst, CommitLoggedFirst
<1> QED BY <1>1, AloneSound, PTL

BalanceMoves ==
    \E t \in Tx : /\ ~committed[t] /\ committed'[t]
                  /\ balance' = balance + Modification[t]

\* What a single step does to the balance.
LEMMA BalanceMovesStep ==
    ASSUME TypeOK, LogInv, AloneInv, [Next]_vars
    PROVE  \/ \E t \in Tx : /\ ~committed[t] /\ committed' = [committed EXCEPT ![t] = TRUE]
                            /\ balance' = balance + Modification[t]
           \/ UNCHANGED <<balance, committed>>
<1>1. ASSUME NEW t \in Tx, CommitApplied(t) PROVE ~committed[t]
  BY <1>1 DEF CommitApplied, LogInv, Flags
<1>2. ASSUME NEW t \in Tx, Destroy(t) PROVE UNCHANGED <<balance, committed>>
  <2>1. CASE RolledBack(t)
    BY <1>2, <2>1 DEF Destroy, Ready, RolledBack, AloneInv, Untouched
  <2> QED BY <1>2, <2>1 DEF Destroy, NotRolledBack, NothingToRollBack
<1> QED
  BY <1>1, <1>2 DEF Next, CommitApplied, Construct, ConstructThrows, CommitLogged, CommitThrows,
                    Writeback, Crash, vars, object

\* The balance changes only when a transaction commits, and by its modification:
\* neither a rollback, nor one that fails, nor a failed commit moves it.
THEOREM BalanceMovesByCommit == MaxLive = 1 => (Spec => [][BalanceMoves \/ UNCHANGED balance]_vars)
<1> SUFFICES ASSUME MaxLive = 1 PROVE Spec => [][BalanceMoves \/ UNCHANGED balance]_vars
  OBVIOUS
<1>1. TypeOK /\ LogInv /\ AloneInv /\ [Next]_vars => [BalanceMoves \/ UNCHANGED balance]_vars
  BY BalanceMovesStep DEF BalanceMoves, TypeOK
<1> QED BY <1>1, AloneSound, TypeCorrect, LogSound, PTL DEF Spec

-----------------------------------------------------------------------------
(* The balance, as a sum                                                   *)

Committed == {t \in Tx : committed[t]}
BalanceInv ==
    /\ IsFiniteSet(Committed)
    /\ balance = Initial + SumFunctionOnSet(Modification, Committed)

\* Nothing is committed at the start.
LEMMA BalanceInit == Init => BalanceInv
<1> SUFFICES ASSUME Init PROVE BalanceInv
  OBVIOUS
<1>1. Committed = {} /\ balance = Initial /\ Initial \in Int
  BY ModificationAssumption DEF Init, Committed
<1> QED BY <1>1, SumEmpty, FS_EmptySet DEF BalanceInv

\* A commit adds its transaction to the sum; nothing else touches the balance.
LEMMA BalanceStep ==
    ASSUME TypeOK, LogInv, AloneInv, BalanceInv, [Next]_vars
    PROVE  BalanceInv'
<1>1. CASE UNCHANGED <<balance, committed>>
  BY <1>1 DEF BalanceInv, Committed
<1>2. ASSUME NEW t \in Tx, ~committed[t], committed' = [committed EXCEPT ![t] = TRUE],
             balance' = balance + Modification[t]
      PROVE  BalanceInv'
  <2>1. t \notin Committed /\ Committed' = Committed \union {t}
    BY <1>2 DEF Committed, TypeOK
  <2>2. IsFiniteSet(Committed) /\ IsFiniteSet(Committed')
    BY <2>1, FS_AddElement DEF BalanceInv
  <2>3. \A u \in Committed \union {t} : Modification[u] \in Int
    BY ModificationAssumption DEF Committed
  <2>4. SumFunctionOnSet(Modification, Committed \union {t}) =
          SumFunctionOnSet(Modification, Committed) + Modification[t]
    BY <2>1, <2>2, <2>3, SumAdd
  <2>5. SumFunctionOnSet(Modification, Committed) \in Int /\ Modification[t] \in Int /\ Initial \in Int
    BY <2>2, <2>3, SumType, ModificationAssumption
  <2> QED BY <1>2, <2>1, <2>2, <2>4, <2>5 DEF BalanceInv
<1> QED BY <1>1, <1>2, BalanceMovesStep

\* Between transactions the balance is the initial one and the modifications of the
\* committed transactions: for any number of transactions, whichever of their steps
\* failed.
THEOREM BalanceSound == MaxLive = 1 => (Spec => []BalanceIsCommitted)
<1> SUFFICES ASSUME MaxLive = 1 PROVE Spec => []BalanceIsCommitted
  OBVIOUS
<1>1. TypeOK /\ LogInv /\ AloneInv /\ BalanceInv /\ [Next]_vars => BalanceInv'
  BY BalanceStep
<1>2. BalanceInv => BalanceIsCommitted
  BY DEF BalanceInv, BalanceIsCommitted, Committed
<1> QED BY <1>1, <1>2, BalanceInit, AloneSound, TypeCorrect, LogSound, PTL DEF Spec
=============================================================================
