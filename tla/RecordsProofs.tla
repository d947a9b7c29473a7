---------------------------- MODULE RecordsProofs ----------------------------
(***************************************************************************)
(* What verifyChain, replay and the simulator may be relied on for, for    *)
(* every set of applications, every scorecard, every policy and any number *)
(* of days, deployments and changes out of band.                           *)
(*                                                                         *)
(* Two invariants carry it.  LinkInv: whatever happened to the table, the  *)
(* digest in a row, forged or not, tells which event the row is of, and    *)
(* what it was inserted with tells which row was the tip.  PathInv: the    *)
(* decision as it was written is a function of what its pipeline still     *)
(* holds, and the one BUREAU event of its application was inserted from    *)
(* there.                                                                  *)
(***************************************************************************)
EXTENDS Records, SequenceTheorems, FiniteSetTheorems, TLAPS

StageNames == {"BUREAU", "SCORE", "RULES", "LIMIT", "PRICE", "PERSIST", "OVERRIDE"}
Outputs ==
    (UNION {Bureaus[a] : a \in Applications}) \union {"recorded", "altered", "APPROVE", "DECLINE"}
NewEvents == [application : Applications, stage : StageNames, output : Outputs]
Contents == [application : Applications, stage : StageNames \union {"forged"}, output : Outputs,
             serial : Nat]
Columns == [output : Outputs, prevHash : Seq(Contents), hash : Seq(Contents)]
Rows == [id : Nat, serial : Nat, application : Applications, stage : StageNames,
         output : Outputs, prevHash : Seq(Contents), hash : Seq(Contents),
         inserted : Columns, after : Nat]

Recorded(row) ==
    [application |-> row.application, stage |-> row.stage, output |-> row.inserted.output,
     serial |-> row.serial]

(* What was inserted is chained to the tip, and the digest in the row, even *)
(* if it is forged, is told from that of every other event.                *)
RowOk(row) ==
    /\ row.after < row.serial
    /\ row.inserted.hash = Append(row.inserted.prevHash, Recorded(row))
    /\ row.inserted.prevHash = Genesis <=> row.after = 0
    /\ row.after # 0 => Last(row.inserted.prevHash).serial = row.after
    /\ row.hash # Genesis /\ Last(row.hash).serial = row.serial
    /\ row.hash = row.inserted.hash \/ Last(row.hash).stage = "forged"

LinkInv ==
    /\ lastId \in Nat
    /\ events \in Seq(Rows)
    /\ \A i \in 1..Len(events) :
          /\ RowOk(events[i])
          /\ events[i].id \in 1..lastId /\ events[i].serial \in 1..lastId

-----------------------------------------------------------------------------
(* The table as a function of its positions. *)
LEMMA EventsType ==
    ASSUME LinkInv
    PROVE  /\ Len(events) \in Nat /\ DOMAIN events = 1..Len(events)
           /\ \A i \in 1..Len(events) : events[i] \in Rows /\ RowOk(events[i])
BY LenProperties, ElementOfSeq DEF LinkInv

LEMMA LastAppended ==
    ASSUME NEW S, NEW s \in Seq(S), NEW e \in S
    PROVE  Append(s, e) \in Seq(S) /\ Append(s, e) # <<>> /\ Last(Append(s, e)) = e
BY AppendProperties DEF Last

(* The tip is in the table or at the genesis. *)
LEMMA TipType ==
    ASSUME LinkInv
    PROVE  /\ TipHash \in Seq(Contents) /\ TipSerial \in 0..lastId
           /\ TipHash = Genesis <=> TipSerial = 0
           /\ TipSerial # 0 => Last(TipHash).serial = TipSerial
<1>1. CASE events = <<>>
  <2>1. TipHash = <<>> /\ TipSerial = 0
    BY <1>1 DEF TipHash, TipSerial, Genesis
  <2>2. <<>> \in Seq(Contents)
    BY EmptySeq
  <2> QED BY <2>1, <2>2 DEF LinkInv, Genesis
<1>2. CASE events # <<>>
  <2> DEFINE tip == events[Len(events)]
  <2>1. TipHash = tip.hash /\ TipSerial = tip.serial
    BY <1>2 DEF TipHash, TipSerial, Last
  <2>2. Len(events) \in 1..Len(events)
    BY <1>2, EmptySeq, LenProperties DEF LinkInv
  <2>3. tip \in Rows /\ RowOk(tip) /\ tip.serial \in 1..lastId
    BY <2>2, EventsType DEF LinkInv
  <2> HIDE DEF tip
  <2> QED BY <2>1, <2>3 DEF RowOk, Rows, LinkInv
<1> QED BY <1>1, <1>2

(* The n-th row of new events. *)
IsNewRow(row, new, n) ==
    /\ row \in Rows /\ RowOk(row)
    /\ row.id = lastId + n /\ row.serial = lastId + n
    /\ row.application = new[n].application /\ row.stage = new[n].stage
    /\ row.inserted.output = new[n].output

(* Each digest is that of the one before it and of the next content. *)
LEMMA NextDigest ==
    ASSUME NEW S, NEW tip \in Seq(S), NEW contents \in Seq(S), NEW k \in 1..Len(contents)
    PROVE  LET before == tip \o SubSeq(contents, 1, k - 1)
               upTo == tip \o SubSeq(contents, 1, k)
           IN  /\ before \in Seq(S) /\ upTo \in Seq(S)
               /\ upTo = Append(before, contents[k])
               /\ upTo # <<>> /\ Last(upTo) = contents[k]
<1> DEFINE first == SubSeq(contents, 1, k - 1)
           next == SubSeq(contents, 1, k)
           c == contents[k]
<1>1. /\ Len(contents) \in Nat
      /\ \A i \in 1..Len(contents) : contents[i] \in S
  BY LenProperties, ElementOfSeq
<1>2. k \in Nat /\ k - 1 \in Nat /\ 1 <= k /\ k <= Len(contents)
  BY <1>1
<1>3. c \in S
  BY <1>1
<1>4. first \in Seq(S)
  <2>1. \A i \in 1..(k - 1) : contents[i] \in S
    BY <1>1, <1>2
  <2> QED BY <1>1, <1>2, <2>1, SubSeqProperties
<1>5. next = first \o <<c>>
  BY <1>1, <1>2, SubSeqRecursiveSecond
<1> HIDE DEF first, next, c
<1>6. <<c>> \in Seq(S)
  BY <1>3
<1>7. tip \o next = (tip \o first) \o <<c>>
  BY <1>4, <1>5, <1>6, ConcatAssociative
<1>8. tip \o first \in Seq(S)
  BY <1>4, ConcatProperties
<1>9. tip \o next = Append(tip \o first, c)
  BY <1>3, <1>7, <1>8, AppendIsConcat
<1>10. tip \o next \in Seq(S) /\ tip \o next # <<>> /\ Last(tip \o next) = c
  BY <1>3, <1>8, <1>9, LastAppended
<1> QED BY <1>8, <1>9, <1>10 DEF first, next, c

LEMMA ChainedRow ==
    ASSUME LinkInv, NEW new \in Seq(NewEvents), NEW n \in 1..Len(new)
    PROVE  IsNewRow(Chained(new)[n], new, n)
<1> DEFINE contents == Numbered(new)
           DigestUpTo(k) == TipHash \o SubSeq(contents, 1, k)
           row == Chained(new)[n]
<1>1. /\ n \in Nat \ {0} /\ Len(new) \in Nat /\ DOMAIN new = 1..Len(new)
      /\ \A k \in 1..Len(new) : new[k] \in NewEvents
      /\ lastId \in Nat
  BY LenProperties, ElementOfSeq DEF LinkInv
<1>2. /\ TipHash \in Seq(Contents) /\ TipSerial \in 0..lastId
      /\ TipHash = Genesis <=> TipSerial = 0
      /\ TipSerial # 0 => Last(TipHash).serial = TipSerial
  BY TipType
<1>3. ASSUME NEW k \in 1..Len(new)
      PROVE  /\ contents[k] = [application |-> new[k].application, stage |-> new[k].stage,
                               output |-> new[k].output, serial |-> lastId + k]
             /\ contents[k] \in Contents /\ contents[k].serial = lastId + k
  <2>1. new[k] \in NewEvents /\ lastId + k \in Nat
    BY <1>1
  <2>2. contents[k] = [application |-> new[k].application, stage |-> new[k].stage,
                       output |-> new[k].output, serial |-> lastId + k]
    BY <1>1 DEF Numbered
  <2> HIDE DEF contents
  <2> QED BY <2>1, <2>2 DEF NewEvents, Contents
<1>4. contents \in Seq(Contents) /\ Len(contents) = Len(new)
  <2>1. contents \in [1..Len(new) -> Contents]
    <3>1. \A k \in 1..Len(new) : contents[k] \in Contents
      BY <1>3
    <3> QED BY <1>1, <3>1 DEF Numbered
  <2> QED BY <1>1, <2>1, IsASeq, LenProperties
<1>5. row = [id |-> lastId + n, serial |-> lastId + n,
             application |-> new[n].application, stage |-> new[n].stage,
             output |-> new[n].output,
             prevHash |-> DigestUpTo(n - 1), hash |-> DigestUpTo(n),
             inserted |-> [output |-> new[n].output,
                           prevHash |-> DigestUpTo(n - 1), hash |-> DigestUpTo(n)],
             after |-> IF n = 1 THEN TipSerial ELSE lastId + n - 1]
  BY <1>1 DEF Chained
<1> HIDE DEF contents, row
<1>6. DigestUpTo(0) = TipHash
  <2>1. SubSeq(contents, 1, 0) = <<>>
    BY SubSeqEmpty
  <2> QED BY <1>2, <2>1, ConcatEmptySeq
<1>7. ASSUME NEW k \in 1..Len(new)
      PROVE  /\ DigestUpTo(k - 1) \in Seq(Contents) /\ DigestUpTo(k) \in Seq(Contents)
             /\ DigestUpTo(k) = Append(DigestUpTo(k - 1), contents[k])
             /\ DigestUpTo(k) # <<>> /\ Last(DigestUpTo(k)) = contents[k]
  <2>1. /\ TipHash \in Seq(Contents) /\ contents \in Seq(Contents)
        /\ k \in 1..Len(contents)
    BY <1>2, <1>4
  <2> QED BY <2>1, NextDigest
<1> HIDE DEF DigestUpTo
<1>8. /\ DigestUpTo(n - 1) \in Seq(Contents) /\ DigestUpTo(n) \in Seq(Contents)
      /\ DigestUpTo(n) = Append(DigestUpTo(n - 1), contents[n])
      /\ DigestUpTo(n) # <<>> /\ Last(DigestUpTo(n)).serial = lastId + n
  <2>1. contents[n].serial = lastId + n
    BY <1>3
  <2> QED BY <1>7, <2>1
<1>9. new[n] \in NewEvents
  BY <1>1
<1>10. /\ row.id = lastId + n /\ row.serial = lastId + n
       /\ row.application = new[n].application /\ row.stage = new[n].stage
       /\ row.inserted.output = new[n].output
       /\ row.inserted.prevHash = DigestUpTo(n - 1) /\ row.inserted.hash = DigestUpTo(n)
       /\ row.hash = DigestUpTo(n)
       /\ row.after = IF n = 1 THEN TipSerial ELSE lastId + n - 1
  BY <1>5
<1>11. row \in Rows
  <2>1. [output |-> new[n].output,
         prevHash |-> DigestUpTo(n - 1), hash |-> DigestUpTo(n)] \in Columns
    BY <1>8, <1>9 DEF Columns, NewEvents
  <2>2. lastId + n \in Nat /\ (IF n = 1 THEN TipSerial ELSE lastId + n - 1) \in Nat
    BY <1>1, <1>2
  <2>3. /\ new[n].application \in Applications /\ new[n].stage \in StageNames
        /\ new[n].output \in Outputs
    BY <1>9 DEF NewEvents
  <2> QED BY <1>5, <1>8, <2>1, <2>2, <2>3 DEF Rows
<1>12. Recorded(row) = contents[n]
  BY <1>3, <1>10 DEF Recorded
<1>13. RowOk(row)
  <2>1. row.after < row.serial
    BY <1>1, <1>2, <1>10
  <2>2. row.inserted.hash = Append(row.inserted.prevHash, Recorded(row))
    BY <1>8, <1>10, <1>12
  <2>3. /\ row.inserted.prevHash = Genesis <=> row.after = 0
        /\ row.after # 0 => Last(row.inserted.prevHash).serial = row.after
    <3>1. CASE n = 1
      <4>1. row.inserted.prevHash = TipHash /\ row.after = TipSerial
        BY <1>6, <1>10, <3>1
      <4> QED BY <1>2, <4>1
    <3>2. CASE n # 1
      <4>1. n - 1 \in 1..Len(new)
        BY <1>1, <3>2
      <4>2. DigestUpTo(n - 1) # <<>> /\ Last(DigestUpTo(n - 1)) = contents[n - 1]
        BY <1>7, <4>1
      <4>3. contents[n - 1].serial = lastId + (n - 1)
        BY <1>3, <4>1
      <4>4. row.after = lastId + (n - 1) /\ row.after # 0
        BY <1>1, <1>10, <3>2, <4>1
      <4> QED BY <1>10, <4>2, <4>3, <4>4 DEF Genesis
    <3> QED BY <3>1, <3>2
  <2>4. row.hash # Genesis /\ Last(row.hash).serial = row.serial /\ row.hash = row.inserted.hash
    BY <1>8, <1>10 DEF Genesis
  <2> QED BY <2>1, <2>2, <2>3, <2>4 DEF RowOk
<1> QED BY <1>10, <1>11, <1>13 DEF IsNewRow, row

(* The rows of new events are a sequence of them. *)
LEMMA ChainedSeq ==
    ASSUME LinkInv, NEW new \in Seq(NewEvents)
    PROVE  Chained(new) \in Seq(Rows) /\ Len(Chained(new)) = Len(new)
<1>1. Len(new) \in Nat /\ DOMAIN new = 1..Len(new)
  BY LenProperties
<1>2. \A n \in 1..Len(new) : Chained(new)[n] \in Rows
  BY ChainedRow DEF IsNewRow
<1>3. Chained(new) \in [1..Len(new) -> Rows]
  BY <1>1, <1>2 DEF Chained
<1> QED BY <1>1, <1>3, IsASeq, LenProperties

-----------------------------------------------------------------------------
(* The steps on the table of events, row by row. *)

LEMMA AppendedRows ==
    ASSUME LinkInv, NEW new \in Seq(NewEvents), AppendEvents(new)
    PROVE  /\ LinkInv'
           /\ Len(events') = Len(events) + Len(new)
           /\ \A i \in 1..Len(events) : events'[i] = events[i]
           /\ \A i \in 1..Len(events') :
                 i > Len(events) => /\ i - Len(events) \in 1..Len(new)
                                    /\ IsNewRow(events'[i], new, i - Len(events))
<1> DEFINE rows == Chained(new)
           m == Len(events)
<1>1. /\ events \in Seq(Rows) /\ m \in Nat /\ lastId \in Nat
      /\ \A i \in 1..m : /\ events[i] \in Rows /\ RowOk(events[i])
                         /\ events[i].id \in 1..lastId /\ events[i].serial \in 1..lastId
  BY LenProperties, ElementOfSeq DEF LinkInv
<1>2. rows \in Seq(Rows) /\ Len(rows) = Len(new) /\ Len(new) \in Nat
  BY ChainedSeq, LenProperties
<1>3. events' = events \o rows /\ lastId' = lastId + Len(new)
  BY DEF AppendEvents
<1>4. \A n \in 1..Len(new) : IsNewRow(rows[n], new, n)
  BY ChainedRow
<1> HIDE DEF rows
<1>5. /\ events' \in Seq(Rows) /\ Len(events') = m + Len(new)
      /\ \A i \in 1..(m + Len(new)) : events'[i] = IF i <= m THEN events[i] ELSE rows[i - m]
  <2>1. events \in Seq(Rows) /\ rows \in Seq(Rows)
    BY <1>1, <1>2
  <2>2. /\ events \o rows \in Seq(Rows)
        /\ Len(events \o rows) = Len(events) + Len(rows)
        /\ \A i \in 1..(Len(events) + Len(rows)) :
              (events \o rows)[i] = IF i <= Len(events) THEN events[i] ELSE rows[i - Len(events)]
    BY <2>1, ConcatProperties
  <2> QED BY <1>2, <1>3, <2>2
<1> HIDE DEF m
<1>6. \A i \in 1..m : events'[i] = events[i]
  BY <1>1, <1>2, <1>5
<1>7. ASSUME NEW i \in 1..Len(events'), i > m
      PROVE  i - m \in 1..Len(new) /\ IsNewRow(events'[i], new, i - m)
  <2>1. i - m \in 1..Len(new) /\ events'[i] = rows[i - m]
    BY <1>1, <1>2, <1>5, <1>7
  <2> QED BY <1>4, <2>1
<1>8. ASSUME NEW i \in 1..Len(events')
      PROVE  /\ RowOk(events'[i])
             /\ events'[i].id \in 1..lastId' /\ events'[i].serial \in 1..lastId'
  <2>1. CASE i <= m
    <3>1. i \in 1..m /\ events'[i] = events[i]
      BY <1>1, <1>2, <1>5, <1>6, <2>1
    <3> QED BY <1>1, <1>2, <1>3, <3>1
  <2>2. CASE ~(i <= m)
    <3>1. /\ i - m \in 1..Len(new) /\ RowOk(events'[i])
          /\ events'[i].id = lastId + (i - m) /\ events'[i].serial = lastId + (i - m)
      BY <1>1, <1>2, <1>5, <1>7, <2>2 DEF IsNewRow
    <3> QED BY <1>1, <1>2, <1>3, <3>1
  <2> QED BY <2>1, <2>2
<1>9. LinkInv'
  BY <1>1, <1>2, <1>3, <1>5, <1>8 DEF LinkInv
<1> QED BY <1>5, <1>6, <1>7, <1>9 DEF m

(* The rows of the table are those that were at from, but for their ids. *)
Moved(from) ==
    /\ events' \in Seq(Rows)
    /\ from \in [1..Len(events') -> 1..Len(events)]
    /\ \A i, j \in 1..Len(events') : from[i] = from[j] => i = j
    /\ \A i \in 1..Len(events') : \E n \in 1..lastId :
          events'[i] = [events[from[i]] EXCEPT !.id = n]

LEMMA MovedRows ==
    ASSUME LinkInv, lastId' = lastId, NEW from, Moved(from)
    PROVE  /\ LinkInv'
           /\ \A i \in 1..Len(events') :
                 /\ from[i] \in 1..Len(events)
                 /\ events'[i].stage = events[from[i]].stage
                 /\ events'[i].application = events[from[i]].application
                 /\ events'[i].inserted = events[from[i]].inserted
<1>1. ASSUME NEW i \in 1..Len(events')
      PROVE  /\ from[i] \in 1..Len(events)
             /\ RowOk(events'[i])
             /\ events'[i].id \in 1..lastId /\ events'[i].serial \in 1..lastId
             /\ events'[i].stage = events[from[i]].stage
             /\ events'[i].application = events[from[i]].application
             /\ events'[i].inserted = events[from[i]].inserted
  <2>1. from[i] \in 1..Len(events)
    BY DEF Moved
  <2>2. PICK n \in 1..lastId : events'[i] = [events[from[i]] EXCEPT !.id = n]
    BY DEF Moved
  <2> DEFINE d == events'[i]
             e == events[from[i]]
  <2>3. e \in Rows /\ RowOk(e) /\ e.serial \in 1..lastId
    BY <2>1, EventsType DEF LinkInv
  <2> HIDE DEF d, e
  <2>4. d = [e EXCEPT !.id = n]
    BY <2>2 DEF d, e
  <2>5. /\ d.id = n /\ d.serial = e.serial /\ d.stage = e.stage
        /\ d.application = e.application /\ d.inserted = e.inserted
        /\ d.after = e.after /\ d.hash = e.hash
    BY <2>3, <2>4 DEF Rows
  <2>6. RowOk(d)
    BY <2>3, <2>5 DEF RowOk, Recorded
  <2> QED BY <2>1, <2>3, <2>5, <2>6 DEF d, e
<1> QED BY <1>1 DEF LinkInv, Moved

(* A lost row leaves the others where they are. *)
LEMMA LostRow ==
    ASSUME LinkInv, NEW k \in 1..Len(events), LoseRow(k)
    PROVE  Moved([i \in 1..(Len(events) - 1) |-> IF i < k THEN i ELSE i + 1])
<1> DEFINE m == Len(events)
           head == SubSeq(events, 1, k - 1)
           tail == SubSeq(events, k + 1, m)
<1>1. /\ events \in Seq(Rows) /\ m \in Nat /\ k \in Nat /\ 1 <= k /\ k <= m
      /\ \A i \in 1..m : events[i] \in Rows /\ events[i].id \in 1..lastId
  BY LenProperties, ElementOfSeq DEF LinkInv
<1>2. events' = head \o tail
  BY DEF LoseRow, RemoveAt
<1>3. /\ head \in Seq(Rows) /\ Len(head) = k - 1
      /\ \A i \in 1..(k - 1) : head[i] = events[i]
  <2>1. \A i \in 1..(k - 1) : events[i] \in Rows
    BY <1>1
  <2> QED BY <1>1, <2>1, SubSeqProperties
<1>4. /\ tail \in Seq(Rows) /\ Len(tail) = m - k
      /\ \A i \in 1..(m - k) : tail[i] = events[k + i]
  <2>1. \A i \in (k + 1)..m : events[i] \in Rows
    BY <1>1
  <2>2. /\ SubSeq(events, k + 1, m) \in Seq(Rows)
        /\ Len(SubSeq(events, k + 1, m)) = IF k + 1 <= m THEN m - (k + 1) + 1 ELSE 0
        /\ \A i \in 1..(m - (k + 1) + 1) : SubSeq(events, k + 1, m)[i] = events[(k + 1) + i - 1]
    <3> HIDE DEF m
    <3> QED BY <1>1, <2>1, SubSeqProperties
  <2> HIDE DEF m
  <2> QED BY <1>1, <2>2
<1> HIDE DEF head, tail
<1>5. /\ events' \in Seq(Rows) /\ Len(events') = (k - 1) + (m - k)
      /\ \A i \in 1..((k - 1) + (m - k)) : events'[i] = IF i <= k - 1 THEN head[i] ELSE tail[i - (k - 1)]
  <2>1. /\ head \o tail \in Seq(Rows)
        /\ Len(head \o tail) = Len(head) + Len(tail)
        /\ \A i \in 1..(Len(head) + Len(tail)) :
              (head \o tail)[i] = IF i <= Len(head) THEN head[i] ELSE tail[i - Len(head)]
    BY <1>3, <1>4, ConcatProperties
  <2> QED BY <1>2, <1>3, <1>4, <2>1
<1> DEFINE from == [i \in 1..(m - 1) |-> IF i < k THEN i ELSE i + 1]
<1> HIDE DEF m
<1>6. Len(events') = m - 1
  BY <1>1, <1>5
<1>7. ASSUME NEW i \in 1..Len(events')
      PROVE  events'[i] = events[IF i < k THEN i ELSE i + 1]
  <2>1. CASE i < k
    <3>1. i \in 1..(k - 1) /\ events'[i] = head[i]
      BY <1>1, <1>5, <1>6, <2>1
    <3> QED BY <1>3, <2>1, <3>1
  <2>2. CASE ~(i < k)
    <3>1. i - (k - 1) \in 1..(m - k) /\ events'[i] = tail[i - (k - 1)] /\ k + (i - (k - 1)) = i + 1
      BY <1>1, <1>5, <1>6, <2>2
    <3> QED BY <1>4, <2>2, <3>1
  <2> QED BY <2>1, <2>2
<1>8. /\ from \in [1..Len(events') -> 1..m]
      /\ \A i, j \in 1..Len(events') : from[i] = from[j] => i = j
      /\ \A i \in 1..Len(events') : events'[i] = events[from[i]]
  BY <1>1, <1>6, <1>7
<1> HIDE DEF from
<1>9. ASSUME NEW i \in 1..Len(events')
      PROVE  \E n \in 1..lastId : events'[i] = [events[from[i]] EXCEPT !.id = n]
  <2>1. from[i] \in 1..m /\ events'[i] = events[from[i]]
    BY <1>8
  <2>2. events[from[i]] \in Rows /\ events[from[i]].id \in 1..lastId
    BY <1>1, <2>1
  <2>3. events[from[i]] = [events[from[i]] EXCEPT !.id = events[from[i]].id]
    BY <2>2 DEF Rows
  <2> QED BY <2>1, <2>2, <2>3
<1>10. Moved(from)
  BY <1>5, <1>8, <1>9 DEF Moved, m
<1> QED BY <1>10 DEF from, m

(* Neighbours that exchange their ids exchange their places. *)
LEMMA SwappedRows ==
    ASSUME LinkInv, NEW k \in 1..(Len(events) - 1), SwapRows(k)
    PROVE  Moved([i \in 1..Len(events) |-> IF i = k THEN k + 1 ELSE IF i = k + 1 THEN k ELSE i])
<1> DEFINE m == Len(events)
           from == [i \in 1..m |-> IF i = k THEN k + 1 ELSE IF i = k + 1 THEN k ELSE i]
           up == [events[k + 1] EXCEPT !.id = events[k].id]
           down == [events[k] EXCEPT !.id = events[k + 1].id]
<1>1. /\ events \in Seq(Rows) /\ m \in Nat /\ DOMAIN events = 1..m
      /\ \A i \in 1..m : events[i] \in Rows /\ events[i].id \in 1..lastId
  BY LenProperties, ElementOfSeq DEF LinkInv
<1>2. k \in 1..m /\ k + 1 \in 1..m /\ k # k + 1
  BY <1>1
<1>3. up \in Rows /\ down \in Rows
  BY <1>1, <1>2 DEF Rows
<1>4. events' = [events EXCEPT ![k] = up, ![k + 1] = down]
  BY DEF SwapRows
<1> HIDE DEF up, down
<1>5. events' \in Seq(Rows) /\ Len(events') = m
  <2>1. /\ [events EXCEPT ![k] = up] \in Seq(Rows)
        /\ Len([events EXCEPT ![k] = up]) = m
    BY <1>1, <1>2, <1>3, ExceptSeq
  <2>2. /\ [[events EXCEPT ![k] = up] EXCEPT ![k + 1] = down] \in Seq(Rows)
        /\ Len([[events EXCEPT ![k] = up] EXCEPT ![k + 1] = down]) = m
    BY <1>2, <1>3, <2>1, ExceptSeq
  <2> QED BY <1>4, <2>2
<1>6. \A i \in 1..m : events'[i] = IF i = k THEN up ELSE IF i = k + 1 THEN down ELSE events[i]
  BY <1>1, <1>2, <1>4
<1>7. /\ from \in [1..m -> 1..m]
      /\ \A i, j \in 1..m : from[i] = from[j] => i = j
  BY <1>2
<1>8. ASSUME NEW i \in 1..m
      PROVE  \E n \in 1..lastId : events'[i] = [events[from[i]] EXCEPT !.id = n]
  <2>1. CASE i = k
    BY <1>1, <1>2, <1>6, <2>1 DEF up
  <2>2. CASE i = k + 1
    BY <1>1, <1>2, <1>6, <2>2 DEF down
  <2>3. CASE i # k /\ i # k + 1
    <3>1. events'[i] = events[i] /\ from[i] = i
      BY <1>6, <2>3
    <3>2. events[i] = [events[i] EXCEPT !.id = events[i].id]
      BY <1>1 DEF Rows
    <3> QED BY <1>1, <3>1, <3>2
  <2> QED BY <2>1, <2>2, <2>3
<1> HIDE DEF from
<1>9. Moved(from)
  BY <1>5, <1>7, <1>8 DEF Moved, m
<1> QED BY <1>9 DEF from, m

(* An altered row keeps what it was inserted with. *)
LEMMA AlteredRow ==
    ASSUME LinkInv, NEW k \in 1..Len(events), AlterRow(k)
    PROVE  /\ LinkInv'
           /\ Len(events') = Len(events)
           /\ \A i \in 1..Len(events) :
                 /\ events'[i].stage = events[i].stage
                 /\ events'[i].application = events[i].application
                 /\ events'[i].inserted = events[i].inserted
<1> DEFINE e == events[k]
           forged == [Content(e) EXCEPT !.stage = "forged"]
<1>1. /\ events \in Seq(Rows) /\ Len(events) \in Nat /\ DOMAIN events = 1..Len(events)
      /\ \A i \in 1..Len(events) : events[i] \in Rows /\ RowOk(events[i])
  BY EventsType DEF LinkInv
<1>2. lastId' = lastId
  BY DEF AlterRow, OutOfBand
<1>3. e \in Rows /\ RowOk(e)
  BY <1>1
<1>4. PICK row : /\ events' = [events EXCEPT ![k] = row]
                 /\ \/ \E output \in OtherOutputs(e) : row = [e EXCEPT !.output = output]
                    \/ row = [e EXCEPT !.prevHash = Forged(e)]
                    \/ row = [e EXCEPT !.hash = Forged(e)]
  BY DEF AlterRow
<1> HIDE DEF e
<1>5. forged \in Contents /\ forged.serial = e.serial /\ forged.stage = "forged"
  BY <1>3 DEF Rows, Contents, Content
<1>6. /\ Forged(e) \in Seq(Contents) /\ Forged(e) # Genesis
      /\ Last(Forged(e)).serial = e.serial /\ Last(Forged(e)).stage = "forged"
  <2>1. Forged(e) = <<forged>>
    BY DEF Forged
  <2> HIDE DEF forged
  <2>2. <<forged>> \in Seq(Contents) /\ Len(<<forged>>) = 1 /\ <<forged>>[1] = forged
    BY <1>5
  <2>3. <<forged>> # <<>>
    BY <2>2
  <2> QED BY <1>5, <2>1, <2>2, <2>3 DEF Last, Genesis
<1>7. OtherOutputs(e) \subseteq Outputs
  BY <1>3 DEF OtherOutputs, Outputs, Rows
<1>8. /\ row \in Rows /\ RowOk(row)
      /\ row.stage = e.stage /\ row.application = e.application /\ row.inserted = e.inserted
      /\ row.id = e.id /\ row.serial = e.serial
  <2>1. CASE \E output \in OtherOutputs(e) : row = [e EXCEPT !.output = output]
    <3>1. PICK output \in Outputs : row = [e EXCEPT !.output = output]
      BY <1>7, <2>1
    <3>2. /\ row \in Rows
          /\ row.stage = e.stage /\ row.application = e.application /\ row.inserted = e.inserted
          /\ row.id = e.id /\ row.serial = e.serial /\ row.after = e.after /\ row.hash = e.hash
      BY <1>3, <3>1 DEF Rows
    <3>3. RowOk(row)
      BY <1>3, <3>2 DEF RowOk, Recorded
    <3> QED BY <3>2, <3>3
  <2>2. CASE row = [e EXCEPT !.prevHash = Forged(e)]
    <3>1. /\ row \in Rows
          /\ row.stage = e.stage /\ row.application = e.application /\ row.inserted = e.inserted
          /\ row.id = e.id /\ row.serial = e.serial /\ row.after = e.after /\ row.hash = e.hash
      BY <1>3, <1>6, <2>2 DEF Rows
    <3>2. RowOk(row)
      BY <1>3, <3>1 DEF RowOk, Recorded
    <3> QED BY <3>1, <3>2
  <2>3. CASE row = [e EXCEPT !.hash = Forged(e)]
    <3>1. /\ row \in Rows
          /\ row.stage = e.stage /\ row.application = e.application /\ row.inserted = e.inserted
          /\ row.id = e.id /\ row.serial = e.serial /\ row.after = e.after /\ row.hash = Forged(e)
      BY <1>3, <1>6, <2>3 DEF Rows
    <3>2. RowOk(row)
      BY <1>3, <1>6, <3>1 DEF RowOk, Recorded
    <3> QED BY <3>1, <3>2
  <2> QED BY <1>4, <2>1, <2>2, <2>3
<1>9. events' \in Seq(Rows) /\ Len(events') = Len(events)
  BY <1>1, <1>4, <1>8, ExceptSeq
<1>10. \A i \in 1..Len(events) : events'[i] = IF i = k THEN row ELSE events[i]
  BY <1>1, <1>4
<1>11. ASSUME NEW i \in 1..Len(events)
       PROVE  /\ RowOk(events'[i])
              /\ events'[i].id \in 1..lastId /\ events'[i].serial \in 1..lastId
              /\ events'[i].stage = events[i].stage
              /\ events'[i].application = events[i].application
              /\ events'[i].inserted = events[i].inserted
  BY <1>8, <1>10 DEF LinkInv, e
<1>12. LinkInv'
  BY <1>2, <1>9, <1>11 DEF LinkInv
<1> QED BY <1>9, <1>11, <1>12

-----------------------------------------------------------------------------
(* The path from a pipeline to its decision and its BUREAU event. *)

ScoredAs(a, s) == s.bureau \in Bureaus[a] /\ s.score = ScoreOf(s.model, a, s.age, s.bureau)

DecidedAs(a, s) ==
    /\ ScoredAs(a, s)
    /\ s.result = Evaluate(s.rules, a, s.age, s.bureau, s.score.score)
    /\ ~Throws(s.result, s.score.riskGrade)

Fields == {"outcome", "score", "riskGrade", "reasonCodes", "approvedAmount", "interestRate",
           "policyVersion", "modelVersion", "createdAt", "overridden"}

(* The decision d is what the pipeline s came to, but for an override. *)
RecordedAs(a, s, d) ==
    LET grade == s.score.riskGrade
        priced == Priced(a, grade, s.result.outcome, ProductCeilings[Product[a]])
    IN  /\ DOMAIN d = Fields
        /\ d.score = s.score.score /\ d.riskGrade = grade
        /\ d.reasonCodes =
               MergeReasonCodes(s.result.outcome, s.result.reasonCodes, s.score.reasonCodes)
        /\ d.approvedAmount = priced.limit /\ d.interestRate = priced.rate
        /\ d.policyVersion = s.policy /\ d.modelVersion = s.model
        /\ d.outcome \in Outcomes /\ d.overridden \in BOOLEAN
        /\ ~d.overridden => d.outcome = s.result.outcome

(* The row d, and w, which was written there. *)
PathOk(a, s, d, w) ==
    /\ s.step = "scored" => ScoredAs(a, s)
    /\ s.step = "decided" => DecidedAs(a, s)
    /\ \/ d = NoDecision /\ w = NoDecision
       \/ w # NoDecision /\ s.step = "decided" /\ RecordedAs(a, s, w) /\ DOMAIN d = Fields

TypeRest ==
    /\ today \in [year : Nat, day : 0..(DaysPerYear - 1)]
    /\ days \in 0..MaxDays /\ tampering \in 0..MaxTampering
    /\ loaded \in 1..MaxModel
    /\ status \in [PolicyVersions -> {"DRAFT", "ACTIVE", "RETIRED"}]
    /\ created \in Seq(Applications)
    /\ rules \in [PolicyVersions -> PolicyVersions]
    /\ payload \in [Applications -> Applications]
    /\ DOMAIN pipeline = Applications
    /\ DOMAIN decision = Applications /\ DOMAIN written = Applications

PathInv == \A a \in Applications : PathOk(a, pipeline[a], decision[a], written[a])

IsBureau(e) == e.stage = "BUREAU"

(* Only a decided application has a BUREAU event, and only one, inserted    *)
(* from its pipeline.                                                      *)
EventInv ==
    /\ \A i \in 1..Len(events) :
          IsBureau(events[i]) =>
              /\ written[events[i].application] # NoDecision
              /\ events[i].inserted.output = pipeline[events[i].application].bureau
    /\ \A i, j \in 1..Len(events) :
          /\ IsBureau(events[i]) /\ IsBureau(events[j])
          /\ events[i].application = events[j].application
          => i = j

Inv == TypeRest /\ LinkInv /\ PathInv /\ EventInv

LEMMA InitInv == Init => Inv
<1> SUFFICES ASSUME Init PROVE Inv
  OBVIOUS
<1>1. TypeRest
  BY SeedAssumption, ClockAssumption, EmptySeq DEF Init, TypeRest
<1>2. Len(events) = 0 /\ events \in Seq(Rows) /\ lastId = 0
  BY EmptySeq DEF Init
<1>3. LinkInv /\ EventInv
  BY <1>2 DEF LinkInv, EventInv
<1>4. PathInv
  BY DEF Init, PathInv, PathOk, None, NoDecision
<1> QED BY <1>1, <1>3, <1>4 DEF Inv

LEMMA NoDecisionIsNoRow == DOMAIN NoDecision # Fields
<1>1. DOMAIN NoDecision = {"outcome"}
  BY DEF NoDecision
<1>2. "score" \in Fields
  BY DEF Fields
<1> QED BY <1>1, <1>2

LEMMA FunctionIsSeq ==
    ASSUME NEW S, NEW n \in Nat, NEW f \in [1..n -> S]
    PROVE  f \in Seq(S) /\ Len(f) = n
BY IsASeq, LenProperties

LEMMA StageEventsType ==
    ASSUME NEW a \in Applications, NEW s, s.bureau \in Bureaus[a]
    PROVE  /\ StageEvents(a, s) \in Seq(NewEvents)
           /\ Len(StageEvents(a, s)) = 6
           /\ \A n \in 1..6 : /\ StageEvents(a, s)[n].application = a
                              /\ IsBureau(StageEvents(a, s)[n]) <=> n = 1
           /\ StageEvents(a, s)[1].output = s.bureau
<1>1. DOMAIN Stages = 1..6 /\ \A n \in 1..6 : Stages[n] \in StageNames /\ (Stages[n] = "BUREAU" <=> n = 1)
  BY DEF Stages, StageNames
<1>2. \A n \in 1..6 : StageEvents(a, s)[n] \in NewEvents
  <2>1. s.bureau \in Outputs /\ "recorded" \in Outputs
    BY DEF Outputs
  <2> QED BY <1>1, <2>1 DEF StageEvents, NewEvents
<1>3. StageEvents(a, s) \in [1..6 -> NewEvents]
  BY <1>1, <1>2 DEF StageEvents
<1>4. StageEvents(a, s) \in Seq(NewEvents) /\ Len(StageEvents(a, s)) = 6
  BY <1>3, FunctionIsSeq
<1>5. \A n \in 1..6 : /\ StageEvents(a, s)[n].application = a
                      /\ IsBureau(StageEvents(a, s)[n]) <=> n = 1
  BY <1>1 DEF StageEvents, IsBureau
<1>6. StageEvents(a, s)[1].output = s.bureau
  BY <1>1 DEF StageEvents
<1> QED BY <1>4, <1>5, <1>6

(* Neither the table nor a row that an event stands for is touched. *)
LEMMA TableKept ==
    ASSUME Inv, UNCHANGED <<written, events, lastId>>,
           \A a \in Applications : written[a] # NoDecision => pipeline'[a] = pipeline[a]
    PROVE  LinkInv' /\ EventInv'
<1>1. LinkInv'
  BY DEF Inv, LinkInv
<1>2. \A i \in 1..Len(events) : events[i].application \in Applications
  BY EventsType DEF Inv, Rows
<1>3. EventInv'
  BY <1>2 DEF Inv, EventInv
<1> QED BY <1>1, <1>3

LEMMA NextDayStep == Inv /\ NextDay => Inv'
<1> SUFFICES ASSUME Inv, NextDay PROVE Inv'
  OBVIOUS
<1>1. TypeRest'
  <2>1. today' \in [year : Nat, day : 0..(DaysPerYear - 1)]
    <3>1. DaysPerYear \in Nat /\ DaysPerYear > 0
      BY ClockAssumption
    <3>2. today.year \in Nat /\ today.day \in 0..(DaysPerYear - 1)
      BY DEF Inv, TypeRest
    <3>3. CASE today.day = DaysPerYear - 1
      BY <3>1, <3>2, <3>3 DEF NextDay
    <3>4. CASE today.day # DaysPerYear - 1
      <4>1. today' = [today EXCEPT !.day = @ + 1] /\ today.day + 1 \in 0..(DaysPerYear - 1)
        BY <3>1, <3>2, <3>4 DEF NextDay
      <4> QED BY <4>1 DEF Inv, TypeRest
    <3> QED BY <3>3, <3>4
  <2>2. days' \in 0..MaxDays
    BY ClockAssumption DEF Inv, TypeRest, NextDay
  <2> QED BY <2>1, <2>2 DEF Inv, TypeRest, NextDay, decisions, table
<1>2. PathInv'
  BY DEF Inv, PathInv, NextDay, decisions, table
<1>3. LinkInv' /\ EventInv'
  BY TableKept DEF NextDay, decisions, table
<1> QED BY <1>1, <1>2, <1>3 DEF Inv

LEMMA DeployStep == Inv /\ Deploy => Inv'
<1> SUFFICES ASSUME Inv, Deploy PROVE Inv'
  OBVIOUS
<1>1. TypeRest'
  BY ClockAssumption DEF Inv, TypeRest, Deploy, decisions, table, clock
<1>2. PathInv'
  BY DEF Inv, PathInv, Deploy, decisions, table
<1>3. LinkInv' /\ EventInv'
  BY TableKept DEF Deploy, decisions, table
<1> QED BY <1>1, <1>2, <1>3 DEF Inv

LEMMA ActivateStep == ASSUME NEW v \in PolicyVersions PROVE Inv /\ Activate(v) => Inv'
<1> SUFFICES ASSUME Inv, Activate(v) PROVE Inv'
  OBVIOUS
<1>1. TypeRest'
  BY DEF Inv, TypeRest, Activate, decisions, table, clock
<1>2. PathInv'
  BY DEF Inv, PathInv, Activate, decisions, table
<1>3. LinkInv' /\ EventInv'
  BY TableKept DEF Activate, decisions, table
<1> QED BY <1>1, <1>2, <1>3 DEF Inv

(* A pipeline that moves on has not decided yet. *)
LEMMA PipelineStep ==
    ASSUME Inv, NEW a \in Applications, pipeline[a].step # "decided",
           NEW s, pipeline' = [pipeline EXCEPT ![a] = s], UNCHANGED <<decisions, table>>,
           s.step = "scored" => ScoredAs(a, s),
           s.step = "decided" => DecidedAs(a, s)
    PROVE  PathInv' /\ LinkInv' /\ EventInv'
<1>1. decision[a] = NoDecision /\ written[a] = NoDecision
  BY DEF Inv, PathInv, PathOk
<1>2. UNCHANGED <<decision, written, events, lastId>>
  BY DEF decisions, table
<1>3. \A b \in Applications : pipeline'[b] = IF b = a THEN s ELSE pipeline[b]
  BY DEF Inv, TypeRest
<1>4. PathInv'
  <2> SUFFICES ASSUME NEW b \in Applications
               PROVE  PathOk(b, pipeline'[b], decision[b], written[b])
    BY <1>2 DEF PathInv
  <2>1. CASE b = a
    BY <1>1, <1>3, <2>1 DEF PathOk
  <2>2. CASE b # a
    BY <1>3, <2>2 DEF Inv, PathInv
  <2> QED BY <2>1, <2>2
<1>5. LinkInv' /\ EventInv'
  BY <1>1, <1>2, <1>3, TableKept
<1> QED BY <1>4, <1>5

LEMMA SubmitStep == ASSUME NEW a \in Applications PROVE Inv /\ Submit(a) => Inv'
<1> SUFFICES ASSUME Inv, Submit(a) PROVE Inv'
  OBVIOUS
<1> DEFINE s == [step |-> "kyc", age |-> DeriveAge(Dob[a], today)]
<1>1. pipeline[a].step # "decided"
  BY DEF Submit, None
<1>2. pipeline' = [pipeline EXCEPT ![a] = s] /\ s.step = "kyc"
  BY DEF Submit
<1> HIDE DEF s
<1>3. PathInv' /\ LinkInv' /\ EventInv'
  BY <1>1, <1>2, PipelineStep DEF Submit
<1>4. TypeRest'
  <2>1. created' \in Seq(Applications)
    BY AppendProperties DEF Inv, TypeRest, Submit
  <2> QED BY <1>2, <2>1 DEF Inv, TypeRest, Submit, decisions, table, clock
<1> QED BY <1>3, <1>4 DEF Inv

LEMMA ScoreStep ==
    ASSUME NEW a \in Applications, NEW bureau \in Bureaus[a] PROVE Inv /\ Score(a, bureau) => Inv'
<1> SUFFICES ASSUME Inv, Score(a, bureau) PROVE Inv'
  OBVIOUS
<1> DEFINE s == [step |-> "scored", age |-> pipeline[a].age, bureau |-> bureau, model |-> loaded,
                 score |-> ScoreOf(loaded, a, pipeline[a].age, bureau)]
<1>1. pipeline[a].step # "decided"
  BY DEF Score
<1>2. pipeline' = [pipeline EXCEPT ![a] = s]
  BY DEF Score
<1>3. s.step = "scored" /\ ScoredAs(a, s)
  BY DEF ScoredAs
<1> HIDE DEF s
<1>4. PathInv' /\ LinkInv' /\ EventInv'
  BY <1>1, <1>2, <1>3, PipelineStep DEF Score
<1>5. TypeRest'
  BY <1>2 DEF Inv, TypeRest, Score, decisions, table, clock
<1> QED BY <1>4, <1>5 DEF Inv

LEMMA RulesStep == ASSUME NEW a \in Applications PROVE Inv /\ Rules(a) => Inv'
<1> SUFFICES ASSUME Inv, Rules(a) PROVE Inv'
  OBVIOUS
<1>1. pipeline[a].step = "scored" /\ ScoredAs(a, pipeline[a])
  BY DEF Rules, Inv, PathInv, PathOk
<1>2. PICK v \in FindActive(Product[a]) :
        LET t == pipeline[a]
            result == Evaluate(rules[v], a, t.age, t.bureau, t.score.score)
        IN  /\ ~Throws(result, t.score.riskGrade)
            /\ pipeline' = [pipeline EXCEPT ![a] =
                   [step |-> "decided", age |-> t.age, bureau |-> t.bureau,
                    model |-> t.model, score |-> t.score, policy |-> v, rules |-> rules[v],
                    result |-> result]]
  BY DEF Rules
<1> DEFINE t == pipeline[a]
           s == [step |-> "decided", age |-> t.age, bureau |-> t.bureau,
                 model |-> t.model, score |-> t.score, policy |-> v, rules |-> rules[v],
                 result |-> Evaluate(rules[v], a, t.age, t.bureau, t.score.score)]
<1>3. pipeline' = [pipeline EXCEPT ![a] = s]
  BY <1>2
<1>4. s.step = "decided" /\ DecidedAs(a, s)
  BY <1>1, <1>2 DEF DecidedAs, ScoredAs
<1> HIDE DEF s, t
<1>5. PathInv' /\ LinkInv' /\ EventInv'
  BY <1>1, <1>3, <1>4, PipelineStep DEF Rules
<1>6. TypeRest'
  BY <1>3 DEF Inv, TypeRest, Rules, decisions, table, clock
<1> QED BY <1>5, <1>6 DEF Inv

LEMMA PersistStep == ASSUME NEW a \in Applications PROVE Inv /\ Persist(a) => Inv'
<1> SUFFICES ASSUME Inv, Persist(a) PROVE Inv'
  OBVIOUS
<1> DEFINE s == pipeline[a]
           new == StageEvents(a, s)
           d == DecisionRow(a, s)
           m == Len(events)
<1>1. s.step = "decided" /\ written[a] = NoDecision /\ DecidedAs(a, s)
  BY NoDecisionIsNoRow DEF Persist, Inv, PathInv, PathOk
<1>2. s.bureau \in Bureaus[a]
  BY <1>1 DEF DecidedAs, ScoredAs
<1>3. /\ new \in Seq(NewEvents) /\ Len(new) = 6
      /\ \A n \in 1..6 : new[n].application = a
      /\ \A n \in 1..6 : IsBureau(new[n]) => n = 1
      /\ new[1].output = s.bureau
  <2> HIDE DEF s
  <2> QED BY <1>2, StageEventsType
<1>4. /\ AppendEvents(new) /\ pipeline' = pipeline
      /\ decision' = [decision EXCEPT ![a] = d] /\ written' = [written EXCEPT ![a] = d]
  BY DEF Persist
<1>5. s.result.outcome \in Outcomes
  BY <1>1 DEF DecidedAs, Throws
<1>6. RecordedAs(a, s, d) /\ d # NoDecision
  <2>1. /\ d.outcome = s.result.outcome
        /\ d.createdAt = today
        /\ d.overridden = FALSE
    BY DEF DecisionRow
  <2>2. RecordedAs(a, s, d)
    BY <1>5, <2>1 DEF DecisionRow, RecordedAs, Fields
  <2>3. d.outcome # NoDecision.outcome
    BY <1>5, <2>1 DEF Outcomes, NoDecision
  <2> QED BY <2>2, <2>3
<1> HIDE DEF d, new
<1>7. /\ \A b \in Applications : decision'[b] = IF b = a THEN d ELSE decision[b]
      /\ \A b \in Applications : written'[b] = IF b = a THEN d ELSE written[b]
  <2>1. DOMAIN decision = Applications /\ DOMAIN written = Applications
    BY DEF Inv, TypeRest
  <2> QED BY <1>4, <2>1
<1>8. PathInv'
  <2> SUFFICES ASSUME NEW b \in Applications
               PROVE  PathOk(b, pipeline[b], decision'[b], written'[b])
    BY <1>4 DEF PathInv
  <2>1. CASE b = a
    BY <1>1, <1>6, <1>7, <2>1 DEF PathOk, RecordedAs
  <2>2. CASE b # a
    BY <1>7, <2>2 DEF Inv, PathInv
  <2> QED BY <2>1, <2>2
<1>9. /\ LinkInv'
      /\ Len(events') = m + 6
      /\ \A i \in 1..m : events'[i] = events[i]
      /\ \A i \in 1..Len(events') :
            i > m => i - m \in 1..6 /\ IsNewRow(events'[i], new, i - m)
  BY <1>3, <1>4, AppendedRows DEF Inv
<1>10. m \in Nat /\ \A i \in 1..m : events[i].application \in Applications
  BY EventsType DEF Inv, Rows
<1> HIDE DEF m
<1>11. ASSUME NEW i \in 1..m, IsBureau(events'[i])
       PROVE  /\ events'[i].application # a
              /\ written'[events'[i].application] # NoDecision
              /\ events'[i].inserted.output = pipeline[events'[i].application].bureau
  <2>1. events'[i] = events[i] /\ events[i].application \in Applications
    BY <1>9, <1>10
  <2>2. /\ written[events[i].application] # NoDecision
        /\ events[i].inserted.output = pipeline[events[i].application].bureau
    BY <1>11, <2>1 DEF Inv, EventInv, m
  <2> QED BY <1>1, <1>7, <2>1, <2>2
<1>12. ASSUME NEW i \in 1..Len(events'), i > m, IsBureau(events'[i])
       PROVE  i = m + 1 /\ events'[i].application = a /\ events'[i].inserted.output = s.bureau
  <2> DEFINE n == i - m
  <2>1. n \in 1..6 /\ IsNewRow(events'[i], new, n)
    BY <1>9, <1>12
  <2> HIDE DEF n
  <2>2. /\ events'[i].application = new[n].application /\ events'[i].stage = new[n].stage
        /\ events'[i].inserted.output = new[n].output
    BY <2>1 DEF IsNewRow
  <2>3. IsBureau(new[n])
    BY <1>12, <2>2 DEF IsBureau
  <2>4. n = 1
    BY <1>3, <2>1, <2>3
  <2>5. i = m + 1
    BY <1>10, <2>4 DEF n
  <2> QED BY <1>3, <2>1, <2>2, <2>4, <2>5
<1>13. EventInv'
  <2>1. ASSUME NEW i \in 1..Len(events'), IsBureau(events'[i])
        PROVE  /\ written'[events'[i].application] # NoDecision
               /\ events'[i].inserted.output = pipeline'[events'[i].application].bureau
    <3>1. CASE i <= m
      <4>1. i \in 1..m
        BY <1>9, <1>10, <3>1
      <4> QED BY <1>4, <1>11, <2>1, <4>1
    <3>2. CASE ~(i <= m)
      <4>1. i > m
        BY <1>10, <3>2
      <4> QED BY <1>4, <1>6, <1>7, <1>12, <2>1, <4>1
    <3> QED BY <3>1, <3>2
  <2>2. ASSUME NEW i \in 1..Len(events'), NEW j \in 1..Len(events'),
               IsBureau(events'[i]), IsBureau(events'[j]),
               events'[i].application = events'[j].application
        PROVE  i = j
    <3>1. /\ i > m \/ i \in 1..m
          /\ j > m \/ j \in 1..m
      BY <1>9, <1>10
    <3>2. CASE i > m /\ j > m
      BY <1>12, <2>2, <3>2
    <3>3. CASE i \in 1..m /\ j \in 1..m
      <4>1. events'[i] = events[i] /\ events'[j] = events[j]
        BY <1>9, <3>3
      <4> QED BY <2>2, <3>3, <4>1 DEF Inv, EventInv, m
    <3>4. CASE i > m /\ j \in 1..m
      BY <1>11, <1>12, <2>2, <3>4
    <3>5. CASE j > m /\ i \in 1..m
      BY <1>11, <1>12, <2>2, <3>5
    <3> QED BY <3>1, <3>2, <3>3, <3>4, <3>5
  <2> QED BY <2>1, <2>2 DEF EventInv
<1>14. TypeRest'
  BY <1>4 DEF Inv, TypeRest, Persist, AppendEvents, clock
<1> QED BY <1>8, <1>9, <1>13, <1>14 DEF Inv

LEMMA OverrideStep ==
    ASSUME NEW a \in Applications, NEW o \in {"APPROVE", "DECLINE"}
    PROVE  Inv /\ Override(a, o) => Inv'
<1> SUFFICES ASSUME Inv, Override(a, o) PROVE Inv'
  OBVIOUS
<1> DEFINE new == <<[application |-> a, stage |-> "OVERRIDE", output |-> o]>>
           d == [written[a] EXCEPT !.outcome = o, !.overridden = TRUE]
           m == Len(events)
<1>1. /\ pipeline[a].step = "decided" /\ RecordedAs(a, pipeline[a], written[a])
      /\ DecidedAs(a, pipeline[a]) /\ DOMAIN decision[a] = Fields
  BY DEF Override, Inv, PathInv, PathOk
<1>2. new \in Seq(NewEvents) /\ Len(new) = 1 /\ ~IsBureau(new[1])
  <2>1. new[1] \in NewEvents
    BY DEF NewEvents, StageNames, Outputs
  <2> QED BY <2>1 DEF IsBureau
<1>3. AppendEvents(new) /\ pipeline' = pipeline
  BY DEF Override
<1> DEFINE e == [decision[a] EXCEPT !.outcome = o, !.overridden = TRUE]
<1>4. written' = [written EXCEPT ![a] = d] /\ decision' = [decision EXCEPT ![a] = e]
  BY DEF Override
<1>5. RecordedAs(a, pipeline[a], d) /\ d # NoDecision
  <2>1. d.outcome = o /\ d.overridden = TRUE
    BY <1>1 DEF RecordedAs, Fields
  <2>2. RecordedAs(a, pipeline[a], d)
    <3>1. DOMAIN written[a] = Fields
      BY <1>1 DEF RecordedAs
    <3>2. DOMAIN d = Fields /\ \A f \in Fields \ {"outcome", "overridden"} : d[f] = written[a][f]
      BY <3>1
    <3>3. /\ d.score = written[a].score /\ d.riskGrade = written[a].riskGrade
          /\ d.reasonCodes = written[a].reasonCodes
          /\ d.approvedAmount = written[a].approvedAmount
          /\ d.interestRate = written[a].interestRate
          /\ d.policyVersion = written[a].policyVersion
          /\ d.modelVersion = written[a].modelVersion
      BY <3>1 DEF Fields
    <3>4. d.outcome \in Outcomes /\ d.overridden = TRUE
      BY <2>1 DEF Outcomes
    <3> HIDE DEF d
    <3> QED BY <1>1, <3>2, <3>3, <3>4 DEF RecordedAs
  <2>3. d.outcome # NoDecision.outcome
    BY <2>1 DEF NoDecision
  <2> QED BY <2>2, <2>3
<1>6. DOMAIN e = Fields
  BY <1>1
<1> HIDE DEF d, e, new
<1>7. /\ \A b \in Applications : written'[b] = IF b = a THEN d ELSE written[b]
      /\ \A b \in Applications : decision'[b] = IF b = a THEN e ELSE decision[b]
  <2>1. DOMAIN decision = Applications /\ DOMAIN written = Applications
    BY DEF Inv, TypeRest
  <2> QED BY <1>4, <2>1
<1>8. PathInv'
  <2> SUFFICES ASSUME NEW b \in Applications
               PROVE  PathOk(b, pipeline[b], decision'[b], written'[b])
    BY <1>3 DEF PathInv
  <2>1. CASE b = a
    BY <1>1, <1>5, <1>6, <1>7, <2>1 DEF PathOk
  <2>2. CASE b # a
    BY <1>7, <2>2 DEF Inv, PathInv
  <2> QED BY <2>1, <2>2
<1>9. /\ LinkInv'
      /\ Len(events') = m + 1
      /\ \A i \in 1..m : events'[i] = events[i]
      /\ \A i \in 1..Len(events') :
            i > m => i - m \in 1..1 /\ IsNewRow(events'[i], new, i - m)
  BY <1>2, <1>3, AppendedRows DEF Inv
<1>10. m \in Nat /\ \A i \in 1..m : events[i].application \in Applications
  BY EventsType DEF Inv, Rows
<1> HIDE DEF m
<1>11. ASSUME NEW i \in 1..Len(events'), IsBureau(events'[i])
       PROVE  i \in 1..m /\ events'[i] = events[i]
  <2>1. CASE i > m
    <3>1. i - m = 1
      BY <1>9, <2>1
    <3>2. events'[i].stage = new[1].stage
      BY <1>9, <2>1, <3>1 DEF IsNewRow
    <3> QED BY <1>2, <1>11, <3>2 DEF IsBureau
  <2>2. CASE ~(i > m)
    BY <1>9, <1>10, <2>2
  <2> QED BY <2>1, <2>2
<1>12. EventInv'
  <2>1. ASSUME NEW i \in 1..Len(events'), IsBureau(events'[i])
        PROVE  /\ written'[events'[i].application] # NoDecision
               /\ events'[i].inserted.output = pipeline'[events'[i].application].bureau
    <3>1. i \in 1..m /\ events'[i] = events[i] /\ events[i].application \in Applications
      BY <1>10, <1>11, <2>1
    <3>2. /\ written[events[i].application] # NoDecision
          /\ events[i].inserted.output = pipeline[events[i].application].bureau
      BY <2>1, <3>1 DEF Inv, EventInv, m
    <3> QED BY <1>3, <1>5, <1>7, <3>1, <3>2
  <2>2. ASSUME NEW i \in 1..Len(events'), NEW j \in 1..Len(events'),
               IsBureau(events'[i]), IsBureau(events'[j]),
               events'[i].application = events'[j].application
        PROVE  i = j
    <3>1. i \in 1..m /\ events'[i] = events[i] /\ j \in 1..m /\ events'[j] = events[j]
      BY <1>11, <2>2
    <3> QED BY <2>2, <3>1 DEF Inv, EventInv, m
  <2> QED BY <2>1, <2>2 DEF EventInv
<1>13. TypeRest'
  BY <1>4 DEF Inv, TypeRest, Override, AppendEvents, clock
<1> QED BY <1>8, <1>9, <1>12, <1>13 DEF Inv

(* Rows that are moved are still rows of the same events. *)
LEMMA MovedEvents ==
    ASSUME Inv, NEW from, Moved(from), UNCHANGED <<pipeline, written, lastId>>
    PROVE  LinkInv' /\ EventInv'
<1>1. /\ LinkInv'
      /\ \A i \in 1..Len(events') :
            /\ from[i] \in 1..Len(events)
            /\ events'[i].stage = events[from[i]].stage
            /\ events'[i].application = events[from[i]].application
            /\ events'[i].inserted = events[from[i]].inserted
  BY MovedRows DEF Inv
<1>2. EventInv'
  <2>1. ASSUME NEW i \in 1..Len(events'), IsBureau(events'[i])
        PROVE  /\ written'[events'[i].application] # NoDecision
               /\ events'[i].inserted.output = pipeline'[events'[i].application].bureau
    BY <1>1, <2>1 DEF Inv, EventInv, IsBureau
  <2>2. ASSUME NEW i \in 1..Len(events'), NEW j \in 1..Len(events'),
               IsBureau(events'[i]), IsBureau(events'[j]),
               events'[i].application = events'[j].application
        PROVE  i = j
    <3>1. from[i] = from[j]
      BY <1>1, <2>2 DEF Inv, EventInv, IsBureau
    <3> QED BY <3>1 DEF Moved
  <2> QED BY <2>1, <2>2 DEF EventInv
<1> QED BY <1>1, <1>2

(* A change out of band leaves the clock, the loaded model, the statuses   *)
(* and what submissions wrote.                                             *)
LEMMA OutOfBandType ==
    ASSUME TypeRest, OutOfBand,
           rules' \in [PolicyVersions -> PolicyVersions],
           payload' \in [Applications -> Applications],
           DOMAIN decision' = Applications
    PROVE  TypeRest'
<1>1. /\ UNCHANGED <<today, days, loaded, status, created, pipeline, written>>
      /\ tampering < MaxTampering /\ tampering' = tampering + 1
  BY DEF OutOfBand, clock
<1>2. tampering' \in 0..MaxTampering
  BY <1>1, ClockAssumption DEF TypeRest
<1> QED BY <1>1, <1>2 DEF TypeRest

LEMMA LoseRowStep == ASSUME NEW k \in DOMAIN events PROVE Inv /\ LoseRow(k) => Inv'
<1> SUFFICES ASSUME Inv, LoseRow(k) PROVE Inv'
  OBVIOUS
<1>1. k \in 1..Len(events)
  BY EventsType DEF Inv
<1>2. UNCHANGED <<pipeline, decision, written, lastId>>
  BY DEF LoseRow, OutOfBand
<1>3. LinkInv' /\ EventInv'
  BY <1>1, <1>2, LostRow, MovedEvents DEF Inv
<1>4. PathInv'
  BY <1>2 DEF Inv, PathInv
<1>5. TypeRest'
  <2>1. OutOfBand /\ UNCHANGED <<decision, rules, payload>>
    BY DEF LoseRow
  <2> QED BY <2>1, OutOfBandType DEF Inv, TypeRest
<1> QED BY <1>3, <1>4, <1>5 DEF Inv

LEMMA SwapRowsStep == ASSUME NEW k \in 1..(Len(events) - 1) PROVE Inv /\ SwapRows(k) => Inv'
<1> SUFFICES ASSUME Inv, SwapRows(k) PROVE Inv'
  OBVIOUS
<1>1. UNCHANGED <<pipeline, decision, written, lastId>>
  BY DEF SwapRows, OutOfBand
<1>2. LinkInv' /\ EventInv'
  BY <1>1, SwappedRows, MovedEvents DEF Inv
<1>3. PathInv'
  BY <1>1 DEF Inv, PathInv
<1>4. TypeRest'
  <2>1. OutOfBand /\ UNCHANGED <<decision, rules, payload>>
    BY DEF SwapRows
  <2> QED BY <2>1, OutOfBandType DEF Inv, TypeRest
<1> QED BY <1>2, <1>3, <1>4 DEF Inv

LEMMA AlterRowStep == ASSUME NEW k \in DOMAIN events PROVE Inv /\ AlterRow(k) => Inv'
<1> SUFFICES ASSUME Inv, AlterRow(k) PROVE Inv'
  OBVIOUS
<1>1. k \in 1..Len(events)
  BY EventsType DEF Inv
<1>2. UNCHANGED <<pipeline, decision, written>>
  BY DEF AlterRow, OutOfBand
<1>3. /\ LinkInv'
      /\ Len(events') = Len(events)
      /\ \A i \in 1..Len(events) :
            /\ events'[i].stage = events[i].stage
            /\ events'[i].application = events[i].application
            /\ events'[i].inserted = events[i].inserted
  BY <1>1, AlteredRow DEF Inv
<1>4. EventInv'
  BY <1>2, <1>3 DEF Inv, EventInv, IsBureau
<1>5. PathInv'
  BY <1>2 DEF Inv, PathInv
<1>6. TypeRest'
  <2>1. OutOfBand /\ UNCHANGED <<decision, rules, payload>>
    BY DEF AlterRow
  <2> QED BY <2>1, OutOfBandType DEF Inv, TypeRest
<1> QED BY <1>3, <1>4, <1>5, <1>6 DEF Inv

(* The rows that replay reads beside the table of events. *)
LEMMA AlterPolicyStep == ASSUME NEW v \in PolicyVersions PROVE Inv /\ AlterPolicy(v) => Inv'
<1> SUFFICES ASSUME Inv, AlterPolicy(v) PROVE Inv'
  OBVIOUS
<1>1. UNCHANGED <<pipeline, decision, written, events, lastId>>
  BY DEF AlterPolicy, OutOfBand
<1>2. LinkInv' /\ EventInv' /\ PathInv'
  BY <1>1, TableKept DEF Inv, PathInv
<1>3. rules' \in [PolicyVersions -> PolicyVersions]
  <2>1. PICK w \in PolicyVersions : rules' = [rules EXCEPT ![v] = w]
    BY DEF AlterPolicy
  <2> QED BY <2>1 DEF Inv, TypeRest
<1>4. TypeRest'
  <2>1. OutOfBand /\ UNCHANGED <<decision, payload>>
    BY DEF AlterPolicy
  <2> QED BY <1>3, <2>1, OutOfBandType DEF Inv, TypeRest
<1> QED BY <1>2, <1>4 DEF Inv

LEMMA AlterPayloadStep == ASSUME NEW a \in Applications PROVE Inv /\ AlterPayload(a) => Inv'
<1> SUFFICES ASSUME Inv, AlterPayload(a) PROVE Inv'
  OBVIOUS
<1>1. UNCHANGED <<pipeline, decision, written, events, lastId>>
  BY DEF AlterPayload, OutOfBand
<1>2. LinkInv' /\ EventInv' /\ PathInv'
  BY <1>1, TableKept DEF Inv, PathInv
<1>3. payload' \in [Applications -> Applications]
  <2>1. PICK b \in Applications : payload' = [payload EXCEPT ![a] = b]
    BY DEF AlterPayload
  <2> QED BY <2>1 DEF Inv, TypeRest
<1>4. TypeRest'
  <2>1. OutOfBand /\ UNCHANGED <<decision, rules>>
    BY DEF AlterPayload
  <2> QED BY <1>3, <2>1, OutOfBandType DEF Inv, TypeRest
<1> QED BY <1>2, <1>4 DEF Inv

LEMMA AlterDecisionStep == ASSUME NEW a \in Applications PROVE Inv /\ AlterDecision(a) => Inv'
<1> SUFFICES ASSUME Inv, AlterDecision(a) PROVE Inv'
  OBVIOUS
<1>1. UNCHANGED <<pipeline, written, events, lastId>>
  BY DEF AlterDecision, OutOfBand
<1>2. LinkInv' /\ EventInv'
  BY <1>1, TableKept
<1>3. PICK d : decision' = [decision EXCEPT ![a] = d] /\ DOMAIN d = DOMAIN decision[a]
  BY DEF AlterDecision
<1>4. \A b \in Applications : decision'[b] = IF b = a THEN d ELSE decision[b]
  BY <1>3 DEF Inv, TypeRest
<1>5. PathInv'
  <2> SUFFICES ASSUME NEW b \in Applications
               PROVE  PathOk(b, pipeline[b], decision'[b], written[b])
    BY <1>1 DEF PathInv
  <2>1. CASE b = a
    BY <1>3, <1>4, <2>1 DEF AlterDecision, Inv, PathInv, PathOk
  <2>2. CASE b # a
    BY <1>4, <2>2 DEF Inv, PathInv
  <2> QED BY <2>1, <2>2
<1>6. TypeRest'
  <2>1. OutOfBand /\ UNCHANGED <<rules, payload>>
    BY DEF AlterDecision
  <2>2. DOMAIN decision' = Applications
    BY <1>3 DEF Inv, TypeRest
  <2> QED BY <2>1, <2>2, OutOfBandType DEF Inv, TypeRest
<1> QED BY <1>2, <1>5, <1>6 DEF Inv

LEMMA NextInv == Inv /\ [Next]_vars => Inv'
<1> SUFFICES ASSUME Inv, [Next]_vars PROVE Inv'
  OBVIOUS
<1>1. CASE NextDay
  BY <1>1, NextDayStep
<1>2. CASE Deploy
  BY <1>2, DeployStep
<1>3. ASSUME NEW v \in PolicyVersions, Activate(v) \/ AlterPolicy(v) PROVE Inv'
  BY <1>3, ActivateStep, AlterPolicyStep
<1>4. ASSUME NEW a \in Applications, Submit(a) \/ Rules(a) \/ Persist(a) PROVE Inv'
  BY <1>4, SubmitStep, RulesStep, PersistStep
<1>5. ASSUME NEW a \in Applications, NEW b \in Bureaus[a], Score(a, b) PROVE Inv'
  BY <1>5, ScoreStep
<1>6. ASSUME NEW a \in Applications, NEW o \in {"APPROVE", "DECLINE"}, Override(a, o) PROVE Inv'
  BY <1>6, OverrideStep
<1>7. ASSUME NEW a \in Applications, AlterPayload(a) \/ AlterDecision(a) PROVE Inv'
  BY <1>7, AlterPayloadStep, AlterDecisionStep
<1>8. ASSUME NEW i \in DOMAIN events, LoseRow(i) \/ AlterRow(i) PROVE Inv'
  BY <1>8, LoseRowStep, AlterRowStep
<1>9. ASSUME NEW i \in 1..(Len(events) - 1), SwapRows(i) PROVE Inv'
  BY <1>9, SwapRowsStep
<1>10. CASE UNCHANGED vars
  <2>1. UNCHANGED <<today, days, loaded, status, created, pipeline, decision, written>>
    BY <1>10 DEF vars
  <2>2. UNCHANGED <<events, lastId, tampering, rules, payload>>
    BY <1>10 DEF vars
  <2>3. TypeRest' /\ PathInv'
    BY <2>1, <2>2 DEF Inv, TypeRest, PathInv
  <2>4. LinkInv' /\ EventInv'
    BY <2>1, <2>2, TableKept
  <2> QED BY <2>3, <2>4 DEF Inv
<1> QED
  BY <1>1, <1>2, <1>3, <1>4, <1>5, <1>6, <1>7, <1>8, <1>9, <1>10 DEF Next

LEMMA Invariance == Spec => []Inv
BY InitInv, NextInv, PTL DEF Spec

-----------------------------------------------------------------------------
(* Type correctness for every set of applications, policies and models and  *)
(* every bound on the days, the overrides and the tampering.               *)
THEOREM TypeCorrect == Spec => []TypeOK
<1>1. Inv => TypeOK
  <2> SUFFICES ASSUME Inv PROVE TypeOK
    OBVIOUS
  <2>1. ASSUME NEW i \in DOMAIN events
        PROVE  /\ {events[i].id, events[i].serial} \subseteq 1..lastId
               /\ events[i].after \in 0..(events[i].serial - 1)
    <3>1. /\ events[i] \in Rows /\ RowOk(events[i]) /\ lastId \in Nat
          /\ events[i].id \in 1..lastId /\ events[i].serial \in 1..lastId
      BY EventsType DEF Inv, LinkInv
    <3>2. events[i].after \in Nat /\ events[i].after < events[i].serial
      BY <3>1 DEF Rows, RowOk
    <3> QED BY <3>1, <3>2
  <2>2. lastId \in Nat
    BY DEF Inv, LinkInv
  <2> QED BY <2>1, <2>2 DEF Inv, TypeRest, TypeOK
<1> QED BY <1>1, Invariance, PTL

(* Row by row, what the loop of verifyChain compares is whether the row is  *)
(* as it was inserted and follows the row that was then the tip.           *)
LEMMA MatchesIffIntact ==
    ASSUME LinkInv, NEW i \in DOMAIN events
    PROVE  Matches(i) <=> Untouched(i) /\ FollowsItsTip(i)
<1> DEFINE row == events[i]
           expected == ExpectedPrevHash(i)
           link == row.inserted.prevHash
<1>1. /\ i \in 1..Len(events) /\ Len(events) \in Nat
      /\ \A j \in 1..Len(events) : events[j] \in Rows /\ RowOk(events[j])
  BY EventsType
<1>2. row \in Rows /\ RowOk(row)
  BY <1>1
<1>3. /\ row.inserted \in Columns /\ link \in Seq(Contents) /\ row.stage \in StageNames
      /\ Recorded(row) \in Contents /\ Content(row) \in Contents
  BY <1>2 DEF Rows, Columns, Contents, Recorded, Content
<1>4. /\ row.inserted.hash = Append(link, Recorded(row))
      /\ link = Genesis <=> row.after = 0
      /\ row.after # 0 => Last(link).serial = row.after
      /\ row.hash = row.inserted.hash \/ Last(row.hash).stage = "forged"
  BY <1>2 DEF RowOk
<1>5. Content(row) = Recorded(row) <=> row.output = row.inserted.output
  BY DEF Content, Recorded
<1>6. Content(row).stage # "forged"
  BY <1>3 DEF Content, StageNames
<1>7. Untouched(i) <=> /\ row.output = row.inserted.output
                       /\ row.prevHash = link /\ row.hash = row.inserted.hash
  BY <1>3 DEF Untouched, Columns
<1>8. expected \in Seq(Contents)
  <2>1. CASE i = 1
    BY <2>1, EmptySeq DEF ExpectedPrevHash, Genesis
  <2>2. CASE i # 1
    <3>1. i - 1 \in 1..Len(events)
      BY <1>1, <2>2
    <3>2. events[i - 1] \in Rows
      BY <1>1, <3>1
    <3> QED BY <2>2, <3>2 DEF ExpectedPrevHash, Rows
  <2> QED BY <2>1, <2>2
<1>9. expected = link <=> FollowsItsTip(i)
  <2>1. CASE i = 1
    BY <1>4, <2>1 DEF ExpectedPrevHash, FollowsItsTip
  <2>2. CASE i # 1
    <3> DEFINE before == events[i - 1]
    <3>1. i - 1 \in 1..Len(events)
      BY <1>1, <2>2
    <3>2. before.hash # Genesis /\ Last(before.hash).serial = before.serial
      BY <1>1, <3>1 DEF RowOk
    <3>3. expected = before.hash
      BY <2>2 DEF ExpectedPrevHash
    <3>4. FollowsItsTip(i) <=> before.serial = row.after /\ before.hash = link
      BY <2>2 DEF FollowsItsTip
    <3> HIDE DEF before, expected, link, row
    <3> QED BY <1>4, <3>2, <3>3, <3>4
  <2> QED BY <2>1, <2>2
<1>10. Matches(i) <=> row.prevHash = expected /\ row.hash = Append(expected, Content(row))
  BY DEF Matches, Digest
<1> HIDE DEF row, expected, link
<1>11. ASSUME row.prevHash = expected, row.hash = Append(expected, Content(row))
       PROVE  Untouched(i) /\ FollowsItsTip(i)
  <2>1. Last(row.hash) = Content(row)
    BY <1>3, <1>8, <1>11, LastAppended
  <2>2. Append(expected, Content(row)) = Append(link, Recorded(row)) /\ row.hash = row.inserted.hash
    BY <1>4, <1>6, <1>11, <2>1
  <2>3. expected = link /\ Content(row) = Recorded(row)
    BY <1>3, <1>8, <2>2, AppendInjective
  <2> QED BY <1>5, <1>7, <1>9, <1>11, <2>2, <2>3
<1>12. ASSUME Untouched(i), FollowsItsTip(i)
       PROVE  row.prevHash = expected /\ row.hash = Append(expected, Content(row))
  BY <1>4, <1>5, <1>7, <1>9, <1>12
<1> QED BY <1>10, <1>11, <1>12

(* verifyChain tells exactly what was tampered with, for any number of rows *)
(* altered or lost, in any order and with appends in between.              *)
THEOREM TamperingFound == Spec => []VerifyFindsTampering
<1>1. Inv => VerifyFindsTampering
  <2> SUFFICES ASSUME Inv PROVE VerifyFindsTampering
    OBVIOUS
  <2>1. Breaks = Tampered
    BY MatchesIffIntact DEF Inv, Breaks, Tampered
  <2> QED BY <2>1 DEF VerifyFindsTampering, Valid, FirstBreakId
<1> QED BY <1>1, Invariance, PTL

(* As long as its BUREAU event is intact, replay reads the payload that the *)
(* pipeline scored.                                                        *)
LEMMA BureauReadBack ==
    ASSUME Inv, NEW a, BureauKept(a)
    PROVE  a \in Applications /\ written[a] # NoDecision /\ BureauOf(a) = pipeline[a].bureau
<1>1. /\ Len(events) \in Nat /\ DOMAIN events = 1..Len(events)
      /\ \A i \in 1..Len(events) : events[i] \in Rows
  BY EventsType DEF Inv
<1>2. PICK k \in BureauEvents(a) : TRUE
  BY DEF BureauKept
<1>3. k \in 1..Len(events) /\ events[k].application = a /\ IsBureau(events[k])
  BY <1>1, <1>2 DEF BureauEvents, IsBureau
<1>4. \A i \in BureauEvents(a) : i = k
  BY <1>1, <1>3 DEF BureauEvents, IsBureau, Inv, EventInv
<1>5. written[a] # NoDecision /\ events[k].inserted.output = pipeline[a].bureau
  BY <1>3 DEF Inv, EventInv
<1>6. events[k].output = events[k].inserted.output
  BY <1>2 DEF BureauKept
<1>7. (CHOOSE i \in BureauEvents(a) : \A j \in BureauEvents(a) : j <= i) = k
  <2>1. k <= k
    BY <1>1, <1>3
  <2> QED BY <1>2, <1>4, <2>1
<1>8. a \in Applications
  BY <1>1, <1>3 DEF Rows
<1> QED BY <1>5, <1>6, <1>7, <1>8 DEF BureauOf

(* What the pipeline computed is computed again from rows that were kept. *)
LEMMA ReplayedAgain ==
    ASSUME Inv, NEW a \in Applications, BureauKept(a), RowsKept(a), Reproducible(a)
    PROVE  /\ ~Replayed(a).throws
           /\ \A f \in Checked : Replayed(a)[f] = decision[a][f]
<1> DEFINE s == pipeline[a]
           d == decision[a]
           age == DeriveAge(Dob[a], d.createdAt)
           bureau == BureauOf(a)
           score == ScoreOf(loaded, a, age, bureau)
           result == Evaluate(rules[d.policyVersion], a, age, bureau, score.score)
           priced == Priced(a, score.riskGrade, result.outcome, ReplayCeiling)
           reasons == MergeReasonCodes(result.outcome, result.reasonCodes, score.reasonCodes)
<1>1. written[a] # NoDecision /\ bureau = s.bureau /\ d = written[a]
  BY BureauReadBack DEF RowsKept, DecisionKept
<1>2. DecidedAs(a, s) /\ RecordedAs(a, s, d)
  BY <1>1 DEF Inv, PathInv, PathOk
<1>3. /\ age = s.age /\ loaded = s.model /\ ~d.overridden
      /\ rules[d.policyVersion] = s.rules
  BY <1>2 DEF Reproducible, SameAge, SameModel, RecordedAs, RowsKept, PolicyKept
<1>4. score = s.score
  BY <1>1, <1>2, <1>3 DEF DecidedAs, ScoredAs
<1>5. result = s.result
  BY <1>1, <1>2, <1>3, <1>4 DEF DecidedAs
<1>6. ~Throws(result, score.riskGrade)
  BY <1>2, <1>4, <1>5 DEF DecidedAs
<1>7. /\ d.outcome = result.outcome /\ d.score = score.score /\ d.riskGrade = score.riskGrade
      /\ d.reasonCodes = reasons
  BY <1>2, <1>3, <1>4, <1>5 DEF RecordedAs
<1>8. d.approvedAmount = priced.limit /\ d.interestRate = priced.rate
  <2>1. Priced(a, s.score.riskGrade, s.result.outcome, ProductCeilings[Product[a]]) =
        Priced(a, s.score.riskGrade, s.result.outcome, ReplayCeiling)
    BY <1>4, <1>7 DEF Priced, Reproducible, SameCeiling
  <2> QED BY <1>2, <1>4, <1>5, <2>1 DEF RecordedAs
<1>9. payload[a] = a
  BY DEF RowsKept, PayloadKept
<1>10. Replayed(a) =
        [throws |-> Throws(result, score.riskGrade),
         outcome |-> result.outcome, score |-> score.score, riskGrade |-> score.riskGrade,
         reasonCodes |-> reasons, approvedAmount |-> priced.limit, interestRate |-> priced.rate]
  BY <1>9 DEF Replayed
<1> HIDE DEF s, d, age, bureau, score, result, priced, reasons
<1>11. ~Replayed(a).throws
  BY <1>6, <1>10
<1>12. /\ Replayed(a).outcome = d.outcome /\ Replayed(a).score = d.score
       /\ Replayed(a).riskGrade = d.riskGrade /\ Replayed(a).reasonCodes = d.reasonCodes
       /\ Replayed(a).approvedAmount = d.approvedAmount
       /\ Replayed(a).interestRate = d.interestRate
  BY <1>7, <1>8, <1>10
<1>13. \A f \in Checked : Replayed(a)[f] = d[f]
  BY <1>12 DEF Checked
<1> QED BY <1>11, <1>13 DEF d

(* A replay agrees with the decision in every field, for every scorecard,  *)
(* policy and pricing, whatever happened in between, but for the reasons   *)
(* that Reproducible, BureauKept and RowsKept name.                        *)
THEOREM ReplayCorrect == Spec => []ReplayAgrees
<1>1. Inv => ReplayAgrees
  <2> SUFFICES ASSUME Inv, NEW a \in Applications, decision[a] # NoDecision,
                      BureauKept(a), RowsKept(a), Reproducible(a)
               PROVE  Answers(a) /\ Differences(a) = {}
    BY DEF ReplayAgrees
  <2>1. BureauEvents(a) # {}
    BY DEF BureauKept
  <2> QED BY <2>1, ReplayedAgain DEF Answers, Differences
<1> QED BY <1>1, Invariance, PTL

(* What a mismatch means, for every number of changes out of band: where   *)
(* audit/verify answers valid and the code is that of the decision, one of *)
(* the rows that no chain covers was changed.                              *)
THEOREM MismatchExplained == Spec => []MismatchMeansDrift
<1>1. Inv => MismatchMeansDrift
  <2> SUFFICES ASSUME Inv, NEW a \in Applications,
                      Answers(a), Reproducible(a), Differences(a) # {}, Valid,
                      RowsKept(a)
               PROVE  FALSE
    BY DEF MismatchMeansDrift, RowsKept
  <2>1. ASSUME NEW i \in BureauEvents(a)
        PROVE  events[i].output = events[i].inserted.output
    <3>1. i \in DOMAIN events /\ Matches(i)
      BY DEF BureauEvents, Valid, Breaks
    <3>2. Untouched(i)
      BY <3>1, MatchesIffIntact DEF Inv
    <3> QED BY <3>2, Z3 DEF Untouched
  <2>2. BureauKept(a)
    BY <2>1 DEF BureauKept, Answers
  <2>3. Differences(a) = {}
    BY <2>2, ReplayedAgain DEF Differences
  <2> QED BY <2>3
<1> QED BY <1>1, Invariance, PTL

(* Simulating the policy of a sample over that sample shows no effect, for *)
(* every policy, any sample size and whatever model is loaded by then.     *)
THEOREM SimulationNeutral == Spec => []SimulationOfOwnPolicy
<1>1. Inv => SimulationOfOwnPolicy
  <2> SUFFICES ASSUME Inv, NEW v \in PolicyVersions, NEW n \in 1..Cardinality(Applications),
                      \A a \in ToSet(Sample(PolicyProduct[v], n)) :
                          /\ decision[a].policyVersion = v /\ ~decision[a].overridden
                          /\ BureauKept(a) /\ RowsKept(a) /\ SameAge(a)
               PROVE  LET result == Simulate(v, n)
                      IN  /\ result.current = result.draft
                          /\ result.approvedNowDeclined + result.declinedNowApproved = 0
    BY DEF SimulationOfOwnPolicy
  <2> DEFINE records == Sample(PolicyProduct[v], n)
             now == [i \in DOMAIN records |-> decision[records[i]].outcome]
             draft == [i \in DOMAIN records |-> DraftResult(v, records[i]).outcome]
             flips(from, to) == {i \in DOMAIN records : now[i] = from /\ draft[i] = to}
  <2>1. ASSUME NEW a, a \in ToSet(records)
        PROVE  DraftResult(v, a).outcome = decision[a].outcome
    <3>1. /\ decision[a].policyVersion = v /\ ~decision[a].overridden
          /\ BureauKept(a) /\ RowsKept(a) /\ SameAge(a)
      BY <2>1
    <3>2. a \in Applications /\ written[a] # NoDecision /\ BureauOf(a) = pipeline[a].bureau
      BY <3>1, BureauReadBack
    <3>3. DecidedAs(a, pipeline[a]) /\ RecordedAs(a, pipeline[a], written[a])
      BY <3>2 DEF Inv, PathInv, PathOk
    <3>4. decision[a] = written[a] /\ rules[v] = pipeline[a].rules /\ payload[a] = a
      BY <3>1, <3>3 DEF RowsKept, DecisionKept, PolicyKept, PayloadKept, RecordedAs
    <3>5. DraftResult(v, a) = pipeline[a].result
      BY <3>1, <3>2, <3>3, <3>4 DEF DraftResult, SameAge, DecidedAs, RecordedAs
    <3> QED BY <3>1, <3>3, <3>4, <3>5 DEF RecordedAs
  <2>2. ASSUME NEW i \in DOMAIN records PROVE now[i] = draft[i]
    <3>1. records[i] \in ToSet(records)
      BY DEF ToSet
    <3> QED BY <2>1, <3>1
  <2> HIDE DEF records
  <2>3. now = draft
    BY <2>2
  <2>4. flips("APPROVE", "DECLINE") = {} /\ flips("DECLINE", "APPROVE") = {}
    BY <2>2
  <2>5. Cardinality({}) = 0
    BY FS_EmptySet
  <2>6. Simulate(v, n) =
          [current |-> Summarize(now), draft |-> Summarize(draft),
           approvedNowDeclined |-> Cardinality(flips("APPROVE", "DECLINE")),
           declinedNowApproved |-> Cardinality(flips("DECLINE", "APPROVE")),
           sampleSize |-> Len(records)]
    BY DEF Simulate, records
  <2> HIDE DEF now, draft, flips
  <2>7. /\ Simulate(v, n).current = Summarize(now) /\ Simulate(v, n).draft = Summarize(draft)
        /\ Simulate(v, n).approvedNowDeclined = Cardinality(flips("APPROVE", "DECLINE"))
        /\ Simulate(v, n).declinedNowApproved = Cardinality(flips("DECLINE", "APPROVE"))
    BY <2>6
  <2>8. Simulate(v, n).approvedNowDeclined = 0 /\ Simulate(v, n).declinedNowApproved = 0
    BY <2>4, <2>5, <2>7
  <2> QED BY <2>3, <2>7, <2>8
<1> QED BY <1>1, Invariance, PTL
=============================================================================
