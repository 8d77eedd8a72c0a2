------------------------- MODULE ForensicSinksProofs -------------------------
(***************************************************************************)
(* Proofs about ForensicSinks, for any number of processes, of events and  *)
(* of instants.                                                            *)
(***************************************************************************)
EXTENDS ForensicSinks, FiniteSetTheorems, TLAPS

(* An event has a receipt when its run has gone past it.                   *)
ReceiptInv ==
    \A r \in Runs :
        /\ receipts[r] = event[r] - 1
        /\ pc[r] \in {"opened", "written", "inserting", "committed"} => event[r] <= MaxEvents

(* What an export has done by the stage it is at.                          *)
StageInv ==
    \A r \in Runs :
        /\ pc[r] = "written" => \E i \in 1..Len(file) : Holds(i, r, event[r], "json")
        /\ pc[r] = "committed" => Row(r) \in table

Ended(i) == \E k \in i..Len(file) : file[k].part = "newline"

(* The text of an earlier event of a run has a newline somewhere after it, *)
(* and the text of the present one is followed by the newline of its own   *)
(* export or by nothing of this run.                                       *)
TextInv ==
    \A i \in 1..Len(file) : IsText(i) =>
        /\ file[i].event <= event[file[i].run]
        /\ file[i].event < event[file[i].run] => Ended(i)
        /\ file[i].event = event[file[i].run] =>
              pc[file[i].run] \in {"written", "failed", "killed"}

(* The store holds finitely many rows, so that a query can count them.     *)
StoreInv == IsFiniteSet(table)

IInv ==
    /\ TypeOK
    /\ ReceiptInv
    /\ StageInv
    /\ TextInv
    /\ StoreInv
    /\ ReceiptMeansStored
    /\ OwnLinesApart
    /\ OldestFirst

-----------------------------------------------------------------------------
(* Lemmas about to_rfc3339.                                                *)

(* A text between its first character and the sign of the zone.            *)
LEMMA TextBetween ==
    ASSUME NEW s \in Nat, NEW f \in Seq(Nat)
    PROVE  LET x == <<s>> \o f \o <<43>>
           IN  /\ x \in Seq(Nat)
               /\ Len(x) = Len(f) + 2
               /\ x[1] = s
               /\ \A i \in 2..(Len(f) + 1) : x[i] = f[i - 1]
               /\ x[Len(f) + 2] = 43
<1> DEFINE x == <<s>> \o f \o <<43>>
           y == <<s>> \o f
<1>1. <<s>> \in Seq(Nat) /\ <<43>> \in Seq(Nat) /\ Len(<<s>>) = 1 /\ Len(<<43>>) = 1
  OBVIOUS
<1>2. /\ y \in Seq(Nat) /\ Len(y) = Len(f) + 1
      /\ y[1] = s /\ \A i \in 2..(Len(f) + 1) : y[i] = f[i - 1]
  BY <1>1
<1> HIDE DEF y
<1>3. /\ y \o <<43>> \in Seq(Nat) /\ Len(y \o <<43>>) = Len(f) + 2
      /\ \A i \in 1..(Len(f) + 1) : (y \o <<43>>)[i] = y[i]
      /\ (y \o <<43>>)[Len(f) + 2] = 43
  BY <1>1, <1>2
<1>4. x = y \o <<43>>
  BY DEF y
<1> QED
  BY <1>2, <1>3, <1>4

(* The text of an instant: no fraction, one digit of it, or both.          *)
LEMMA TextOfTime ==
    ASSUME NEW t \in Times
    PROVE  LET x == ToRfc3339(t)
               a == t.digits[1]
               b == t.digits[2]
           IN  /\ Len(x) \in Nat
               /\ x[1] = 48 + t.second
               /\ a = 0 /\ b = 0 => Len(x) = 2 /\ x[2] = 43
               /\ a # 0 /\ b = 0 => Len(x) = 4 /\ x[2] = 46 /\ x[3] = 48 + a /\ x[4] = 43
               /\ b # 0 => Len(x) = 5 /\ x[2] = 46 /\ x[3] = 48 + a /\ x[4] = 48 + b
<1> DEFINE x == ToRfc3339(t)
           s == 48 + t.second
           a == t.digits[1]
           b == t.digits[2]
           f == CASE a = 0 /\ b = 0 -> <<>>
                  [] b = 0 /\ a # 0 -> <<46, 48 + a>>
                  [] OTHER -> <<46, 48 + a, 48 + b>>
<1>1. s \in Nat /\ a \in 0..9 /\ b \in 0..9 /\ t.digits = <<a, b>>
  BY TimesAssumption
<1>2. x = <<s>> \o f \o <<43>>
  BY <1>1 DEF ToRfc3339
<1>3. /\ f \in Seq(Nat)
      /\ a = 0 /\ b = 0 => Len(f) = 0
      /\ a # 0 /\ b = 0 => Len(f) = 2 /\ f[1] = 46 /\ f[2] = 48 + a
      /\ b # 0 => Len(f) = 3 /\ f[1] = 46 /\ f[2] = 48 + a /\ f[3] = 48 + b
  BY <1>1
<1> HIDE DEF x, s, a, b, f
<1>4. /\ Len(x) = Len(f) + 2
      /\ x[1] = s
      /\ \A i \in 2..(Len(f) + 1) : x[i] = f[i - 1]
      /\ x[Len(f) + 2] = 43
  BY <1>1, <1>2, <1>3, TextBetween
<1>5. Len(x) \in Nat
  BY <1>3, <1>4
<1>6. a = 0 /\ b = 0 => Len(x) = 2 /\ x[2] = 43
  BY <1>3, <1>4
<1>7. ASSUME a # 0, b = 0
      PROVE  Len(x) = 4 /\ x[2] = 46 /\ x[3] = 48 + a /\ x[4] = 43
  <2>1. Len(f) = 2 /\ f[1] = 46 /\ f[2] = 48 + a
    BY <1>3, <1>7
  <2>2. x[2] = f[1] /\ x[3] = f[2]
    BY <1>4, <2>1
  <2> QED
    BY <1>4, <2>1, <2>2
<1>8. ASSUME b # 0
      PROVE  Len(x) = 5 /\ x[2] = 46 /\ x[3] = 48 + a /\ x[4] = 48 + b
  <2>1. Len(f) = 3 /\ f[1] = 46 /\ f[2] = 48 + a /\ f[3] = 48 + b
    BY <1>3, <1>8
  <2>2. x[2] = f[1] /\ x[3] = f[2] /\ x[4] = f[3]
    BY <1>4, <2>1
  <2> QED
    BY <1>4, <2>1, <2>2
<1> QED
  BY <1>4, <1>5, <1>6, <1>7, <1>8 DEF x, s, a, b

(* The text of an earlier instant comes first, although the texts have     *)
(* different lengths: the sign of the zone is less than the point, and     *)
(* less than every digit.                                                  *)
LEMMA EarlierTextBefore ==
    ASSUME NEW t \in Times, NEW u \in Times, Earlier(t, u)
    PROVE  TextBefore(ToRfc3339(t), ToRfc3339(u))
<1> DEFINE x == ToRfc3339(t)
           y == ToRfc3339(u)
           a == t.digits[1]
           b == t.digits[2]
           c == u.digits[1]
           d == u.digits[2]
<1>1. /\ t.second \in Nat /\ a \in 0..9 /\ b \in 0..9
      /\ u.second \in Nat /\ c \in 0..9 /\ d \in 0..9
  BY TimesAssumption
<1>2. /\ Len(x) \in Nat
      /\ x[1] = 48 + t.second
      /\ a = 0 /\ b = 0 => Len(x) = 2 /\ x[2] = 43
      /\ a # 0 /\ b = 0 => Len(x) = 4 /\ x[2] = 46 /\ x[3] = 48 + a /\ x[4] = 43
      /\ b # 0 => Len(x) = 5 /\ x[2] = 46 /\ x[3] = 48 + a /\ x[4] = 48 + b
  BY TextOfTime
<1>3. /\ Len(y) \in Nat
      /\ y[1] = 48 + u.second
      /\ c = 0 /\ d = 0 => Len(y) = 2 /\ y[2] = 43
      /\ c # 0 /\ d = 0 => Len(y) = 4 /\ y[2] = 46 /\ y[3] = 48 + c /\ y[4] = 43
      /\ d # 0 => Len(y) = 5 /\ y[2] = 46 /\ y[3] = 48 + c /\ y[4] = 48 + d
  BY TextOfTime
<1>4. \/ t.second < u.second
      \/ t.second = u.second /\ a < c
      \/ t.second = u.second /\ a = c /\ b < d
  BY DEF Earlier
<1> SUFFICES TextBefore(x, y)
  OBVIOUS
<1> HIDE DEF x, y, a, b, c, d
<1>5. \A k \in 1..Len(y) :
        x[k] < y[k] /\ (\A i \in 1..(k - 1) : i <= Len(x) /\ x[i] = y[i]) => TextBefore(x, y)
  BY DEF TextBefore
<1>6. CASE t.second < u.second
  <2>1. 1 \in 1..Len(y) /\ x[1] < y[1]
    BY <1>1, <1>2, <1>3, <1>6
  <2>2. \A i \in 1..(1 - 1) : i <= Len(x) /\ x[i] = y[i]
    OBVIOUS
  <2> QED
    BY <1>5, <2>1, <2>2
<1>7. CASE t.second = u.second /\ a = 0 /\ b = 0
  <2>1. 2 \in 1..Len(y) /\ x[1] = y[1] /\ x[2] < y[2] /\ Len(x) = 2
    BY <1>1, <1>2, <1>3, <1>4, <1>7
  <2>2. \A i \in 1..(2 - 1) : i <= Len(x) /\ x[i] = y[i]
    BY <2>1
  <2> QED
    BY <1>5, <2>1, <2>2
<1>8. CASE t.second = u.second /\ a < c /\ ~(a = 0 /\ b = 0)
  <2>1. 3 \in 1..Len(y) /\ y[1] = 48 + u.second /\ y[2] = 46 /\ y[3] = 48 + c
    BY <1>1, <1>3, <1>8
  <2>2. Len(x) \in 4..5 /\ x[1] = 48 + t.second /\ x[2] = 46 /\ x[3] = 48 + a
    BY <1>1, <1>2, <1>8
  <2>3. \A i \in 1..(3 - 1) : i = 1 \/ i = 2
    OBVIOUS
  <2>4. \A i \in 1..(3 - 1) : i <= Len(x) /\ x[i] = y[i]
    BY <1>8, <2>1, <2>2, <2>3
  <2>5. x[3] < y[3]
    BY <1>1, <1>8, <2>1, <2>2
  <2> QED
    BY <1>5, <2>1, <2>4, <2>5
<1>9. CASE t.second = u.second /\ a = c /\ b < d /\ ~(a = 0 /\ b = 0)
  <2>1. /\ 4 \in 1..Len(y) /\ y[1] = 48 + u.second /\ y[2] = 46 /\ y[3] = 48 + c
        /\ y[4] = 48 + d
    BY <1>1, <1>3, <1>9
  <2>2. /\ Len(x) \in 4..5 /\ x[1] = 48 + t.second /\ x[2] = 46 /\ x[3] = 48 + a
        /\ x[4] = 43 \/ x[4] = 48 + b
    BY <1>1, <1>2, <1>9
  <2>3. \A i \in 1..(4 - 1) : i = 1 \/ i = 2 \/ i = 3
    OBVIOUS
  <2>4. \A i \in 1..(4 - 1) : i <= Len(x) /\ x[i] = y[i]
    BY <1>9, <2>1, <2>2, <2>3
  <2>5. x[4] < y[4]
    BY <1>1, <1>9, <2>1, <2>2
  <2> QED
    BY <1>5, <2>1, <2>4, <2>5
<1> QED
  BY <1>4, <1>6, <1>7, <1>8, <1>9

-----------------------------------------------------------------------------
(* Lemmas about a file that only grows.                                    *)

(* Every piece that was in the file is still where it was.                 *)
Grows ==
    /\ Len(file) <= Len(file')
    /\ \A i \in 1..Len(file) : file'[i] = file[i]

Stored(r, e) ==
    \/ [run |-> r, event |-> e] \in table
    \/ \E i, j \in 1..Len(file) :
          i < j /\ Holds(i, r, e, "json") /\ Holds(j, r, e, "newline")

(* What a piece in the file is made of.                                    *)
LEMMA PieceParts ==
    ASSUME file \in Seq(Pieces), NEW i \in 1..Len(file)
    PROVE  file[i].run \in Runs /\ file[i].event \in Nat
<1>1. file[i] \in Pieces
  OBVIOUS
<1> QED
  BY <1>1, EventsAssumption DEF Pieces

(* A write in append mode.                                                 *)
LEMMA AppendGrows ==
    ASSUME TypeOK, NEW x \in Pieces, file' = Append(file, x)
    PROVE  /\ file' \in Seq(Pieces)
           /\ Len(file') = Len(file) + 1
           /\ file'[Len(file) + 1] = x
           /\ Grows
  BY DEF TypeOK, Grows

(* What is stored stays stored.                                            *)
LEMMA StoredStays ==
    ASSUME file \in Seq(Pieces), file' \in Seq(Pieces), Grows, table \subseteq table',
           NEW r, NEW e, Stored(r, e)
    PROVE  Stored(r, e)'
<1>1. CASE [run |-> r, event |-> e] \in table
  BY <1>1 DEF Stored
<1>2. CASE \E i, j \in 1..Len(file) :
              i < j /\ Holds(i, r, e, "json") /\ Holds(j, r, e, "newline")
  <2>1. PICK i \in 1..Len(file), j \in 1..Len(file) :
          i < j /\ Holds(i, r, e, "json") /\ Holds(j, r, e, "newline")
    BY <1>2
  <2>2. i \in 1..Len(file') /\ j \in 1..Len(file') /\ file'[i] = file[i] /\ file'[j] = file[j]
    BY <2>1 DEF Grows
  <2> QED
    BY <2>1, <2>2 DEF Stored, Holds
<1> QED
  BY <1>1, <1>2 DEF Stored

(* So the receipts given so far are still worth something.                 *)
LEMMA ReceiptsStay ==
    ASSUME file \in Seq(Pieces), file' \in Seq(Pieces), Grows, table \subseteq table',
           UNCHANGED receipts, ReceiptMeansStored
    PROVE  ReceiptMeansStored'
  BY StoredStays DEF ReceiptMeansStored, Stored

(* A text that had a newline after it still has.                           *)
LEMMA EndedStays ==
    ASSUME file \in Seq(Pieces), file' \in Seq(Pieces), Grows,
           NEW i \in 1..Len(file), Ended(i)
    PROVE  Ended(i)'
<1>1. PICK k \in i..Len(file) : file[k].part = "newline"
  BY DEF Ended
<1>2. k \in i..Len(file') /\ file'[k] = file[k]
  BY DEF Grows
<1> QED
  BY <1>1, <1>2 DEF Ended

-----------------------------------------------------------------------------
(* The invariant.                                                          *)

(* The first state: an empty file and an empty store.                      *)
LEMMA InitInv == Init => IInv
<1> SUFFICES ASSUME Init
             PROVE  IInv
  OBVIOUS
<1>1. TypeOK
  BY EventsAssumption DEF Init, TypeOK, Stages
<1>2. ReceiptInv
  BY EventsAssumption DEF Init, ReceiptInv
<1>3. StageInv /\ TextInv
  BY DEF Init, StageInv, TextInv
<1>4. StoreInv
  BY FS_EmptySet DEF Init, StoreInv
<1>5. ReceiptMeansStored /\ OwnLinesApart /\ OldestFirst
  BY DEF Init, ReceiptMeansStored, OwnLinesApart, OldestFirst
<1> QED
  BY <1>1, <1>2, <1>3, <1>4, <1>5 DEF IInv

(* A query changes nothing but its result, and returns the oldest first.   *)
LEMMA QueryStep ==
    ASSUME IInv, Query
    PROVE  IInv'
<1>1. PICK rs \in SUBSET Runs : result' \in OrderedByTime({row \in table : row.run \in rs})
  BY DEF Query
<1> DEFINE rows == {row \in table : row.run \in rs}
           n == Cardinality(rows)
<1>2. UNCHANGED <<file, pc, event, receipts, sink, now, table>>
  BY DEF Query, given
<1>3. n \in Nat
  BY FS_Subset, FS_CardinalityType DEF IInv, StoreInv
<1>4. /\ result' \in [1..n -> rows]
      /\ \A i, j \in 1..n :
            TextBefore(ToRfc3339(now[result'[i].run]), ToRfc3339(now[result'[j].run])) => i < j
  BY <1>1 DEF OrderedByTime
<1> HIDE DEF n, rows
<1>5. result' \in Seq(rows) /\ Len(result') = n
  BY <1>3, <1>4
<1>6. rows \subseteq Rows
  BY DEF rows, IInv, TypeOK
<1>7. TypeOK'
  BY <1>2, <1>5, <1>6 DEF IInv, TypeOK
<1>8. OldestFirst'
  <2> SUFFICES ASSUME NEW i \in 1..n, NEW j \in 1..n,
                      Earlier(now[result'[i].run], now[result'[j].run])
               PROVE  i < j
    BY <1>2, <1>5 DEF OldestFirst
  <2>1. now[result'[i].run] \in Times /\ now[result'[j].run] \in Times
    <3>1. result'[i] \in Rows /\ result'[j] \in Rows
      BY <1>4, <1>6
    <3>2. result'[i].run \in Runs /\ result'[j].run \in Runs
      BY <3>1 DEF Rows
    <3> QED
      BY <3>2 DEF IInv, TypeOK
  <2> QED
    BY <1>4, <2>1, EarlierTextBefore
<1>9. ReceiptInv' /\ StoreInv'
  BY <1>2 DEF IInv, ReceiptInv, StoreInv
<1>10. StageInv' /\ ReceiptMeansStored'
  BY <1>2 DEF IInv, StageInv, ReceiptMeansStored, Holds, Row
<1>11. TextInv' /\ OwnLinesApart'
  BY <1>2 DEF IInv, TextInv, OwnLinesApart, IsText, Ended, SameLine
<1> QED
  BY <1>7, <1>8, <1>9, <1>10, <1>11 DEF IInv

(* Steps that leave the file, the receipts and the events as they are.     *)
Quiet ==
    /\ UNCHANGED <<file, event, receipts, sink, now, result>>
    /\ \A r \in Runs : \/ pc'[r] = pc[r]
                       \/ pc'[r] \in {"failed", "killed"}
                       \/ pc[r] = "ready" /\ pc'[r] = "returned"
                       \/ /\ pc[r] = "ready" /\ event[r] <= MaxEvents
                          /\ pc'[r] \in {"opened", "inserting"}
                       \/ /\ pc[r] = "inserting" /\ pc'[r] = "committed"
                          /\ Row(r) \in table'
    /\ pc' \in [Runs -> Stages]
    /\ table \subseteq table' /\ table' \subseteq Rows /\ IsFiniteSet(table')

(* A run that opens the file, begins or commits an insert, fails, returns  *)
(* or is killed without having written anything.                           *)
LEMMA QuietStep ==
    ASSUME IInv, Quiet
    PROVE  IInv'
<1>1. UNCHANGED <<file, event, receipts, sink, now, result>>
  BY DEF Quiet
<1>2. TypeOK' /\ StoreInv'
  BY <1>1 DEF Quiet, IInv, TypeOK, StoreInv
<1>3. ReceiptInv'
  BY <1>1 DEF Quiet, IInv, ReceiptInv
<1>4. StageInv'
  BY <1>1 DEF Quiet, IInv, StageInv, Row, Holds
<1>5. TextInv'
  <2> SUFFICES ASSUME NEW i \in 1..Len(file), IsText(i)
               PROVE  /\ file[i].event <= event[file[i].run]
                      /\ file[i].event < event[file[i].run] => Ended(i)
                      /\ file[i].event = event[file[i].run] =>
                            pc'[file[i].run] \in {"written", "failed", "killed"}
    BY <1>1 DEF TextInv, IsText, Ended
  <2>1. file[i].run \in Runs
    BY PieceParts DEF IInv, TypeOK
  <2> QED
    BY <2>1 DEF Quiet, IInv, TextInv
<1>6. ReceiptMeansStored'
  BY <1>1 DEF Quiet, IInv, ReceiptMeansStored, Holds
<1>7. OwnLinesApart'
  BY <1>1 DEF IInv, OwnLinesApart, IsText, SameLine
<1>8. OldestFirst'
  BY <1>1 DEF IInv, OldestFirst
<1> QED
  BY <1>2, <1>3, <1>4, <1>5, <1>6, <1>7, <1>8 DEF IInv

(* A JSON text, or the beginning of one, is written: the texts this run    *)
(* wrote before are of earlier events and have their newlines.             *)
LEMMA TextStep ==
    ASSUME IInv, NEW r \in Runs, pc[r] = "opened",
           NEW part \in {"json", "torn"}, file' = Append(file, Piece(r, part)),
           NEW stage \in {"written", "failed", "killed"}, Goto(r, stage),
           stage = "written" => part = "json",
           UNCHANGED <<event, receipts, sink, now, table, result>>
    PROVE  IInv'
<1> DEFINE x == Piece(r, part)
           n == Len(file)
<1>1. /\ x \in Pieces /\ x.run = r /\ x.event = event[r] /\ x.part = part
      /\ x = [run |-> r, event |-> event[r], part |-> part]
  <2>1. event[r] \in 1..MaxEvents
    BY EventsAssumption DEF IInv, TypeOK, ReceiptInv
  <2> QED
    BY <2>1 DEF Piece, Pieces
<1>2. /\ file' \in Seq(Pieces) /\ Len(file') = n + 1 /\ file'[n + 1] = x /\ Grows
  BY <1>1, AppendGrows DEF IInv
<1>3. file \in Seq(Pieces) /\ n \in Nat
  BY DEF IInv, TypeOK
<1>4. \A i \in 1..n : file'[i] = file[i] /\ file[i].run \in Runs
  BY <1>2, <1>3, PieceParts DEF Grows
<1>5. pc' \in [Runs -> Stages] /\ pc'[r] = stage /\ \A q \in Runs \ {r} : pc'[q] = pc[q]
  BY DEF Goto, IInv, TypeOK, Stages
<1> HIDE DEF x, n
<1>6. TypeOK' /\ StoreInv' /\ OldestFirst'
  BY <1>2, <1>5 DEF IInv, TypeOK, StoreInv, OldestFirst
<1>7. ReceiptInv'
  BY <1>5 DEF IInv, ReceiptInv
<1>8. StageInv'
  <2> SUFFICES ASSUME NEW q \in Runs
               PROVE  /\ pc'[q] = "written" =>
                             \E i \in 1..Len(file') : Holds(i, q, event[q], "json")'
                      /\ pc'[q] = "committed" => Row(q) \in table
    BY DEF StageInv, Row, Holds
  <2>1. CASE q = r
    BY <1>1, <1>2, <1>3, <1>5, <2>1 DEF Holds
  <2>2. CASE q # r
    <3>1. pc'[q] = pc[q]
      BY <1>5, <2>2
    <3>2. ASSUME pc[q] = "written"
          PROVE  \E i \in 1..Len(file') : Holds(i, q, event[q], "json")'
      <4>1. PICK i \in 1..n : Holds(i, q, event[q], "json")
        BY <3>2 DEF IInv, StageInv, n
      <4>2. i \in 1..Len(file') /\ file'[i] = file[i]
        BY <1>2, <1>3, <1>4
      <4> QED
        BY <4>1, <4>2 DEF Holds
    <3> QED
      BY <3>1, <3>2 DEF IInv, StageInv
  <2> QED
    BY <2>1, <2>2
<1>9. TextInv'
  <2> SUFFICES ASSUME NEW i \in 1..Len(file'), IsText(i)'
               PROVE  /\ file'[i].event <= event[file'[i].run]
                      /\ file'[i].event < event[file'[i].run] => Ended(i)'
                      /\ file'[i].event = event[file'[i].run] =>
                            pc'[file'[i].run] \in {"written", "failed", "killed"}
    BY DEF TextInv, IsText, Ended
  <2>1. CASE i = n + 1
    <3>1. event[r] \in Nat
      BY DEF IInv, TypeOK
    <3> QED
      BY <1>1, <1>2, <1>5, <2>1, <3>1
  <2>2. CASE i \in 1..n
    <3>1. IsText(i) /\ file'[i] = file[i] /\ file[i].run \in Runs
      BY <1>4, <2>2 DEF IsText
    <3>2. Ended(i) => Ended(i)'
      BY <1>2, <1>3, <2>2, EndedStays DEF n
    <3>3. /\ file[i].event <= event[file[i].run]
          /\ file[i].event < event[file[i].run] => Ended(i)
          /\ file[i].event = event[file[i].run] =>
                pc[file[i].run] \in {"written", "failed", "killed"}
      BY <2>2, <3>1 DEF IInv, TextInv, n
    <3> QED
      BY <1>5, <3>1, <3>2, <3>3
  <2> QED
    BY <1>2, <1>3, <2>1, <2>2
<1>10. ReceiptMeansStored'
  BY <1>2, <1>3, ReceiptsStay DEF IInv
<1>11. OwnLinesApart'
  <2> SUFFICES ASSUME NEW i \in 1..Len(file'), NEW j \in 1..Len(file'), i < j,
                      IsText(i)', IsText(j)', file'[i].run = file'[j].run
               PROVE  file'[i].event < file'[j].event /\ ~SameLine(i, j)'
    BY DEF OwnLinesApart
  <2>1. i \in 1..n /\ file'[i] = file[i] /\ file[i].run \in Runs /\ IsText(i)
    BY <1>2, <1>3, <1>4 DEF IsText
  <2>2. CASE j \in 1..n
    <3>1. file'[j] = file[j] /\ IsText(j)
      BY <1>4, <2>2 DEF IsText
    <3>2. file[i].event < file[j].event /\ ~SameLine(i, j)
      BY <2>1, <2>2, <3>1 DEF IInv, OwnLinesApart, n
    <3>3. PICK k \in i..j : file[k].part = "newline"
      BY <3>2 DEF SameLine
    <3>4. file'[k] = file[k]
      BY <1>3, <1>4, <2>1, <2>2
    <3> QED
      BY <2>1, <3>1, <3>2, <3>3, <3>4 DEF SameLine
  <2>3. CASE j = n + 1
    <3>1. file[i].run = r /\ file'[j].event = event[r]
      BY <1>1, <1>2, <2>1, <2>3
    <3>2. file[i].event < event[r] /\ Ended(i)
      <4>1. /\ file[i].event <= event[r]
            /\ file[i].event < event[r] => Ended(i)
            /\ file[i].event # event[r]
        BY <2>1, <3>1 DEF IInv, TextInv, n
      <4>2. file[i].event \in Nat /\ event[r] \in Nat
        BY <1>3, <2>1, PieceParts DEF IInv, TypeOK, n
      <4> QED
        BY <4>1, <4>2
    <3>3. PICK k \in i..n : file[k].part = "newline"
      BY <3>2 DEF Ended, n
    <3>4. file'[k] = file[k] /\ k \in i..j
      BY <1>3, <1>4, <2>1, <2>3
    <3> QED
      BY <2>1, <3>1, <3>2, <3>3, <3>4 DEF SameLine
  <2> QED
    BY <1>2, <1>3, <2>2, <2>3
<1> QED
  BY <1>6, <1>7, <1>8, <1>9, <1>10, <1>11 DEF IInv

(* The newline: it ends the text before it, and the receipt is earned.     *)
LEMMA NewlineStep ==
    ASSUME IInv, NEW r \in Runs, WriteNewline(r)
    PROVE  IInv'
<1> DEFINE x == Piece(r, "newline")
           n == Len(file)
<1>1. /\ pc[r] = "written" /\ file' = Append(file, x)
      /\ UNCHANGED <<sink, now, table, result>>
  BY DEF WriteNewline, given, store
<1>2. event[r] \in 1..MaxEvents /\ receipts[r] = event[r] - 1
  BY <1>1, EventsAssumption DEF IInv, TypeOK, ReceiptInv
<1>3. /\ x \in Pieces /\ x.part = "newline"
      /\ x = [run |-> r, event |-> event[r], part |-> "newline"]
  BY <1>2 DEF Piece, Pieces
<1>4. file' \in Seq(Pieces) /\ Len(file') = n + 1 /\ file'[n + 1] = x /\ Grows
  BY <1>1, <1>3, AppendGrows DEF IInv
<1>5. file \in Seq(Pieces) /\ n \in Nat
  BY DEF IInv, TypeOK
<1>6. \A i \in 1..n : file'[i] = file[i] /\ file[i].run \in Runs /\ file[i].event \in Nat
  BY <1>4, <1>5, PieceParts DEF Grows
<1>7. pc' \in [Runs -> Stages] /\ pc'[r] = "ready" /\ \A q \in Runs \ {r} : pc'[q] = pc[q]
  BY DEF WriteNewline, Goto, IInv, TypeOK, Stages
<1>8. /\ event' \in [Runs -> 1..(MaxEvents + 1)] /\ event'[r] = event[r] + 1
      /\ \A q \in Runs \ {r} : event'[q] = event[q]
  BY <1>2, EventsAssumption DEF WriteNewline, IInv, TypeOK
<1>9. /\ receipts' \in [Runs -> 0..MaxEvents] /\ receipts'[r] = receipts[r] + 1
      /\ \A q \in Runs \ {r} : receipts'[q] = receipts[q]
  BY <1>2, EventsAssumption DEF WriteNewline, IInv, TypeOK
<1> HIDE DEF x, n
<1>10. TypeOK' /\ StoreInv' /\ OldestFirst'
  BY <1>1, <1>4, <1>7, <1>8, <1>9 DEF IInv, TypeOK, StoreInv, OldestFirst
<1>11. ReceiptInv'
  BY <1>2, <1>7, <1>8, <1>9 DEF IInv, ReceiptInv
<1>12. StageInv'
  <2> SUFFICES ASSUME NEW q \in Runs \ {r}
               PROVE  /\ pc[q] = "written" =>
                             \E i \in 1..Len(file') : Holds(i, q, event[q], "json")'
                      /\ pc[q] = "committed" => Row(q) \in table
    BY <1>1, <1>7, <1>8 DEF StageInv, Row, Holds
  <2>1. ASSUME pc[q] = "written"
        PROVE  \E i \in 1..Len(file') : Holds(i, q, event[q], "json")'
    <3>1. PICK i \in 1..n : Holds(i, q, event[q], "json")
      BY <2>1 DEF IInv, StageInv, n
    <3>2. i \in 1..Len(file') /\ file'[i] = file[i] /\ event'[q] = event[q]
      BY <1>4, <1>5, <1>6, <1>8
    <3> QED
      BY <3>1, <3>2 DEF Holds
  <2> QED
    BY <2>1 DEF IInv, StageInv
<1>13. TextInv'
  <2> SUFFICES ASSUME NEW i \in 1..Len(file'), IsText(i)'
               PROVE  /\ file'[i].event <= event'[file'[i].run]
                      /\ file'[i].event < event'[file'[i].run] => Ended(i)'
                      /\ file'[i].event = event'[file'[i].run] =>
                            pc'[file'[i].run] \in {"written", "failed", "killed"}
    BY DEF TextInv
  <2>1. i \in 1..n /\ file'[i] = file[i] /\ IsText(i)
    BY <1>3, <1>4, <1>5, <1>6 DEF IsText
  <2>2. Ended(i)'
    <3>1. n + 1 \in i..Len(file')
      BY <1>4, <1>5, <2>1
    <3> QED
      BY <1>3, <1>4, <3>1 DEF Ended
  <2>3. /\ file[i].event <= event[file[i].run]
        /\ file[i].event = event[file[i].run] =>
              pc[file[i].run] \in {"written", "failed", "killed"}
    BY <2>1 DEF IInv, TextInv, n
  <2>4. file[i].run \in Runs /\ file[i].event \in Nat /\ event[file[i].run] \in Nat
    BY <1>6, <2>1 DEF IInv, TypeOK
  <2> QED
    BY <1>7, <1>8, <2>1, <2>2, <2>3, <2>4
<1>14. ReceiptMeansStored'
  <2> SUFFICES ASSUME NEW q \in Runs, NEW e \in 1..receipts'[q]
               PROVE  Stored(q, e)'
    BY DEF ReceiptMeansStored, Stored, Holds
  <2>1. CASE q = r /\ e = event[r]
    <3>1. PICK i \in 1..n : Holds(i, r, event[r], "json")
      BY <1>1 DEF IInv, StageInv, n
    <3>2. /\ i \in 1..Len(file') /\ n + 1 \in 1..Len(file') /\ i < n + 1
          /\ file'[i] = file[i]
      BY <1>4, <1>5, <1>6
    <3> QED
      BY <1>3, <1>4, <2>1, <3>1, <3>2 DEF Stored, Holds
  <2>2. CASE ~(q = r /\ e = event[r])
    <3>1. e \in 1..receipts[q]
      BY <1>2, <1>9, <2>2 DEF IInv, TypeOK
    <3>2. Stored(q, e)
      BY <3>1 DEF IInv, ReceiptMeansStored, Stored
    <3> QED
      BY <1>1, <1>4, <1>5, <3>2, StoredStays
  <2> QED
    BY <2>1, <2>2
<1>15. OwnLinesApart'
  <2> SUFFICES ASSUME NEW i \in 1..Len(file'), NEW j \in 1..Len(file'), i < j,
                      IsText(i)', IsText(j)', file'[i].run = file'[j].run
               PROVE  file'[i].event < file'[j].event /\ ~SameLine(i, j)'
    BY DEF OwnLinesApart
  <2>1. /\ i \in 1..n /\ file'[i] = file[i] /\ IsText(i)
        /\ j \in 1..n /\ file'[j] = file[j] /\ IsText(j)
    <3>1. \A k \in 1..Len(file') : IsText(k)' => k \in 1..n
      BY <1>3, <1>4, <1>5 DEF IsText
    <3> QED
      BY <1>6, <3>1 DEF IsText
  <2>2. file[i].event < file[j].event /\ ~SameLine(i, j)
    BY <2>1 DEF IInv, OwnLinesApart, n
  <2>3. PICK k \in i..j : file[k].part = "newline"
    BY <2>2 DEF SameLine
  <2>4. file'[k] = file[k]
    BY <1>5, <1>6, <2>1
  <2> QED
    BY <2>1, <2>2, <2>3, <2>4 DEF SameLine
<1> QED
  BY <1>10, <1>11, <1>12, <1>13, <1>14, <1>15 DEF IInv

(* The store's receipt is given for a row that is in the table.            *)
LEMMA ReturnReceiptStep ==
    ASSUME IInv, NEW r \in Runs, ReturnReceipt(r)
    PROVE  IInv'
<1>1. pc[r] = "committed" /\ UNCHANGED <<file, sink, now, table, result>>
  BY DEF ReturnReceipt, given, store
<1>2. event[r] \in 1..MaxEvents /\ receipts[r] = event[r] - 1
  BY <1>1, EventsAssumption DEF IInv, TypeOK, ReceiptInv
<1>3. pc' \in [Runs -> Stages] /\ pc'[r] = "ready" /\ \A q \in Runs \ {r} : pc'[q] = pc[q]
  BY DEF ReturnReceipt, Goto, IInv, TypeOK, Stages
<1>4. /\ event' \in [Runs -> 1..(MaxEvents + 1)] /\ event'[r] = event[r] + 1
      /\ \A q \in Runs \ {r} : event'[q] = event[q]
  BY <1>2, EventsAssumption DEF ReturnReceipt, IInv, TypeOK
<1>5. /\ receipts' \in [Runs -> 0..MaxEvents] /\ receipts'[r] = receipts[r] + 1
      /\ \A q \in Runs \ {r} : receipts'[q] = receipts[q]
  BY <1>2, EventsAssumption DEF ReturnReceipt, IInv, TypeOK
<1>6. TypeOK' /\ StoreInv'
  BY <1>1, <1>3, <1>4, <1>5 DEF IInv, TypeOK, StoreInv
<1>7. ReceiptInv'
  BY <1>2, <1>3, <1>4, <1>5 DEF IInv, ReceiptInv
<1>8. StageInv'
  BY <1>1, <1>3, <1>4 DEF IInv, StageInv, Row, Holds
<1>9. TextInv'
  <2> SUFFICES ASSUME NEW i \in 1..Len(file), IsText(i)
               PROVE  /\ file[i].event <= event'[file[i].run]
                      /\ file[i].event < event'[file[i].run] => Ended(i)
                      /\ file[i].event = event'[file[i].run] =>
                            pc'[file[i].run] \in {"written", "failed", "killed"}
    BY <1>1 DEF TextInv, IsText, Ended
  <2>1. file[i].run \in Runs /\ file[i].event \in Nat /\ event[file[i].run] \in Nat
    BY PieceParts DEF IInv, TypeOK
  <2>2. /\ file[i].event <= event[file[i].run]
        /\ file[i].event < event[file[i].run] => Ended(i)
        /\ file[i].event = event[file[i].run] =>
              pc[file[i].run] \in {"written", "failed", "killed"}
    BY DEF IInv, TextInv
  <2> QED
    BY <1>1, <1>3, <1>4, <2>1, <2>2
<1>10. ReceiptMeansStored'
  <2> SUFFICES ASSUME NEW q \in Runs, NEW e \in 1..receipts'[q]
               PROVE  Stored(q, e)
    BY <1>1 DEF ReceiptMeansStored, Stored, Holds
  <2>1. CASE q = r /\ e = event[r]
    BY <1>1, <2>1 DEF IInv, StageInv, Row, Stored
  <2>2. CASE ~(q = r /\ e = event[r])
    <3>1. e \in 1..receipts[q]
      BY <1>2, <1>5, <2>2 DEF IInv, TypeOK
    <3> QED
      BY <3>1 DEF IInv, ReceiptMeansStored, Stored
  <2> QED
    BY <2>1, <2>2
<1>11. OwnLinesApart'
  BY <1>1 DEF IInv, OwnLinesApart, IsText, SameLine
<1>12. OldestFirst'
  BY <1>1 DEF IInv, OldestFirst
<1> QED
  BY <1>6, <1>7, <1>8, <1>9, <1>10, <1>11, <1>12 DEF IInv

(* The steps of a run, sorted by what they write.                          *)
LEMMA RunStep ==
    ASSUME IInv, NEW r \in Runs,
           \/ OpenSink(r) \/ WriteJson(r) \/ WriteNewline(r) \/ BeginInsert(r)
           \/ CommitInsert(r) \/ ReturnReceipt(r) \/ ExportFails(r) \/ ReturnRun(r)
           \/ KillRun(r)
    PROVE  IInv'
<1> USE DEF given, store
<1>1. TypeOK /\ IsFiniteSet(table)
  BY DEF IInv, StoreInv
<1>2. ASSUME NEW stage \in Stages, Goto(r, stage)
      PROVE  /\ pc' \in [Runs -> Stages] /\ pc'[r] = stage
             /\ \A q \in Runs : q # r => pc'[q] = pc[q]
  BY <1>1, <1>2 DEF Goto, TypeOK
<1>3. CASE OpenSink(r)
  <2>1. Quiet
    BY <1>1, <1>2, <1>3 DEF OpenSink, Quiet, TypeOK, Stages
  <2> QED
    BY <2>1, QuietStep
<1>4. CASE BeginInsert(r)
  <2>1. Quiet
    BY <1>1, <1>2, <1>4 DEF BeginInsert, Quiet, TypeOK, Stages
  <2> QED
    BY <2>1, QuietStep
<1>5. CASE ReturnRun(r)
  <2>1. Quiet
    BY <1>1, <1>2, <1>5 DEF ReturnRun, Quiet, TypeOK, Stages
  <2> QED
    BY <2>1, QuietStep
<1>6. CASE CommitInsert(r)
  <2>1. event[r] \in 1..MaxEvents
    BY <1>6, EventsAssumption DEF CommitInsert, IInv, TypeOK, ReceiptInv
  <2>2. Row(r) \in Rows /\ table' = table \union {Row(r)}
    BY <1>6, <2>1 DEF CommitInsert, Row, Rows
  <2>3. IsFiniteSet(table')
    BY <1>1, <2>2, FS_AddElement
  <2>4. Quiet
    BY <1>1, <1>2, <1>6, <2>2, <2>3 DEF CommitInsert, Quiet, TypeOK, Stages
  <2> QED
    BY <2>4, QuietStep
<1>7. CASE WriteJson(r)
  BY <1>7, TextStep DEF WriteJson
<1>8. CASE WriteNewline(r)
  BY <1>8, NewlineStep
<1>9. CASE ReturnReceipt(r)
  BY <1>9, ReturnReceiptStep
<1>10. CASE ExportFails(r) /\ UNCHANGED file
  <2>1. Quiet
    BY <1>1, <1>2, <1>10 DEF ExportFails, AfterFailure, Quiet, TypeOK, Stages
  <2> QED
    BY <2>1, QuietStep
<1>11. CASE ExportFails(r) /\ ~UNCHANGED file
  BY <1>11, TextStep DEF ExportFails, AfterFailure
<1>12. CASE KillRun(r) /\ UNCHANGED file
  <2>1. Quiet
    BY <1>1, <1>2, <1>12 DEF KillRun, Quiet, TypeOK, Stages
  <2> QED
    BY <2>1, QuietStep
<1>13. CASE KillRun(r) /\ ~UNCHANGED file
  BY <1>13, TextStep DEF KillRun
<1> QED
  BY <1>3, <1>4, <1>5, <1>6, <1>7, <1>8, <1>9, <1>10, <1>11, <1>12, <1>13

(* The invariant holds for good.                                           *)
THEOREM Invariance == Spec => []IInv
<1>1. Init => IInv
  BY InitInv
<1>2. IInv /\ [Next]_vars => IInv'
  <2> SUFFICES ASSUME IInv, [Next]_vars
               PROVE  IInv'
    OBVIOUS
  <2>1. CASE UNCHANGED vars
    <3>1. Quiet
      BY <2>1 DEF vars, Quiet, IInv, TypeOK, StoreInv
    <3> QED
      BY <3>1, QuietStep
  <2> QED
    BY <2>1, QueryStep, RunStep DEF Next
<1> QED
  BY <1>1, <1>2, PTL DEF Spec

-----------------------------------------------------------------------------
(* The properties.                                                         *)

(* However many processes share the file and the store, and whichever of   *)
(* them are killed, an Exported receipt means that the event is stored     *)
(* (export_event of the JSONL sink, insert of the SQLite store).           *)
THEOREM ReceiptsMeanStored == Spec => []ReceiptMeansStored
<1>1. IInv => ReceiptMeansStored
  BY DEF IInv
<1> QED
  BY <1>1, Invariance, PTL

(* No process glues two of its own texts together (map_export_result).     *)
THEOREM OwnLinesStayApart == Spec => []OwnLinesApart
<1>1. IInv => OwnLinesApart
  BY DEF IInv
<1> QED
  BY <1>1, Invariance, PTL

(* A query that orders texts returns the oldest events first, whatever the *)
(* instants at which their runs started (to_rfc3339, query_where).         *)
THEOREM OldestComeFirst == Spec => []OldestFirst
<1>1. IInv => OldestFirst
  BY DEF IInv
<1> QED
  BY <1>1, Invariance, PTL
=============================================================================
