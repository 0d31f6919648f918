---------------------------- MODULE DbFile_proofs ----------------------------
(* Theorems about DbFile, for every set of requests, of files and of bits.  *)
EXTENDS DbFile, TLAPS

LEMMA FileLength ==
  ASSUME NEW S, NEW n \in Nat, NEW f \in [1 .. n -> S]
  PROVE  f \in Seq(S) /\ Len(f) = n
OBVIOUS

LEMMA ImageFacts ==
  ASSUME file \in Images
  PROVE  /\ Sizes = Size
         /\ file \in [DBs -> UNION {[1 .. Size[d] -> Byte] : d \in DBs}]
         /\ \A d \in DBs : /\ Size[d] \in Nat
                           /\ file[d] \in [1 .. Size[d] -> Byte]
                           /\ Len(file[d]) = Size[d]
<1>1. \A d \in DBs : Size[d] \in Nat /\ file[d] \in [1 .. Size[d] -> Byte]
  BY RequestAssumption DEF Images
<1>2. \A d \in DBs : Len(file[d]) = Size[d]
  BY <1>1, FileLength
<1>3. Sizes = Size
  BY <1>2, RequestAssumption DEF Sizes
<1> QED
  BY <1>1, <1>2, <1>3 DEF Images

(* The items of the two kinds of request. *)
LEMMA RequestFacts ==
  /\ \A h \in Writers : Items(h) \in Seq(WriteItem) /\ h \in Handlers
  /\ \A h \in Readers : Items(h) \in Seq(ReadItem) /\ h \in Handlers
  /\ \A h \in Handlers : Len(Items(h)) \in Nat
  /\ Writers \cap Readers = {}
<1>1. ASSUME NEW h \in Handlers
      PROVE  /\ h \in Writers => Items(h) \in Seq(WriteItem)
             /\ h \in Readers => Items(h) \in Seq(ReadItem)
             /\ Len(Items(h)) \in Nat
  <2>1. CASE Request[h] \in [func : {"write"}, items : Seq(WriteItem)]
    BY <2>1 DEF Writers, Readers, Items
  <2>2. CASE Request[h] \in [func : {"read"}, items : Seq(ReadItem)]
    BY <2>2 DEF Writers, Readers, Items
  <2> QED
    BY <2>1, <2>2, RequestAssumption
<1> QED
  BY <1>1 DEF Writers, Readers

LEMMA HandlerFacts ==
  /\ \A h \in Writers : h \in Handlers /\ h \notin Readers
  /\ \A h \in Readers : h \in Handlers /\ h \notin Writers
BY DEF Writers, Readers

LEMMA ItemFacts ==
  ASSUME NEW h \in Writers, NEW j \in 1 .. Len(Items(h)),
         NEW it, it = Items(h)[j]
  PROVE  /\ it \in WriteItem
         /\ it.off \in Nat
         /\ it.data \in Seq(Byte)
         /\ it.bit \in BOOLEAN
         /\ it.at \in Bit
         /\ Len(it.data) \in Nat
         /\ Extent(it) \in Nat
<1>1. it \in WriteItem
  BY RequestFacts
<1>2. it.off \in Nat /\ it.data \in Seq(Byte) /\ it.bit \in BOOLEAN /\ it.at \in Bit
  BY <1>1 DEF WriteItem
<1>3. Len(it.data) \in Nat
  BY <1>2
<1> QED
  BY <1>1, <1>2, <1>3 DEF Extent

(* What makes the code of an item Success. *)
LEMMA AcceptedFacts ==
  ASSUME NEW it, WriteCode(it, Size) = "Success"
  PROVE  /\ it.db \in DBs
         /\ it.bit => it.data # <<>>
         /\ ~OutOfRange(it, Size[it.db])
<1>1. CASE ~it.area
  BY <1>1 DEF WriteCode
<1>2. CASE it.area /\ (it.db \notin DBs \/ (it.bit /\ it.data = <<>>))
  BY <1>2 DEF WriteCode
<1>3. CASE it.area /\ ~(it.db \notin DBs \/ (it.bit /\ it.data = <<>>))
  <2>1. WriteCode(it, Size) =
          IF OutOfRange(it, Size[it.db]) THEN "InvalidAddress" ELSE "Success"
    BY <1>3 DEF WriteCode
  <2> QED
    BY <1>3, <2>1
<1> QED
  BY <1>1, <1>2, <1>3

(* WriteAt inside the file keeps its length and replaces just those bytes. *)
LEMMA WriteAtFacts ==
  ASSUME NEW n \in Nat, NEW f \in [1 .. n -> Byte], NEW off \in Nat,
         NEW data \in Seq(Byte), off + Len(data) <= n
  PROVE  /\ WriteAt(f, off, data) \in [1 .. n -> Byte]
         /\ \A i \in 1 .. n :
              WriteAt(f, off, data)[i] =
                IF i \in (off + 1) .. (off + Len(data)) THEN data[i - off] ELSE f[i]
<1> DEFINE last == off + Len(data)
<1>1. Len(f) = n
  BY FileLength
<1>2. Len(data) \in Nat
  OBVIOUS
<1>3. (IF last > Len(f) THEN last ELSE Len(f)) = n
  BY <1>1, <1>2
<1>4. WriteAt(f, off, data) =
        [i \in 1 .. n |-> IF i > off /\ i <= last THEN data[i - off]
                          ELSE IF i <= n THEN f[i] ELSE {}]
  BY <1>1, <1>3, Zenon DEF WriteAt
<1>5. \A i \in 1 .. n :
        WriteAt(f, off, data)[i] =
          IF i \in (off + 1) .. (off + Len(data)) THEN data[i - off] ELSE f[i]
  BY <1>2, <1>4
<1>6. \A i \in 1 .. n : i \in (off + 1) .. (off + Len(data)) => data[i - off] \in Byte
  BY <1>2
<1>7. \A i \in 1 .. n : f[i] \in Byte
  OBVIOUS
<1>8. \A i \in 1 .. n : WriteAt(f, off, data)[i] \in Byte
  BY <1>5, <1>6, <1>7
<1> QED
  BY <1>4, <1>5, <1>8

(* The data a Commit writes. *)
Payload(h) == IF Item(h).bit THEN << SetBit(cur[h], Item(h)) >> ELSE Item(h).data

(* A handler between Prepare and Commit holds an item that is accepted. *)
WritesAccepted ==
  \A h \in Handlers : pc[h] = "write" => Accepted(h, handled[h] + 1)

IInv == TypeOK /\ WritesAccepted

(* A Commit changes the bytes its item covers, and no other. *)
LEMMA CommitFacts ==
  ASSUME IInv, NEW h \in Handlers, Commit(h)
  PROVE  LET it == Item(h)
         IN  /\ h \in Writers
             /\ handled[h] + 1 \in 1 .. Len(Items(h))
             /\ it.db \in DBs
             /\ it.bit => it.data # <<>>
             /\ Covers(it) \subseteq 1 .. Size[it.db]
             /\ Payload(h) \in Seq(Byte)
             /\ file' \in Images
             /\ \A d \in DBs : d # it.db => file'[d] = file[d]
             /\ \A i \in 1 .. Size[it.db] :
                  file'[it.db][i] =
                    IF i \in Covers(it) THEN Payload(h)[i - it.off] ELSE file[it.db][i]
<1> DEFINE it == Item(h)
           n == Size[it.db]
<1>1. h \in Writers /\ handled[h] \in Nat /\ handled[h] < Len(Items(h))
  BY DEF IInv, TypeOK, Commit
<1>2. handled[h] + 1 \in 1 .. Len(Items(h))
  BY <1>1, RequestFacts
<1>3. /\ it.off \in Nat
      /\ it.data \in Seq(Byte)
      /\ it.bit \in BOOLEAN
      /\ it.at \in Bit
      /\ Len(it.data) \in Nat
  BY <1>1, <1>2, ItemFacts DEF Item
<1>4. WriteCode(it, Size) = "Success"
  BY DEF IInv, WritesAccepted, Accepted, Commit, Item
<1>5. it.db \in DBs /\ (it.bit => it.data # <<>>) /\ ~OutOfRange(it, n)
  BY <1>4, AcceptedFacts
<1>6. n \in Nat /\ file[it.db] \in [1 .. n -> Byte] /\ file \in Images
  BY <1>5, ImageFacts DEF IInv, TypeOK
<1>7. cur[h] \in Byte
  BY DEF IInv, TypeOK
<1>8. Payload(h) \in Seq(Byte) /\ Len(Payload(h)) = Extent(it)
  <2>1. CASE it.bit
    <3>1. SetBit(cur[h], it) \in Byte
      BY <1>3, <1>7 DEF SetBit, Byte
    <3> QED
      BY <2>1, <3>1 DEF Payload, Extent
  <2>2. CASE ~it.bit
    BY <2>2, <1>3 DEF Payload, Extent
  <2> QED
    BY <2>1, <2>2
<1>9. it.off + Len(Payload(h)) <= n
  <2>1. it.off + Extent(it) <= n
    BY <1>3, <1>5, <1>6, <1>8 DEF OutOfRange, Extent
  <2> QED
    BY <2>1, <1>8
<1>10. file' = [file EXCEPT ![it.db] = WriteAt(@, it.off, Payload(h))]
  BY DEF Commit, Payload
<1> DEFINE new == WriteAt(file[it.db], it.off, Payload(h))
<1>11. /\ new \in [1 .. n -> Byte]
       /\ \A i \in 1 .. n :
            new[i] = IF i \in Covers(it) THEN Payload(h)[i - it.off] ELSE file[it.db][i]
  <2> DEFINE data == Payload(h)
  <2>1. data \in Seq(Byte) /\ it.off + Len(data) <= n
    BY <1>8, <1>9
  <2>2. Covers(it) = (it.off + 1) .. (it.off + Len(data))
    BY <1>8 DEF Covers
  <2>3. /\ new = WriteAt(file[it.db], it.off, data)
        /\ it.off \in Nat
        /\ n \in Nat
        /\ file[it.db] \in [1 .. n -> Byte]
    BY <1>3, <1>6
  <2> DEFINE f == file[it.db]
             off == it.off
  <2>4. /\ new = WriteAt(f, off, data)
        /\ off \in Nat /\ n \in Nat
        /\ f \in [1 .. n -> Byte]
        /\ data \in Seq(Byte) /\ off + Len(data) <= n
    BY <2>1, <2>3
  <2> HIDE DEF it, n, data, new, f, off
  <2>5. /\ new \in [1 .. n -> Byte]
        /\ \A i \in 1 .. n :
             new[i] = IF i \in (off + 1) .. (off + Len(data))
                      THEN data[i - off] ELSE f[i]
    BY <2>4, WriteAtFacts
  <2>6. QED
    BY <2>2, <2>5 DEF data, f, off
<1> HIDE DEF new
<1>12. file' = [file EXCEPT ![it.db] = new]
  BY <1>10 DEF new
<1>13. file'[it.db] = new /\ \A d \in DBs : d # it.db => file'[d] = file[d]
  BY <1>5, <1>6, <1>12 DEF Images
<1>14. file' \in Images
  <2>1. \A d \in DBs : file'[d] \in [1 .. Size[d] -> Byte]
    BY <1>6, <1>11, <1>13, ImageFacts
  <2>2. file' = [d \in DBs |-> file'[d]]
    BY <1>6, <1>12 DEF Images
  <2> QED
    BY <2>1, <2>2 DEF Images
<1>15. Covers(it) \subseteq 1 .. n
  BY <1>3, <1>6, <1>8, <1>9 DEF Covers
<1> QED
  BY <1>1, <1>2, <1>5, <1>8, <1>11, <1>13, <1>14, <1>15

LEMMA InitInv == Init => IInv
<1> SUFFICES ASSUME Init PROVE IInv
  OBVIOUS
<1>1. \A h \in Handlers : 0 <= Len(Items(h))
  <2>1. \A h \in Handlers : Len(Items(h)) \in Nat
    BY RequestFacts
  <2>2. \A n \in Nat : 0 <= n
    OBVIOUS
  <2> QED
    BY <2>1, <2>2
<1> QED
  BY <1>1 DEF Init, IInv, TypeOK, WritesAccepted, Byte

LEMMA NextInv == IInv /\ [Next]_vars => IInv'
<1> SUFFICES ASSUME IInv, [Next]_vars PROVE IInv'
  OBVIOUS
<1> USE DEF IInv
<1>1. ASSUME NEW h \in Handlers, Arrive(h)
      PROVE  IInv'
  <2>1. before' \in [Handlers -> SUBSET Writers]
    BY <1>1 DEF Arrive, TypeOK
  <2>2. pc' \in [Handlers -> {"unsent", "next", "write", "replied"}]
    BY <1>1 DEF Arrive, TypeOK
  <2>3. \A g \in Handlers : pc'[g] = "write" => pc[g] = "write"
    BY <1>1 DEF Arrive, TypeOK
  <2> QED
    BY <1>1, <2>1, <2>2, <2>3 DEF Arrive, TypeOK, WritesAccepted, Accepted
<1>2. ASSUME NEW h \in Handlers, Refuse(h) \/ GetItem(h)
      PROVE  IInv'
  <2>1. /\ handled' = [handled EXCEPT ![h] = @ + 1]
        /\ handled[h] < Len(Items(h)) /\ pc[h] = "next"
        /\ UNCHANGED <<up, file, pc, cur, before>>
    BY <1>2 DEF Refuse, GetItem, Answer, ItemLeft
  <2>2. \A g \in Handlers : g # h => handled'[g] = handled[g]
    BY <2>1
  <2>3. handled' \in [Handlers -> Nat] /\ \A g \in Handlers : handled'[g] <= Len(Items(g))
    BY <2>1, RequestFacts DEF TypeOK
  <2>4. \A g \in Handlers : pc'[g] = "write" => g # h
    BY <2>1
  <2>5. WritesAccepted'
    BY <2>1, <2>2, <2>4 DEF WritesAccepted, Accepted
  <2> QED
    BY <2>1, <2>2, <2>3, <2>4, <2>5 DEF TypeOK
<1>3. ASSUME NEW h \in Handlers, Prepare(h)
      PROVE  IInv'
  <2>1. /\ h \in Writers /\ handled[h] < Len(Items(h))
        /\ handled[h] \in Nat
        /\ WriteCode(Item(h), Sizes) = "Success"
        /\ pc' = [pc EXCEPT ![h] = "write"]
        /\ UNCHANGED <<up, file, handled, results, before>>
    BY <1>3 DEF Prepare, ItemLeft, TypeOK
  <2>2. WriteCode(Item(h), Size) = "Success"
    BY <2>1, ImageFacts DEF TypeOK
  <2>3. Accepted(h, handled[h] + 1)
    BY <2>2 DEF Accepted, Item
  <2>4. WritesAccepted'
    BY <2>1, <2>3 DEF WritesAccepted, Accepted, TypeOK
  <2>5. (IF Item(h).bit THEN file[Item(h).db][Item(h).off + 1] ELSE {}) \in Byte
    <3> DEFINE it == Item(h)
    <3>1. handled[h] + 1 \in 1 .. Len(Items(h))
      BY <2>1, RequestFacts
    <3>2. it.off \in Nat
      BY <2>1, <3>1, ItemFacts DEF Item
    <3>3. it.db \in DBs /\ ~OutOfRange(it, Size[it.db])
      BY <2>2, AcceptedFacts
    <3>4. Size[it.db] \in Nat /\ file[it.db] \in [1 .. Size[it.db] -> Byte]
      BY <3>3, ImageFacts DEF TypeOK
    <3>5. it.bit => it.off + 1 \in 1 .. Size[it.db]
      BY <3>2, <3>3, <3>4 DEF OutOfRange, Extent
    <3>6. {} \in Byte
      BY DEF Byte
    <3> QED
      BY <3>4, <3>5, <3>6
  <2>6. cur' \in [Handlers -> Byte]
    BY <1>3, <2>5 DEF Prepare, TypeOK
  <2> QED
    BY <2>1, <2>4, <2>6 DEF TypeOK
<1>4. ASSUME NEW h \in Handlers, Commit(h)
      PROVE  IInv'
  <2>1. /\ handled' = [handled EXCEPT ![h] = @ + 1]
        /\ pc' = [pc EXCEPT ![h] = "next"]
        /\ UNCHANGED <<up, cur, before>>
    BY <1>4 DEF Commit, Answer
  <2>2. file' \in Images /\ handled[h] + 1 \in 1 .. Len(Items(h))
    BY <1>4, CommitFacts
  <2>3. handled' \in [Handlers -> Nat] /\ \A g \in Handlers : handled'[g] <= Len(Items(g))
    BY <2>1, <2>2, RequestFacts DEF TypeOK
  <2>4. \A g \in Handlers : pc'[g] = "write" => g # h /\ pc[g] = "write" /\ handled'[g] = handled[g]
    BY <2>1 DEF TypeOK
  <2>5. WritesAccepted'
    BY <2>4 DEF WritesAccepted, Accepted
  <2> QED
    BY <2>1, <2>2, <2>3, <2>4, <2>5 DEF TypeOK
<1>5. ASSUME NEW h \in Handlers, Panic(h)
      PROVE  IInv'
  BY <1>5 DEF Panic, TypeOK, WritesAccepted, Accepted
<1>6. ASSUME NEW h \in Handlers, Reply(h)
      PROVE  IInv'
  <2>1. \A g \in Handlers : pc'[g] = "write" => pc[g] = "write"
    BY <1>6 DEF Reply, TypeOK
  <2> QED
    BY <1>6, <2>1 DEF Reply, TypeOK, WritesAccepted, Accepted
<1>7. CASE UNCHANGED vars
  BY <1>7 DEF vars, TypeOK, WritesAccepted, Accepted
<1> QED
  BY <1>1, <1>2, <1>3, <1>4, <1>5, <1>6, <1>7 DEF Next, Work

(* Types are kept, and every file keeps its size.                          *)
THEOREM TypeCorrect == Spec => []TypeOK
<1>1. IInv => TypeOK
  BY DEF IInv
<1> QED
  BY InitInv, NextInv, <1>1, PTL DEF Spec

-----------------------------------------------------------------------------
Codes == {"Success", "ObjectNotAvailable", "HardwareFault", "InvalidAddress"}

(* A WriteVar has one code per item it is done with, and Success only for   *)
(* an item that is accepted.  A ReadVar has no result before its first item. *)
WriterResults(h) ==
  /\ results[h] \in Seq(Codes)
  /\ Len(results[h]) = handled[h]
  /\ \A j \in 1 .. handled[h] : results[h][j] = "Success" => Accepted(h, j)

ResultsInv ==
  /\ results = [h \in Handlers |-> results[h]]
  /\ \A h \in Writers : WriterResults(h)
  /\ \A h \in Readers : handled[h] = 0 => results[h] = <<>>

LEMMA CodeType ==
  ASSUME NEW it, NEW n
  PROVE  WriteCode(it, n) \in Codes
<1>1. CASE ~it.area
  BY <1>1 DEF WriteCode, Codes
<1>2. CASE it.area /\ (it.db \notin DBs \/ (it.bit /\ it.data = <<>>))
  BY <1>2 DEF WriteCode, Codes
<1>3. CASE it.area /\ ~(it.db \notin DBs \/ (it.bit /\ it.data = <<>>))
  <2>1. WriteCode(it, n) =
          IF OutOfRange(it, n[it.db]) THEN "InvalidAddress" ELSE "Success"
    BY <1>3 DEF WriteCode
  <2> QED
    BY <2>1 DEF Codes
<1> QED
  BY <1>1, <1>2, <1>3

(* What appending the code of a WriteVar's item does to the results. *)
LEMMA AnswerFacts ==
  ASSUME IInv, ResultsInv, NEW h \in Writers, NEW c \in Codes, Answer(h, << c >>)
  PROVE  /\ results' = [g \in Handlers |-> results'[g]]
         /\ \A g \in Handlers : g # h => results'[g] = results[g] /\ handled'[g] = handled[g]
         /\ handled[h] \in Nat
         /\ handled'[h] = handled[h] + 1
         /\ results'[h] \in Seq(Codes)
         /\ Len(results'[h]) = handled[h] + 1
         /\ \A j \in 1 .. handled[h] : results'[h][j] = results[h][j]
         /\ results'[h][handled[h] + 1] = c
<1>1. h \in Handlers /\ results[h] \in Seq(Codes) /\ Len(results[h]) = handled[h]
  BY HandlerFacts DEF ResultsInv, WriterResults
<1>2. handled[h] \in Nat
  BY <1>1
<1>3. results' = [results EXCEPT ![h] = @ \o << c >>]
  BY DEF Answer
<1>4. results'[h] = results[h] \o << c >>
  BY <1>1, <1>3 DEF ResultsInv
<1>5. results' = [g \in Handlers |-> results'[g]]
  BY <1>3 DEF ResultsInv
<1>6. \A g \in Handlers : g # h => results'[g] = results[g] /\ handled'[g] = handled[g]
  BY <1>3 DEF ResultsInv, Answer, IInv, TypeOK
<1>7. handled'[h] = handled[h] + 1
  BY <1>1 DEF Answer, IInv, TypeOK
<1> DEFINE r == results[h]
<1>8. /\ r \o << c >> \in Seq(Codes)
      /\ Len(r \o << c >>) = Len(r) + 1
      /\ \A j \in 1 .. Len(r) : (r \o << c >>)[j] = r[j]
      /\ (r \o << c >>)[Len(r) + 1] = c
  <2> r \in Seq(Codes)
    BY <1>1
  <2> HIDE DEF r
  <2> QED
    OBVIOUS
<1> QED
  BY <1>1, <1>2, <1>4, <1>5, <1>6, <1>7, <1>8

StoredInv == IInv /\ ResultsInv /\ AckedIsStored

LEMMA StoredInit == Init => StoredInv
<1> SUFFICES ASSUME Init PROVE StoredInv
  OBVIOUS
<1>1. IInv
  BY InitInv
<1>2. \A h \in Handlers : results[h] = <<>> /\ handled[h] = 0
  BY DEF Init
<1>3. \A h \in Writers : results[h] \in Seq(Codes) /\ Len(results[h]) = handled[h]
  <2>1. \A r : r = <<>> => r \in Seq(Codes) /\ Len(r) = 0
    OBVIOUS
  <2> QED
    BY <1>2, <2>1, HandlerFacts
<1>4. ResultsInv
  <2>1. results = [h \in Handlers |-> results[h]]
    BY DEF Init
  <2>2. \A h \in Writers : WriterResults(h)
    <3>1. \A n : n = 0 => 1 .. n = {}
      OBVIOUS
    <3>2. \A h \in Writers : 1 .. handled[h] = {}
      BY <1>2, <3>1, HandlerFacts
    <3> QED
      BY <1>3, <3>2 DEF WriterResults
  <2> QED
    BY <1>2, <2>1, <2>2, HandlerFacts DEF ResultsInv
<1>5. AckedIsStored
  <2>1. ASSUME NEW h \in Writers, NEW j \in DOMAIN Items(h), Stored(h, j)
        PROVE  FALSE
    <3>1. j \in 1 .. Len(Items(h)) /\ Len(Items(h)) \in Nat
      BY RequestFacts
    <3>2. Len(results[h]) = 0
      BY <1>2, <1>3, HandlerFacts
    <3> QED
      BY <2>1, <3>1, <3>2 DEF Stored
  <2> QED
    BY <2>1 DEF AckedIsStored
<1> QED
  BY <1>1, <1>4, <1>5 DEF StoredInv

(* Items answered Success have a file, and all their bytes are in it. *)
LEMMA StoredFacts ==
  ASSUME IInv, ResultsInv, NEW h \in Writers, NEW j \in DOMAIN Items(h), Stored(h, j)
  PROVE  /\ Items(h)[j].db \in DBs
         /\ Covers(Items(h)[j]) \subseteq 1 .. Size[Items(h)[j].db]
<1> DEFINE it == Items(h)[j]
<1>1. j \in 1 .. Len(Items(h)) /\ Len(Items(h)) \in Nat
  BY RequestFacts
<1>2. it.off \in Nat /\ Extent(it) \in Nat
  BY <1>1, ItemFacts
<1>3. Accepted(h, j)
  <2>1. WriterResults(h)
    BY DEF ResultsInv
  <2>2. j \in 1 .. handled[h]
    BY <1>1, <2>1 DEF Stored, WriterResults
  <2> QED
    BY <2>1, <2>2 DEF Stored, WriterResults
<1>4. it.db \in DBs /\ ~OutOfRange(it, Size[it.db])
  BY <1>3, AcceptedFacts DEF Accepted
<1>5. Size[it.db] \in Nat
  BY <1>4, ImageFacts DEF IInv, TypeOK
<1> QED
  BY <1>2, <1>4, <1>5 DEF OutOfRange, Covers

LEMMA RefuseStored ==
  ASSUME StoredInv, NEW h \in Handlers, Refuse(h)
  PROVE  ResultsInv' /\ AckedIsStored'
<1>1. /\ h \in Writers
      /\ \E c \in Codes : c # "Success" /\ Answer(h, << c >>)
      /\ file' = file
  BY CodeType DEF Refuse
<1>2. PICK c \in Codes : c # "Success" /\ Answer(h, << c >>)
  BY <1>1
<1>3. /\ results' = [g \in Handlers |-> results'[g]]
      /\ \A g \in Handlers : g # h => results'[g] = results[g] /\ handled'[g] = handled[g]
      /\ handled[h] \in Nat
      /\ handled'[h] = handled[h] + 1
      /\ results'[h] \in Seq(Codes)
      /\ Len(results'[h]) = handled[h] + 1
      /\ \A j \in 1 .. handled[h] : results'[h][j] = results[h][j]
      /\ results'[h][handled[h] + 1] = c
  BY <1>1, <1>2, AnswerFacts DEF StoredInv
<1>4. \A g \in Writers : \A j \in 1 .. handled'[g] :
        results'[g][j] = "Success" => j \in 1 .. handled[g] /\ results[g][j] = "Success"
  <2>1. ASSUME NEW j \in 1 .. handled'[h], results'[h][j] = "Success"
        PROVE  j \in 1 .. handled[h] /\ results[h][j] = "Success"
    <3>1. j # handled[h] + 1
      BY <1>2, <1>3, <2>1
    <3>2. j \in 1 .. handled[h]
      BY <1>3, <2>1, <3>1
    <3> QED
      BY <1>3, <2>1, <3>2
  <2> QED
    BY <1>3, <2>1, HandlerFacts
<1>5. ResultsInv'
  <2>1. \A g \in Writers : WriterResults(g)'
    BY <1>1, <1>3, <1>4, HandlerFacts DEF ResultsInv, WriterResults, StoredInv, Accepted
  <2>2. \A g \in Readers : handled'[g] = 0 => results'[g] = <<>>
    BY <1>1, <1>3, HandlerFacts DEF ResultsInv, StoredInv
  <2> QED
    BY <1>3, <2>1, <2>2 DEF ResultsInv
<1>6. ASSUME NEW g \in Writers, NEW j \in DOMAIN Items(g), Stored(g, j)'
      PROVE  Stored(g, j)
  <2>1. j \in 1 .. Len(Items(g)) /\ Len(Items(g)) \in Nat
    BY RequestFacts
  <2>2. Len(results'[g]) = handled'[g] /\ Len(results[g]) = handled[g]
    BY <1>5 DEF ResultsInv, WriterResults, StoredInv
  <2> QED
    BY <1>3, <1>4, <1>6, <2>1, <2>2 DEF Stored
<1>7. AckedIsStored'
  BY <1>1, <1>6 DEF AckedIsStored, StoredInv
<1> QED
  BY <1>5, <1>7

LEMMA CommitStored ==
  ASSUME StoredInv, NEW h \in Handlers, Commit(h)
  PROVE  ResultsInv' /\ AckedIsStored'
<1> DEFINE it == Item(h)
           k == handled[h] + 1
<1>1. IInv /\ ResultsInv
  BY DEF StoredInv
<1>2. /\ h \in Writers
      /\ k \in 1 .. Len(Items(h))
      /\ it.db \in DBs
      /\ it.bit => it.data # <<>>
      /\ Covers(it) \subseteq 1 .. Size[it.db]
      /\ \A d \in DBs : d # it.db => file'[d] = file[d]
      /\ \A i \in 1 .. Size[it.db] :
           file'[it.db][i] =
             IF i \in Covers(it) THEN Payload(h)[i - it.off] ELSE file[it.db][i]
  BY <1>1, CommitFacts
<1>3. "Success" \in Codes /\ Answer(h, << "Success" >>) /\ pc[h] = "write"
  BY DEF Codes, Commit
<1>4. /\ results' = [g \in Handlers |-> results'[g]]
      /\ \A g \in Handlers : g # h => results'[g] = results[g] /\ handled'[g] = handled[g]
      /\ handled[h] \in Nat
      /\ handled'[h] = k
      /\ results'[h] \in Seq(Codes)
      /\ Len(results'[h]) = k
      /\ \A j \in 1 .. handled[h] : results'[h][j] = results[h][j]
      /\ results'[h][k] = "Success"
  BY <1>1, <1>2, <1>3, AnswerFacts
<1>5. Accepted(h, k)
  BY <1>1, <1>3 DEF IInv, WritesAccepted
<1>6. ResultsInv'
  <2>1. \A j \in 1 .. handled'[h] : j \in 1 .. handled[h] \/ j = k
    BY <1>4
  <2>2. WriterResults(h)'
    <3>1. \A j \in 1 .. handled[h] : results[h][j] = "Success" => Accepted(h, j)
      BY <1>1, <1>2 DEF ResultsInv, WriterResults
    <3>2. \A j \in 1 .. handled'[h] : results'[h][j] = "Success" => Accepted(h, j)
      BY <1>4, <1>5, <2>1, <3>1
    <3>3. results'[h] \in Seq(Codes) /\ Len(results'[h]) = handled'[h]
      BY <1>4
    <3> QED
      BY <3>2, <3>3 DEF WriterResults, Accepted
  <2>3. \A g \in Writers : WriterResults(g)'
    <3>1. ASSUME NEW g \in Writers, g # h
          PROVE  WriterResults(g)'
      <4>1. results'[g] = results[g] /\ handled'[g] = handled[g]
        BY <1>4, <3>1, HandlerFacts
      <4>2. WriterResults(g)
        BY <1>1 DEF ResultsInv
      <4> QED
        BY <4>1, <4>2 DEF WriterResults, Accepted
    <3> QED
      BY <2>2, <3>1
  <2>4. \A g \in Readers : handled'[g] = 0 => results'[g] = <<>>
    BY <1>1, <1>2, <1>4, HandlerFacts DEF ResultsInv
  <2> QED
    BY <1>4, <2>3, <2>4 DEF ResultsInv
<1>7. ASSUME NEW g \in Writers, NEW j \in DOMAIN Items(g), Stored(g, j)', Alone(g, j),
             NEW i \in Covers(Items(g)[j])
      PROVE  Holds(Items(g)[j], i, file'[Items(g)[j].db][i])
  <2> DEFINE jt == Items(g)[j]
  <2>1. j \in 1 .. Len(Items(g)) /\ Len(Items(g)) \in Nat
    BY RequestFacts
  <2>2. CASE g = h /\ j = k
    <3>1. jt = it
      BY <2>2 DEF Item
    <3>2. file'[it.db][i] = Payload(h)[i - it.off]
      BY <1>2, <3>1
    <3>3. it.bit \in BOOLEAN /\ it.off \in Nat
      BY <1>2, ItemFacts DEF Item
    <3>4. CASE it.bit
      <4>1. i - it.off = 1
        BY <3>1, <3>3, <3>4 DEF Covers, Extent
      <4>2. file'[it.db][i] = SetBit(cur[h], it)
        BY <3>2, <3>4, <4>1 DEF Payload
      <4>3. it.at \in SetBit(cur[h], it) <=> 0 \in it.data[1]
        BY DEF SetBit, BitValue
      <4> QED
        BY <3>1, <3>4, <4>2, <4>3 DEF Holds
    <3>5. CASE ~it.bit
      BY <3>1, <3>2, <3>5 DEF Holds, Payload
    <3> QED
      BY <3>3, <3>4, <3>5
  <2>3. CASE ~(g = h /\ j = k)
    <3>1. Stored(g, j)
      <4>1. CASE g # h
        BY <1>4, <1>7, <4>1, HandlerFacts DEF Stored
      <4>2. CASE g = h
        <5>1. j \in 1 .. handled[h]
          BY <1>4, <1>7, <2>1, <2>3, <4>2 DEF Stored
        <5>2. Len(results[h]) = handled[h]
          BY <1>1, <1>2 DEF ResultsInv, WriterResults
        <5> QED
          BY <1>4, <1>7, <4>2, <5>1, <5>2 DEF Stored
      <4> QED
        BY <4>1, <4>2
    <3>2. Holds(jt, i, file[jt.db][i])
      BY <1>7, <3>1 DEF AckedIsStored, StoredInv
    <3>3. jt.db \in DBs /\ i \in 1 .. Size[jt.db]
      BY <1>1, <1>7, <3>1, StoredFacts
    <3>4. ~Overlap(jt, Items(h)[k])
      BY <1>2, <1>7, <2>3, RequestFacts DEF Alone
    <3>5. jt.db = it.db => i \notin Covers(it)
      BY <3>4 DEF Overlap, Item
    <3>6. file'[jt.db][i] = file[jt.db][i]
      BY <1>2, <3>3, <3>5
    <3> QED
      BY <3>2, <3>6
  <2> QED
    BY <2>2, <2>3
<1>8. AckedIsStored'
  BY <1>7 DEF AckedIsStored, Stored, Alone, Overlap, Holds, Covers, Items, Writers
<1> QED
  BY <1>6, <1>8

LEMMA StoredNext == StoredInv /\ [Next]_vars => StoredInv'
<1> SUFFICES ASSUME StoredInv, [Next]_vars PROVE StoredInv'
  OBVIOUS
<1>1. IInv'
  BY NextInv DEF StoredInv
<1>2. ASSUME NEW h \in Handlers, GetItem(h)
      PROVE  ResultsInv' /\ AckedIsStored'
  <2>1. h \in Readers /\ file' = file /\ Answer(h, ReadItems(Item(h)))
    BY <1>2 DEF GetItem
  <2>2. \A g \in Writers : g # h
    BY <2>1, HandlerFacts
  <2>3. /\ results' = [g \in Handlers |-> results'[g]]
        /\ \A g \in Handlers : g # h => results'[g] = results[g] /\ handled'[g] = handled[g]
        /\ handled'[h] = handled[h] + 1 /\ handled[h] \in Nat
    <3>1. /\ results' = [results EXCEPT ![h] = @ \o ReadItems(Item(h))]
          /\ handled' = [handled EXCEPT ![h] = @ + 1]
          /\ handled = [g \in Handlers |-> handled[g]]
          /\ handled[h] \in Nat
          /\ results = [g \in Handlers |-> results[g]]
      BY <2>1 DEF Answer, StoredInv, ResultsInv, IInv, TypeOK
    <3>2. handled[h] \in Nat
      BY <3>1, RequestFacts
    <3> QED
      BY <3>1, <3>2
  <2>4. ResultsInv'
    <3>1. \A g \in Writers : WriterResults(g)'
      <4>1. ASSUME NEW g \in Writers
            PROVE  WriterResults(g)'
        <5>1. results'[g] = results[g] /\ handled'[g] = handled[g]
          BY <2>2, <2>3, HandlerFacts
        <5>2. WriterResults(g)
          BY DEF StoredInv, ResultsInv
        <5> QED
          BY <5>1, <5>2 DEF WriterResults, Accepted
      <4> QED
        BY <4>1
    <3>2. \A g \in Readers : handled'[g] = 0 => results'[g] = <<>>
      <4>1. ASSUME NEW g \in Readers, handled'[g] = 0
            PROVE  results'[g] = <<>>
        <5>1. g # h
          BY <2>3, <4>1
        <5>2. results'[g] = results[g] /\ handled'[g] = handled[g]
          BY <2>3, <5>1, HandlerFacts
        <5>3. handled[g] = 0 => results[g] = <<>>
          BY DEF StoredInv, ResultsInv
        <5> QED
          BY <4>1, <5>2, <5>3
      <4> QED
        BY <4>1
    <3> QED
      BY <2>3, <3>1, <3>2 DEF ResultsInv
  <2>5. AckedIsStored'
    BY <2>1, <2>2, <2>3, HandlerFacts DEF StoredInv, AckedIsStored, Stored
  <2> QED
    BY <2>4, <2>5
<1>3. ASSUME UNCHANGED <<file, handled, results>>
      PROVE  ResultsInv' /\ AckedIsStored'
  BY <1>3 DEF StoredInv, ResultsInv, WriterResults, AckedIsStored, Stored, Accepted
<1>4. ASSUME NEW h \in Handlers, Arrive(h) \/ Work(h)
      PROVE  ResultsInv' /\ AckedIsStored'
  <2>1. CASE Refuse(h)
    BY <2>1, RefuseStored
  <2>2. CASE Commit(h)
    BY <2>2, CommitStored
  <2>3. CASE GetItem(h)
    BY <2>3, <1>2
  <2>4. CASE Arrive(h) \/ Prepare(h) \/ Panic(h) \/ Reply(h)
    BY <2>4, <1>3 DEF Arrive, Prepare, Panic, Reply
  <2> QED
    BY <1>4, <2>1, <2>2, <2>3, <2>4 DEF Work
<1>5. CASE UNCHANGED vars
  <2> UNCHANGED <<file, handled, results>>
    BY <1>5 DEF vars
  <2> QED
    BY <1>1, <1>3 DEF StoredInv
<1>6. CASE Next
  BY <1>1, <1>4, <1>6 DEF StoredInv, Next
<1> QED
  BY <1>5, <1>6

(* An acknowledged item that shares no byte with another is in the file. *)
THEOREM AckedStored == Spec => []AckedIsStored
<1>1. StoredInv => AckedIsStored
  BY DEF StoredInv
<1> QED
  BY StoredInit, StoredNext, <1>1, PTL DEF Spec

(* Sizes, types and acknowledged items, as the run checks them together.    *)
THEOREM FilesKept == Spec => []Inv
<1>1. TypeOK /\ AckedIsStored <=> Inv
  BY DEF Inv
<1> QED
  BY TypeCorrect, AckedStored, <1>1, PTL

-----------------------------------------------------------------------------
(* A handler that has not started has done nothing; the WriteVars a ReadVar  *)
(* came after are over.                                                     *)
OrderInv ==
  /\ \A h \in Handlers : pc[h] = "unsent" => handled[h] = 0
  /\ \A h \in Handlers : \A g \in before[h] : g \in Writers /\ pc[g] = "replied"

(* What one ReadVar returned, as ReadSeesAcked says. *)
Sees(h) ==
  handled[h] = 1 /\ Len(results[h]) = 1 =>
    LET rd == Items(h)[1]
    IN  \A g \in before[h] : \A j \in DOMAIN Items(g) :
          Stored(g, j) /\ Alone(g, j) /\ Items(g)[j].db = rd.db =>
            \A i \in Covers(Items(g)[j]) \cap ((rd.off + 1) .. (rd.off + rd.len)) :
              Holds(Items(g)[j], i, results[h][1].data[i - rd.off])

SeenInv == OrderInv /\ \A h \in Readers : Sees(h)

LEMMA SeenIsProperty == SeenInv => ReadSeesAcked
BY DEF SeenInv, Sees, ReadSeesAcked

LEMMA SeenInit == Init => SeenInv
<1> SUFFICES ASSUME Init PROVE SeenInv
  OBVIOUS
<1>1. \A h \in Handlers : handled[h] = 0 /\ before[h] = {}
  BY DEF Init
<1> QED
  BY <1>1, HandlerFacts DEF SeenInv, OrderInv, Sees

LEMMA OrderNext == IInv /\ OrderInv /\ [Next]_vars => OrderInv'
<1> SUFFICES ASSUME IInv, OrderInv, [Next]_vars PROVE OrderInv'
  OBVIOUS
<1>1. ASSUME NEW h \in Handlers, Arrive(h)
      PROVE  OrderInv'
  <2>1. /\ pc' = [pc EXCEPT ![h] = "next"]
        /\ pc[h] = "unsent"
        /\ before' = [before EXCEPT ![h] = {g \in Writers : h \in Readers /\ pc[g] = "replied"}]
        /\ handled' = handled
    BY <1>1 DEF Arrive
  <2>2. \A g \in Handlers : pc'[g] = (IF g = h THEN "next" ELSE pc[g])
    BY <2>1 DEF IInv, TypeOK
  <2>3. \A g \in Handlers : g # h => before'[g] = before[g]
    BY <2>1 DEF IInv, TypeOK
  <2>4. before'[h] = {g \in Writers : h \in Readers /\ pc[g] = "replied"}
    BY <2>1 DEF IInv, TypeOK
  <2>5. \A g \in Handlers : pc[g] = "replied" => pc'[g] = "replied"
    BY <2>1, <2>2
  <2>6. ASSUME NEW f \in Handlers, NEW g \in before'[f]
        PROVE  g \in Writers /\ pc'[g] = "replied"
    <3>1. CASE f = h
      BY <2>4, <2>5, <2>6, <3>1, HandlerFacts
    <3>2. CASE f # h
      BY <2>3, <2>5, <2>6, <3>2, HandlerFacts DEF OrderInv
    <3> QED
      BY <3>1, <3>2
  <2> QED
    BY <2>1, <2>2, <2>6 DEF OrderInv
<1>2. ASSUME NEW h \in Handlers, Work(h)
      PROVE  OrderInv'
  <2>1. /\ pc[h] \in {"next", "write"}
        /\ \A g \in Handlers : g # h => pc'[g] = pc[g] /\ handled'[g] = handled[g]
        /\ pc'[h] # "unsent"
        /\ before' = before
    BY <1>2 DEF Work, Refuse, Prepare, Commit, GetItem, Panic, Reply, Answer, ItemLeft,
                AllHandled, IInv, TypeOK
  <2> QED
    BY <2>1, HandlerFacts DEF OrderInv
<1>3. CASE UNCHANGED vars
  BY <1>3 DEF vars, OrderInv
<1> QED
  BY <1>1, <1>2, <1>3 DEF Next

(* The read itself: what it returns is in the file. *)
LEMMA ReadSees ==
  ASSUME StoredInv, OrderInv, NEW h \in Readers, GetItem(h)
  PROVE  Sees(h)'
<1> DEFINE rd == Items(h)[1]
<1>1. /\ file' = file /\ before' = before
      /\ Answer(h, ReadItems(Item(h)))
      /\ handled[h] < Len(Items(h))
  BY DEF GetItem, ItemLeft
<1>2. /\ h \in Handlers /\ Items(h) \in Seq(ReadItem) /\ Len(Items(h)) \in Nat
      /\ handled[h] \in Nat
      /\ handled'[h] = handled[h] + 1
      /\ results'[h] = results[h] \o ReadItems(Item(h))
      /\ \A g \in Handlers : g # h => results'[g] = results[g]
  BY <1>1, RequestFacts DEF StoredInv, ResultsInv, IInv, TypeOK, Answer
<1> SUFFICES ASSUME handled'[h] = 1, Len(results'[h]) = 1,
                    NEW g \in before[h], NEW j \in DOMAIN Items(g),
                    Stored(g, j)', Alone(g, j), Items(g)[j].db = rd.db,
                    NEW i \in Covers(Items(g)[j]) \cap ((rd.off + 1) .. (rd.off + rd.len))
             PROVE  Holds(Items(g)[j], i, results'[h][1].data[i - rd.off])
  BY <1>1 DEF Sees
<1>3. handled[h] = 0 /\ results[h] = <<>> /\ Item(h) = rd
  BY <1>2 DEF StoredInv, ResultsInv, Item
<1>4. rd \in ReadItem /\ rd.off \in Nat /\ rd.len \in Nat
  <2>1. 1 \in 1 .. Len(Items(h))
    BY <1>1, <1>2, <1>3
  <2>2. rd \in ReadItem
    BY <1>2, <2>1
  <2> QED
    BY <2>2 DEF ReadItem
<1> DEFINE data == Slice(file[rd.db], rd.off, rd.len)
<1>5. results'[h] = << Read(data) >>
  <2>1. CASE rd.db \in DBs /\ rd.off + rd.len <= Len(file[rd.db])
    <3>1. ReadItems(rd) = << Read(data) >>
      BY <2>1 DEF ReadItems
    <3>2. results'[h] = <<>> \o << Read(data) >>
      BY <1>2, <1>3, <3>1
    <3> HIDE DEF data
    <3> QED
      BY <3>2
  <2>2. CASE ~(rd.db \in DBs /\ rd.off + rd.len <= Len(file[rd.db]))
    <3>1. ReadItems(rd) = << Refused, Read(<<>>) >>
      BY <2>2 DEF ReadItems
    <3>2. results'[h] = <<>> \o << Refused, Read(<<>>) >>
      BY <1>2, <1>3, <3>1
    <3>3. Len(results'[h]) = 2
      BY <3>2
    <3> QED
      BY <3>3
  <2> QED
    BY <2>1, <2>2
<1>6. results'[h][1].data = data
  BY <1>5 DEF Read
<1>7. g \in Writers /\ Stored(g, j)
  <2>1. g \in Writers
    BY <1>2 DEF OrderInv
  <2>2. g # h /\ g \in Handlers
    BY <2>1, HandlerFacts
  <2>3. results'[g] = results[g]
    BY <1>2, <2>2
  <2> QED
    BY <2>1, <2>3 DEF Stored
<1>8. Holds(Items(g)[j], i, file[rd.db][i])
  BY <1>7 DEF StoredInv, AckedIsStored
<1>9. i - rd.off \in 1 .. rd.len /\ rd.off + (i - rd.off) = i
  BY <1>4
<1>10. data[i - rd.off] = file[rd.db][i]
  BY <1>9 DEF Slice
<1> QED
  BY <1>6, <1>8, <1>10

LEMMA SeenNext == StoredInv /\ SeenInv /\ [Next]_vars => SeenInv'
<1> SUFFICES ASSUME StoredInv, SeenInv, [Next]_vars PROVE SeenInv'
  OBVIOUS
<1>1. OrderInv'
  BY OrderNext DEF StoredInv, SeenInv
<1>2. ASSUME NEW f \in Readers PROVE Sees(f)'
  <2> DEFINE Same(h) == /\ handled'[h] = handled[h]
                        /\ results'[h] = results[h]
  <2>0. f \in Handlers
    BY HandlerFacts
  <2>1. ASSUME Same(f), before'[f] = before[f],
               \A g \in before[f] : results'[g] = results[g]
        PROVE  Sees(f)'
    <3>1. Sees(f)
      BY DEF SeenInv
    <3>2. ASSUME NEW g \in before[f], NEW j \in DOMAIN Items(g)
          PROVE  Stored(g, j)' <=> Stored(g, j)
      BY <2>1, <3>2 DEF Stored
    <3> SUFFICES ASSUME handled'[f] = 1, Len(results'[f]) = 1,
                        NEW g \in before[f], NEW j \in DOMAIN Items(g),
                        Stored(g, j)', Alone(g, j), Items(g)[j].db = Items(f)[1].db,
                        NEW i \in Covers(Items(g)[j]) \cap
                                    ((Items(f)[1].off + 1) .. (Items(f)[1].off + Items(f)[1].len))
                 PROVE  Holds(Items(g)[j], i, results'[f][1].data[i - Items(f)[1].off])
      BY <2>1 DEF Sees
    <3>3. Stored(g, j)
      BY <3>2
    <3>4. Holds(Items(g)[j], i, results[f][1].data[i - Items(f)[1].off])
      BY <2>1, <3>1, <3>3 DEF Sees
    <3> QED
      BY <2>1, <3>4
  <2>2. CASE UNCHANGED vars
    BY <2>1, <2>2 DEF vars
  <2>3. ASSUME NEW h \in Handlers, Arrive(h)
        PROVE  Sees(f)'
    <3>1. UNCHANGED <<handled, results>> /\ pc[h] = "unsent"
      BY <2>3 DEF Arrive
    <3>2. CASE h = f
      <4>1. handled'[f] = 0
        BY <3>1, <3>2 DEF SeenInv, OrderInv
      <4> QED
        BY <4>1 DEF Sees
    <3>3. CASE h # f
      <4>1. before'[f] = before[f]
        BY <2>0, <2>3, <3>3 DEF Arrive, StoredInv, IInv, TypeOK
      <4> QED
        BY <2>1, <3>1, <4>1
    <3> QED
      BY <3>2, <3>3
  <2>4. ASSUME NEW h \in Handlers, Work(h)
        PROVE  Sees(f)'
    <3>1. before' = before /\ pc[h] # "replied"
      BY <2>4 DEF Work, Refuse, Prepare, Commit, GetItem, Panic, Reply, ItemLeft, AllHandled
    <3>2. \A g \in Handlers : g # h => Same(g)
      BY <2>4 DEF Work, Refuse, Prepare, Commit, GetItem, Panic, Reply, Answer,
                  StoredInv, ResultsInv, IInv, TypeOK
    <3>3. \A g \in before[f] : g \in Handlers /\ g # h
      BY <2>0, <3>1, HandlerFacts DEF SeenInv, OrderInv
    <3>4. CASE f # h
      BY <2>0, <2>1, <3>1, <3>2, <3>3, <3>4
    <3>5. CASE f = h /\ GetItem(h)
      BY <3>5, ReadSees DEF SeenInv
    <3>6. CASE f = h /\ ~GetItem(h)
      <4>1. h \notin Writers
        BY <3>6, HandlerFacts
      <4>2. Panic(h) \/ Reply(h) \/ Commit(h)
        BY <2>4, <3>6, <4>1 DEF Work, Refuse, Prepare
      <4>3. ~Commit(h)
        BY <4>1 DEF Commit, StoredInv, IInv, TypeOK
      <4>4. UNCHANGED <<handled, results>>
        BY <4>2, <4>3 DEF Panic, Reply
      <4> QED
        BY <2>1, <3>1, <4>4
    <3> QED
      BY <3>4, <3>5, <3>6
  <2> QED
    BY <2>2, <2>3, <2>4 DEF Next
<1> QED
  BY <1>1, <1>2 DEF SeenInv

(* A ReadVar returns what every WriteVar answered before it stored. *)
THEOREM ReadsFresh == Spec => []ReadSeesAcked
<1>1. Init => StoredInv /\ SeenInv
  BY StoredInit, SeenInit
<1>2. (StoredInv /\ SeenInv) /\ [Next]_vars => (StoredInv /\ SeenInv)'
  BY StoredNext, SeenNext
<1>3. StoredInv /\ SeenInv => ReadSeesAcked
  BY SeenIsProperty
<1> QED
  BY <1>1, <1>2, <1>3, PTL DEF Spec

-----------------------------------------------------------------------------
(* DbStore.  A bit item is written by reading its byte and writing the byte  *)
(* back, so what DbStore promises needs that no other request writes to that *)
(* byte in between.  Requests that write the same byte as a whole may.       *)
Apart ==
  \A g, h \in Writers : \A j \in DOMAIN Items(g), k \in DOMAIN Items(h) :
    g # h /\ Items(g)[j].bit /\ Accepted(g, j) /\ Accepted(h, k)
      => ~Overlap(Items(g)[j], Items(h)[k])

(* The byte a handler holds is the byte of the file. *)
CurFresh ==
  \A h \in Writers : pc[h] = "write" /\ Item(h).bit =>
    cur[h] = file[Item(h).db][Item(h).off + 1]

(* Where a handler at "write" is in its request. *)
LEMMA AtWrite ==
  ASSUME IInv, NEW h \in Writers, pc[h] = "write"
  PROVE  /\ handled[h] + 1 \in DOMAIN Items(h)
         /\ Item(h) = Items(h)[handled[h] + 1]
         /\ Accepted(h, handled[h] + 1)
         /\ Item(h).db \in DBs
         /\ Item(h).off \in Nat /\ Item(h).bit \in BOOLEAN
         /\ Item(h).bit => Covers(Item(h)) = {Item(h).off + 1}
<1>1. h \in Handlers /\ handled[h] \in Nat /\ handled[h] < Len(Items(h)) /\ Len(Items(h)) \in Nat
  BY RequestFacts DEF IInv, TypeOK
<1>2. Items(h) \in Seq(WriteItem) /\ handled[h] + 1 \in 1 .. Len(Items(h))
  BY <1>1, RequestFacts
<1>3. Accepted(h, handled[h] + 1)
  BY <1>1 DEF IInv, WritesAccepted
<1>4. Item(h).db \in DBs
  BY <1>3, AcceptedFacts DEF Accepted, Item
<1>5. Item(h).off \in Nat /\ Item(h).bit \in BOOLEAN
  BY <1>2, ItemFacts DEF Item
<1>6. Item(h).bit => Covers(Item(h)) = {Item(h).off + 1}
  BY <1>5 DEF Covers, Extent
<1> QED
  BY <1>2, <1>3, <1>4, <1>5, <1>6 DEF Item

LEMMA CurFreshInit == Init => CurFresh
<1>1. \A h \in Writers : h \in Handlers
  BY HandlerFacts
<1> QED
  BY <1>1 DEF Init, CurFresh

LEMMA CurFreshNext ==
  ASSUME Apart, IInv, CurFresh, [Next]_vars
  PROVE  CurFresh'
<1> SUFFICES ASSUME NEW h \in Writers, pc'[h] = "write", Item(h)'.bit
             PROVE  cur'[h] = file'[Item(h)'.db][Item(h)'.off + 1]
  BY DEF CurFresh
<1>1. h \in Handlers
  BY HandlerFacts
<1>2. CASE UNCHANGED <<file, pc, handled, cur>>
  BY <1>2 DEF CurFresh, Item
<1>3. ASSUME NEW g \in Handlers, g # h, Arrive(g) \/ Work(g)
      PROVE  cur'[h] = file'[Item(h)'.db][Item(h)'.off + 1]
  <2>1. pc'[h] = pc[h] /\ handled'[h] = handled[h] /\ cur'[h] = cur[h]
    BY <1>1, <1>3 DEF Arrive, Work, Refuse, Prepare, Commit, GetItem, Panic, Reply, Answer,
                      IInv, TypeOK
  <2>2. Item(h)' = Item(h)
    BY <2>1 DEF Item
  <2>3. cur[h] = file[Item(h).db][Item(h).off + 1]
    BY <2>1, <2>2 DEF CurFresh
  <2>4. CASE file' = file
    BY <2>1, <2>2, <2>3, <2>4
  <2>5. CASE Commit(g)
    <3>1. g \in Writers /\ pc[g] = "write"
      BY <2>5 DEF Commit, IInv, TypeOK
    <3>2. ~Overlap(Item(h), Item(g))
      BY <1>3, <2>1, <2>2, <3>1, AtWrite DEF Apart
    <3>3. /\ Item(h).db \in DBs /\ Item(h).off + 1 \in Covers(Item(h))
          /\ Item(h).off + 1 \in 1 .. Size[Item(h).db]
      <4>1. /\ Covers(Item(h)) = {Item(h).off + 1} /\ Item(h).db \in DBs /\ Item(h).off \in Nat
            /\ Accepted(h, handled[h] + 1)
        BY <2>1, <2>2, AtWrite
      <4>2. ~OutOfRange(Item(h), Size[Item(h).db])
        BY <4>1, AcceptedFacts DEF Accepted, Item
      <4>3. Size[Item(h).db] \in Nat
        BY <4>1, RequestAssumption
      <4> QED
        BY <2>2, <4>1, <4>2, <4>3 DEF OutOfRange, Extent
    <3>4. Item(g).db = Item(h).db => Item(h).off + 1 \notin Covers(Item(g))
      BY <3>2, <3>3 DEF Overlap
    <3>5. file'[Item(h).db][Item(h).off + 1] = file[Item(h).db][Item(h).off + 1]
      BY <2>5, <3>3, <3>4, CommitFacts
    <3> QED
      BY <2>1, <2>2, <2>3, <3>5
  <2> QED
    BY <1>3, <2>4, <2>5 DEF Arrive, Work, Refuse, Prepare, GetItem, Panic, Reply
<1>4. ASSUME Arrive(h) \/ Work(h)
      PROVE  cur'[h] = file'[Item(h)'.db][Item(h)'.off + 1]
  <2>1. CASE Prepare(h)
    <3>1. /\ cur' = [cur EXCEPT ![h] = IF Item(h).bit THEN file[Item(h).db][Item(h).off + 1] ELSE {}]
          /\ file' = file /\ handled' = handled
      BY <2>1 DEF Prepare
    <3>2. Item(h)' = Item(h)
      BY <3>1 DEF Item
    <3> QED
      BY <1>1, <3>1, <3>2 DEF IInv, TypeOK
  <2>2. CASE ~Prepare(h)
    <3>1. Panic(h) \/ Reply(h) \/ Arrive(h) \/ Refuse(h) \/ GetItem(h) \/ Commit(h)
      BY <1>4, <2>2 DEF Work
    <3>2. Panic(h)
      BY <1>1, <3>1 DEF Reply, Arrive, Refuse, GetItem, Commit, ItemLeft, IInv, TypeOK
    <3> QED
      BY <1>2, <3>2 DEF Panic
  <2> QED
    BY <2>1, <2>2
<1>5. CASE UNCHANGED vars
  BY <1>2, <1>5 DEF vars
<1> QED
  BY <1>3, <1>4, <1>5 DEF Next

(* A Commit sets the bits its item addresses, and no other.                  *)
LEMMA CommitBits ==
  ASSUME IInv, CurFresh, NEW h \in Handlers, Commit(h),
         NEW d \in DBs, NEW i \in 1 .. Size[d], NEW b \in Bit
  PROVE  (b \in file'[d][i]) <=>
           IF <<d, i, b>> \in Addressed(Item(h))
           THEN Value(h, handled[h] + 1, <<d, i, b>>)
           ELSE b \in file[d][i]
<1> DEFINE it == Item(h)
<1>1. h \in Writers /\ pc[h] = "write"
  BY CommitFacts DEF Commit
<1>2. /\ it = Items(h)[handled[h] + 1] /\ it.off \in Nat /\ it.bit \in BOOLEAN
      /\ it.bit => Covers(it) = {it.off + 1}
  BY <1>1, AtWrite
<1>3. file'[d][i] = IF d = it.db /\ i \in Covers(it) THEN Payload(h)[i - it.off] ELSE file[d][i]
  BY CommitFacts
<1>4. CASE d = it.db /\ i \in Covers(it)
  <2>1. CASE it.bit
    <3>1. i = it.off + 1 /\ i - it.off = 1
      BY <1>2, <1>4, <2>1
    <3>2. Payload(h) = << SetBit(cur[h], it) >>
      BY <2>1 DEF Payload
    <3>3. file'[d][i] = SetBit(cur[h], it)
      BY <1>3, <1>4, <3>1, <3>2
    <3>4. cur[h] = file[d][i]
      BY <1>1, <1>4, <2>1, <3>1 DEF CurFresh
    <3>5. <<d, i, b>> \in Addressed(it) <=> b = it.at
      BY <1>4, <2>1 DEF Addressed
    <3>6. Value(h, handled[h] + 1, <<d, i, b>>) <=> 0 \in it.data[1]
      BY <1>2, <2>1 DEF Value
    <3>7. CASE b = it.at
      BY <3>3, <3>5, <3>6, <3>7 DEF SetBit, BitValue
    <3>8. CASE b # it.at
      BY <3>3, <3>4, <3>5, <3>8 DEF SetBit
    <3> QED
      BY <3>7, <3>8
  <2>2. CASE ~it.bit
    <3>1. Payload(h) = it.data
      BY <2>2 DEF Payload
    <3>2. <<d, i, b>> \in Addressed(it)
      BY <1>4, <2>2 DEF Addressed
    <3>3. Value(h, handled[h] + 1, <<d, i, b>>) <=> b \in it.data[i - it.off]
      BY <1>2, <2>2 DEF Value
    <3> QED
      BY <1>3, <1>4, <3>1, <3>2, <3>3
  <2> QED
    BY <1>2, <2>1, <2>2
<1>5. CASE ~(d = it.db /\ i \in Covers(it))
  <2>1. <<d, i, b>> \notin Addressed(it)
    BY <1>5 DEF Addressed
  <2> QED
    BY <1>3, <1>5, <2>1
<1> QED
  BY <1>4, <1>5

LEMMA CellFacts ==
  ASSUME NEW c \in Cells
  PROVE  \E d \in DBs : \E i \in 1 .. Size[d], b \in Bit : c = <<d, i, b>>
BY DEF Cells

LEMMA StoreInitMapped == Init => Store!Init
<1> SUFFICES ASSUME Init PROVE Store!Init
  OBVIOUS
<1>1. CellValue \in [Cells -> BOOLEAN]
  BY DEF CellValue
<1>2. [h \in Writers |-> handled[h]] = [h \in Writers |-> 0]
  BY HandlerFacts DEF Init
<1> QED
  BY <1>1, <1>2 DEF Store!Init

(* A Commit is the item's instant; every other step leaves the cells alone.  *)
LEMMA CommitMapped ==
  ASSUME IInv, CurFresh, NEW h \in Handlers, Commit(h)
  PROVE  Store!Next
<1> DEFINE j == handled[h] + 1
           now == [g \in Writers |-> handled[g]]
<1>1. h \in Writers /\ pc[h] = "write"
  BY CommitFacts DEF Commit
<1>2. /\ Accepted(h, j) /\ Item(h) = Items(h)[j] /\ j \in DOMAIN Items(h)
      /\ handled[h] < Len(Items(h))
  BY <1>1, AtWrite DEF IInv, TypeOK
<1>3. Target(h, j) = Addressed(Item(h))
  BY <1>2 DEF Target
<1>4. handled' = [handled EXCEPT ![h] = @ + 1] /\ handled \in [Handlers -> Nat]
  BY DEF Commit, Answer, IInv, TypeOK
<1>5. now' = [now EXCEPT ![h] = j]
  BY <1>1, <1>4, HandlerFacts
<1>6. ASSUME NEW c \in Cells
      PROVE  CellValue'[c] = IF c \in Target(h, j) THEN Value(h, j, c) ELSE CellValue[c]
  <2>1. PICK d \in DBs : \E i \in 1 .. Size[d], b \in Bit : c = <<d, i, b>>
    BY CellFacts
  <2>2. PICK i \in 1 .. Size[d], b \in Bit : c = <<d, i, b>>
    BY <2>1
  <2>3. (b \in file'[d][i]) <=>
          IF c \in Target(h, j) THEN Value(h, j, c) ELSE b \in file[d][i]
    BY <1>3, <2>2, CommitBits
  <2>4. CellValue'[c] = (b \in file'[d][i]) /\ CellValue[c] = (b \in file[d][i])
    BY <2>2 DEF CellValue
  <2>5. Value(h, j, c) \in BOOLEAN
    <3> DEFINE p == Items(h)[j].bit
               x == 0 \in Items(h)[j].data[1]
               y == c[3] \in Items(h)[j].data[c[2] - Items(h)[j].off]
    <3>1. Value(h, j, c) = IF p THEN x ELSE y
      BY DEF Value
    <3>2. x \in BOOLEAN /\ y \in BOOLEAN
      OBVIOUS
    <3> HIDE DEF p, x, y
    <3>3. CASE p
      BY <3>1, <3>2, <3>3
    <3>4. CASE ~p
      BY <3>1, <3>2, <3>4
    <3> QED
      BY <3>3, <3>4
  <2> QED
    BY <2>3, <2>4, <2>5
<1>7. CellValue' = [c \in Cells |-> IF c \in Target(h, j) THEN Value(h, j, c) ELSE CellValue[c]]
  <2>1. CellValue' = [c \in Cells |-> CellValue'[c]]
    BY DEF CellValue
  <2> QED
    BY <1>6, <2>1
<1>8. now[h] = handled[h] /\ handled[h] < Count(h)
  BY <1>1, <1>2 DEF Count
<1>9. Store!Handle(h)
  BY <1>5, <1>7, <1>8 DEF Store!Handle
<1> QED
  BY <1>1, <1>9 DEF Store!Next

(* A refused item is handled and sets nothing.                               *)
LEMMA RefuseMapped ==
  ASSUME IInv, NEW h \in Handlers, Refuse(h)
  PROVE  Store!Next
<1> DEFINE j == handled[h] + 1
           now == [g \in Writers |-> handled[g]]
<1>1. /\ h \in Writers /\ handled[h] < Len(Items(h)) /\ file' = file
      /\ handled' = [handled EXCEPT ![h] = @ + 1] /\ handled \in [Handlers -> Nat]
      /\ WriteCode(Item(h), Sizes) # "Success"
  BY DEF Refuse, ItemLeft, Answer, IInv, TypeOK
<1>2. Target(h, j) = {}
  BY <1>1, ImageFacts DEF Target, Accepted, Item, IInv, TypeOK
<1>3. now' = [now EXCEPT ![h] = j]
  BY <1>1, HandlerFacts
<1>4. CellValue' = [c \in Cells |-> IF c \in Target(h, j) THEN Value(h, j, c) ELSE CellValue[c]]
  BY <1>1, <1>2 DEF CellValue
<1>5. now[h] = handled[h] /\ handled[h] < Count(h)
  BY <1>1 DEF Count
<1>6. Store!Handle(h)
  BY <1>3, <1>4, <1>5 DEF Store!Handle
<1> QED
  BY <1>1, <1>6 DEF Store!Next

LEMMA StoreNextMapped ==
  ASSUME IInv, CurFresh, [Next]_vars
  PROVE  [Store!Next]_<<CellValue, [h \in Writers |-> handled[h]]>>
<1>1. CASE file' = file /\ \A g \in Writers : handled'[g] = handled[g]
  BY <1>1 DEF CellValue
<1>2. ASSUME NEW x \in Handlers, Arrive(x) \/ Work(x)
      PROVE  [Store!Next]_<<CellValue, [h \in Writers |-> handled[h]]>>
  <2>1. CASE Commit(x)
    BY <2>1, CommitMapped
  <2>2. CASE Refuse(x)
    BY <2>2, RefuseMapped
  <2>3. CASE GetItem(x)
    <3>1. file' = file /\ handled' = [handled EXCEPT ![x] = @ + 1] /\ x \notin Writers
      BY <2>3, HandlerFacts DEF GetItem, Answer
    <3>2. \A g \in Writers : handled'[g] = handled[g]
      BY <3>1, HandlerFacts DEF IInv, TypeOK
    <3> QED
      BY <1>1, <3>1, <3>2
  <2>4. CASE Arrive(x) \/ Prepare(x) \/ Panic(x) \/ Reply(x)
    BY <1>1, <2>4 DEF Arrive, Prepare, Panic, Reply
  <2> QED
    BY <1>2, <2>1, <2>2, <2>3, <2>4 DEF Work
<1>3. CASE UNCHANGED vars
  BY <1>1, <1>3 DEF vars
<1> QED
  BY <1>2, <1>3 DEF Next

(* The handlers, which take no lock, handle WriteVars as DbStore says as long *)
(* as no request writes to a byte of which another sets a bit.               *)
THEOREM StoreImplemented == Apart => (Spec => StoreContract)
<1> SUFFICES ASSUME Apart PROVE Spec => StoreContract
  OBVIOUS
<1>1. Init => IInv /\ CurFresh
  BY InitInv, CurFreshInit
<1>2. (IInv /\ CurFresh) /\ [Next]_vars => (IInv /\ CurFresh)'
  BY NextInv, CurFreshNext
<1>3. IInv /\ CurFresh /\ [Next]_vars => [Store!Next]_<<CellValue, [h \in Writers |-> handled[h]]>>
  BY StoreNextMapped
<1>4. Init => Store!Init
  BY StoreInitMapped
<1>5. Spec => Store!Init
  BY <1>4, PTL DEF Spec
<1>6. Spec => [][Store!Next]_<<CellValue, [h \in Writers |-> handled[h]]>>
  BY <1>1, <1>2, <1>3, PTL DEF Spec
<1> QED
  BY <1>5, <1>6, PTL DEF StoreContract, Store!Spec

(* Under the same condition a bit write leaves its sibling bits alone; with   *)
(* two writers of sibling bits it does not, as the run shows.                *)
THEOREM SiblingsKept == Apart => (Spec => SiblingBitsPreserved)
<1> SUFFICES ASSUME Apart PROVE Spec => SiblingBitsPreserved
  OBVIOUS
<1> DEFINE Kept ==
      \A h \in Writers : Commit(h) =>
        \A d \in DBs : \A i \in 1 .. Size[d] : \A b \in Bit :
          <<d, i, b>> \notin Addressed(Item(h)) => (b \in file'[d][i]) = (b \in file[d][i])
<1>1. Init => IInv /\ CurFresh
  BY InitInv, CurFreshInit
<1>2. (IInv /\ CurFresh) /\ [Next]_vars => (IInv /\ CurFresh)'
  BY NextInv, CurFreshNext
<1>3. IInv /\ CurFresh => Kept
  BY CommitBits, HandlerFacts
<1> HIDE DEF Kept
<1>4. Spec => [][Kept]_vars
  BY <1>1, <1>2, <1>3, PTL DEF Spec
<1> QED
  BY <1>4 DEF SiblingBitsPreserved, Kept
=============================================================================
