------------------------------- MODULE DbFile --------------------------------
(***************************************************************************)
(* ReadVar and WriteVar requests on the DB{n}.bin files: the handlers of   *)
(* events.go and write_events.go, setDBValue and getDBValue.               *)
(*                                                                         *)
(* StartReader starts one goroutine per request (server.go:275), so the    *)
(* handlers of all requests, of one client or of several, run at once on   *)
(* the same files and take no lock.  A handler opens the file anew for     *)
(* each item; the calls on an open file (Stat with ReadAt, WriteAt,        *)
(* ReadFile) are its atomic steps.  I/O errors of an open file are left    *)
(* out.                                                                    *)
(***************************************************************************)
EXTENDS Integers, Sequences

CONSTANTS
  Handlers,    \* DoMsgHandler goroutines, one per request
  DBs,         \* numbers n for which DB{n}.bin exists
  Size,        \* the length of each file
  Bit,         \* the bits of a byte
  Request      \* the request each handler serves

Byte == SUBSET Bit       \* a byte is the set of its bits that are 1

(* A byte or word item of n bytes, or one bit (`at`) of the byte at `off`.  *)
WriteItem == [area : BOOLEAN, db : Nat, bit : BOOLEAN, off : Nat, at : Bit,
              data : Seq(Byte)]
ReadItem == [db : Nat, off : Nat, len : Nat]

ASSUME RequestAssumption ==
  /\ 0 \in Bit
  /\ DBs \subseteq Nat
  /\ Size \in [DBs -> Nat]
  /\ \A h \in Handlers :
       \/ Request[h] \in [func : {"write"}, items : Seq(WriteItem)]
       \/ Request[h] \in [func : {"read"}, items : Seq(ReadItem)]

Writers == {h \in Handlers : Request[h].func = "write"}
Readers == {h \in Handlers : Request[h].func = "read"}
Items(h) == Request[h].items

VARIABLES
  up,       \* the server process has not panicked
  file,     \* contents of each file
  pc,       \* per handler: "unsent", "next" item, "write" it, "replied"
  handled,  \* items of its request that a handler is done with
  cur,      \* the byte setDBValue read for a bit item
  results,  \* return codes (WriteVar) or response items (ReadVar) so far
  before    \* history: the WriteVars answered when a ReadVar arrived

vars == <<up, file, pc, handled, cur, results, before>>

Images ==
  {f \in [DBs -> UNION {[1 .. Size[d] -> Byte] : d \in DBs}] :
     \A d \in DBs : f[d] \in [1 .. Size[d] -> Byte]}

Init ==
  /\ up = TRUE
  /\ file \in Images
  /\ pc = [h \in Handlers |-> "unsent"]
  /\ handled = [h \in Handlers |-> 0]
  /\ cur = [h \in Handlers |-> {}]
  /\ results = [h \in Handlers |-> <<>>]
  /\ before = [h \in Handlers |-> {}]

(* Mutated forms of the definitions below, named for the slip each makes.   *)
OutOfRangeAtStart(it, n) == it.off + 1 > n
ValueOfAnyBit(it) == it.data[1] # {}
SetBitDropsSiblings(byte, it) == IF 0 \in it.data[1] THEN {it.at} ELSE {}
SliceFromNext(f, off, n) == [i \in 1 .. n |-> f[((off + i) % Len(f)) + 1]]
AnswerForgotten(h, rs) == UNCHANGED <<results, handled>>

(* The range check of both branches of setDBValue, n being the file's size. *)
Extent(it) == IF it.bit THEN 1 ELSE Len(it.data)
OutOfRange(it, n) == it.off + Extent(it) > n

(* What eventS7FuncWriteVar answers for an item whose file has size n[db].  *)
WriteCode(it, n) ==
  CASE ~it.area -> "ObjectNotAvailable"
    [] it.area /\ (it.db \notin DBs \/ (it.bit /\ it.data = <<>>)) -> "HardwareFault"
    [] OTHER -> IF OutOfRange(it, n[it.db]) THEN "InvalidAddress" ELSE "Success"

BitValue(it) == 0 \in it.data[1]
SetBit(byte, it) == IF BitValue(it) THEN byte \cup {it.at} ELSE byte \ {it.at}

(* WriteAt replaces bytes and, past the end, makes the file longer. *)
WriteAt(f, off, data) ==
  LET last == off + Len(data)
  IN  [i \in 1 .. (IF last > Len(f) THEN last ELSE Len(f)) |->
         IF i > off /\ i <= last THEN data[i - off] ELSE IF i <= Len(f) THEN f[i] ELSE {}]

Slice(f, off, n) == [i \in 1 .. n |-> f[off + i]]

Sizes == [d \in DBs |-> Len(file[d])]

Item(h) == Items(h)[handled[h] + 1]
ItemLeft(h) == up /\ pc[h] = "next" /\ handled[h] < Len(Items(h))

(* The handler is done with its item, for which it appended rs. *)
Answer(h, rs) ==
  /\ results' = [results EXCEPT ![h] = @ \o rs]
  /\ handled' = [handled EXCEPT ![h] = @ + 1]

(* The connection's reader hands the request to a new goroutine. *)
Arrive(h) ==
  /\ up /\ pc[h] = "unsent"
  /\ pc' = [pc EXCEPT ![h] = "next"]
  /\ before' = [before EXCEPT ![h] = {g \in Writers : h \in Readers /\ pc[g] = "replied"}]
  /\ UNCHANGED <<up, file, handled, cur, results>>

Refuse(h) ==
  /\ ItemLeft(h) /\ h \in Writers
  /\ WriteCode(Item(h), Sizes) # "Success"
  /\ Answer(h, << WriteCode(Item(h), Sizes) >>)
  /\ UNCHANGED <<up, file, pc, cur, before>>

(* Stat, the range check and, for a bit, ReadAt of the byte it is in. *)
Prepare(h) ==
  /\ ItemLeft(h) /\ h \in Writers
  /\ WriteCode(Item(h), Sizes) = "Success"
  /\ cur' = [cur EXCEPT ![h] = IF Item(h).bit THEN file[Item(h).db][Item(h).off + 1] ELSE {}]
  /\ pc' = [pc EXCEPT ![h] = "write"]
  /\ UNCHANGED <<up, file, handled, results, before>>

(* WriteAt of the item's bytes, or of the whole byte with one bit changed. *)
Commit(h) ==
  LET it == Item(h)
      data == IF it.bit THEN << SetBit(cur[h], it) >> ELSE it.data
  IN  /\ up /\ pc[h] = "write"
      /\ file' = [file EXCEPT ![it.db] = WriteAt(@, it.off, data)]
      /\ pc' = [pc EXCEPT ![h] = "next"]
      /\ Answer(h, << "Success" >>)
      /\ UNCHANGED <<up, cur, before>>

(* A failed read appends an error item and then, as every read, one that    *)
(* says Success: with no data.                                             *)
Refused == [code |-> "InvalidAddress", data |-> <<>>]
Read(data) == [code |-> "Success", data |-> data]

ReadItems(it) ==
  IF it.db \in DBs /\ it.off + it.len <= Len(file[it.db])
  THEN << Read(Slice(file[it.db], it.off, it.len)) >>
  ELSE << Refused, Read(<<>>) >>

GetItem(h) ==
  /\ ItemLeft(h) /\ h \in Readers
  /\ Len(Items(h)) > 0
  /\ Answer(h, ReadItems(Item(h)))
  /\ UNCHANGED <<up, file, pc, cur, before>>

AllHandled(h) == up /\ pc[h] = "next" /\ handled[h] = Len(Items(h))

(* The response list starts with Len - 1 nil pointers (events.go:34): a     *)
(* negative length panics there, nil items panic when they are packed.     *)
Panic(h) ==
  /\ AllHandled(h) /\ h \in Readers
  /\ Len(Items(h)) # 1
  /\ up' = FALSE
  /\ UNCHANGED <<file, pc, handled, cur, results, before>>

Reply(h) ==
  /\ AllHandled(h)
  /\ h \in Writers \/ Len(Items(h)) = 1
  /\ pc' = [pc EXCEPT ![h] = "replied"]
  /\ UNCHANGED <<up, file, handled, cur, results, before>>

Work(h) == Refuse(h) \/ Prepare(h) \/ Commit(h) \/ GetItem(h) \/ Panic(h) \/ Reply(h)

Next == \E h \in Handlers : Arrive(h) \/ Work(h)

Spec == Init /\ [][Next]_vars

(* While some goroutine can run, one does.  That is enough: a handler has    *)
(* only its items to go through, so none is for ever behind the others.    *)
FairSpec == Spec /\ WF_vars(\E h \in Handlers : Work(h))
-----------------------------------------------------------------------------
(* Types, and no file ever changes its size: the range check and the write  *)
(* it guards are two steps, between which other handlers write.            *)
TypeOK ==
  /\ up \in BOOLEAN
  /\ file \in Images
  /\ pc \in [Handlers -> {"unsent", "next", "write", "replied"}]
  /\ handled \in [Handlers -> Nat]
  /\ \A h \in Handlers :
       /\ handled[h] <= Len(Items(h))
       /\ pc[h] = "write" => h \in Writers /\ handled[h] < Len(Items(h))
  /\ cur \in [Handlers -> Byte]
  /\ before \in [Handlers -> SUBSET Writers]

Covers(it) == (it.off + 1) .. (it.off + Extent(it))

Overlap(it, jt) == it.db = jt.db /\ Covers(it) \cap Covers(jt) # {}

(* No other write item of any request touches a byte of this one. *)
Alone(h, j) ==
  \A g \in Writers : \A k \in DOMAIN Items(g) :
    Overlap(Items(h)[j], Items(g)[k]) => g = h /\ k = j

(* The byte at position i is what the item asked for. *)
Holds(it, i, byte) ==
  IF it.bit THEN (it.at \in byte) = (0 \in it.data[1]) ELSE byte = it.data[i - it.off]

Stored(h, j) == j <= Len(results[h]) /\ results[h][j] = "Success"

(* An item that was answered Success and shares no byte with another item   *)
(* is in the file, and stays there.                                        *)
AckedIsStored ==
  \A h \in Writers : \A j \in DOMAIN Items(h) :
    Stored(h, j) /\ Alone(h, j) =>
      LET it == Items(h)[j]
      IN  \A i \in Covers(it) : Holds(it, i, file[it.db][i])

(* The variables have their types and files their sizes; AckedIsStored.      *)
Inv == TypeOK /\ AckedIsStored

(* A ReadVar that arrives after the answer to a WriteVar returns what the   *)
(* WriteVar stored, whichever connections the two came over.               *)
ReadSeesAcked ==
  \A h \in Readers : handled[h] = 1 /\ Len(results[h]) = 1 =>
    LET rd == Items(h)[1]
    IN  \A g \in before[h] : \A j \in DOMAIN Items(g) :
          Stored(g, j) /\ Alone(g, j) /\ Items(g)[j].db = rd.db =>
            \A i \in Covers(Items(g)[j]) \cap ((rd.off + 1) .. (rd.off + rd.len)) :
              Holds(Items(g)[j], i, results[h][1].data[i - rd.off])

(* Every request that arrived is answered, unless the process ends first.    *)
EveryRequestAnswered ==
  <>[](~up \/ \A h \in Handlers : pc[h] \in {"unsent", "replied"})

Addressed(it) ==
  {<<it.db, i, b>> : i \in Covers(it), b \in IF it.bit THEN {it.at} ELSE Bit}

(* write_db_test.go:117 (TestSetDBValueBitPreservesSiblingBits): a bit      *)
(* write leaves the other bits of its byte as they are.                    *)
SiblingBitsPreserved ==
  [][\A h \in Writers : Commit(h) =>
       \A d \in DBs : \A i \in 1 .. Size[d] : \A b \in Bit :
         <<d, i, b>> \notin Addressed(Item(h)) => (b \in file'[d][i]) = (b \in file[d][i])]_vars

(* The files as DbStore sees them: one cell per bit.                        *)
Cells == UNION {{<<d, i, b>> : i \in 1 .. Size[d], b \in Bit} : d \in DBs}

CellValue == [c \in Cells |-> c[3] \in file[c[1]][c[2]]]

Accepted(h, j) == WriteCode(Items(h)[j], Size) = "Success"

Target(h, j) == IF Accepted(h, j) THEN Addressed(Items(h)[j]) ELSE {}

Value(h, j, c) ==
  LET it == Items(h)[j]
  IN  IF it.bit THEN 0 \in it.data[1] ELSE c[3] \in it.data[c[2] - it.off]

Count(h) == Len(Items(h))

Store == INSTANCE DbStore WITH
  store <- CellValue, handled <- [h \in Writers |-> handled[h]]

(* Requests that write to different bytes are handled as DbStore says.      *)
StoreContract == Store!Spec
=============================================================================
