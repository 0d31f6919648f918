-------------------------------- MODULE Layout --------------------------------
(***************************************************************************)
(* Where the tags of a schema lie: layout.Build, which pack, unpack, list, *)
(* info and check go through, and layout.AddressOutOfRange, with which     *)
(* check begins.  (internal/layout/layout.go)                              *)
(*                                                                         *)
(* A schema is [db, endian, size, tags].  A tag's address is a Written     *)
(* record, its type [name, max] with max for STRING[max] alone, which has  *)
(* the name "STRING[]"; any name not below is one of no type.              *)
(***************************************************************************)
EXTENDS Address, Sequences, FiniteSetsExt

AutoSize == -1

ByteTypes == {"BYTE", "CHAR", "SINT", "USINT"}
WordTypes == {"INT", "UINT", "WORD"}
DwordTypes == {"DINT", "UDINT", "DWORD", "REAL", "TIME"}
StringTypes == {"STRING", "STRING[]"}

TagsOf(s) == {s.tags[i] : i \in 1 .. Len(s.tags)}

(* Mutated forms of definitions below, named for the slip each makes.        *)
OverlapByStart(s) ==
  \A i, j \in 1 .. Len(s.tags) : i # j =>
    StartBit(Parsed(s.tags[i].addr, s.db)) # StartBit(Parsed(s.tags[j].addr, s.db))

(* ParseType: a STRING has the length its own address says.                  *)
StringLen(t) == IF t.type.name = "STRING" THEN Parsed(t.addr, Absent).bit ELSE t.type.max

TypeParses(t) ==
  \/ t.type.name \in {"BOOL"} \cup ByteTypes \cup WordTypes \cup DwordTypes
  \/ t.type.name = "STRING" /\ Parses(t.addr, Absent) /\ StringLen(t) \in 1 .. 254
  \/ t.type.name = "STRING[]" /\ StringLen(t) \in 1 .. 254

SizeBytes(t) ==
  CASE t.type.name \in {"BOOL"} \cup ByteTypes -> 1
    [] t.type.name \in WordTypes -> 2
    [] t.type.name \in DwordTypes -> 4
    [] OTHER -> StringLen(t) + 2

BitSize(t) == IF t.type.name = "BOOL" THEN 1 ELSE 8 * SizeBytes(t)

ExpectedArea(area, type) ==
  CASE type = "BOOL" -> area \in BitAreas
    [] type \in {"CHAR", "BYTE", "STRING[]"} -> area \in {"DBB", "DBW", "DBD"}
    [] type \in WordTypes -> area = "DBW"
    [] type \in DwordTypes -> area = "DBD"
    [] type = "STRING" -> area \in {"S", "STRING"}
    [] OTHER -> TRUE

TagStart(s, t) == StartBit(Parsed(t.addr, s.db))
TagEnd(s, t) == TagStart(s, t) + BitSize(t)

(* The bits marked in `seen`; they are counted from the tag's start bit,     *)
(* and without its data block.                                             *)
NoOverlap(s) ==
  \A i, j \in 1 .. Len(s.tags) :
    i < j => \/ TagEnd(s, s.tags[i]) <= TagStart(s, s.tags[j])
             \/ TagEnd(s, s.tags[j]) <= TagStart(s, s.tags[i])

BytesFor(bits) == (bits + 7) \div 8
ComputedSize(s) == BytesFor(Max({0} \cup {TagEnd(s, t) : t \in TagsOf(s)}))
FinalSize(s) == IF s.size = AutoSize THEN ComputedSize(s) ELSE s.size

LayoutDiagnosed(s, t) ==
  LET a == Parsed(t.addr, s.db) IN Canonical(a) # t.addr \/ ~ExpectedArea(a.area, t.type.name)

(* Build returns no error.                                                 *)
Builds(s, strict) ==
  /\ \A t \in TagsOf(s) :
       /\ Parses(t.addr, s.db)
       /\ TypeParses(t)
       /\ strict => ~LayoutDiagnosed(s, t)
  /\ NoOverlap(s)
  /\ s.size # AutoSize => s.size >= ComputedSize(s)

----------------------------------------------------------------------------
(* AddressOutOfRange *)

InThisDB(s, t) == s.db = 0 \/ Parsed(t.addr, s.db).db = s.db

(* The size the test uses: of the tags it could read, when it is automatic.  *)
CheckedSize(s) ==
  IF s.size # AutoSize THEN s.size
  ELSE BytesFor(Max({0} \cup {TagEnd(s, t) : t \in
         {u \in TagsOf(s) : ParsesForCheck(u.addr) /\ InThisDB(s, u) /\ TypeParses(u)}}))

Misplaced(s, t) ==
  LET a == Parsed(t.addr, s.db) IN
  \/ a.area \in BitAreas /\ t.type.name # "BOOL"
  \/ a.area \in {"DBW", "W"} /\ t.type.name = "BOOL"

TooFar(s, t) == Parsed(t.addr, s.db).byte + SizeBytes(t) > CheckedSize(s)

OutOfRange(s, t) ==
  LET a == Parsed(t.addr, s.db) IN
  \/ ~ParsesForCheck(t.addr)
  \/ ~InThisDB(s, t)
  \/ a.area \in BitAreas /\ a.bit \notin 0 .. 7
  \/ TypeParses(t) /\ (Misplaced(s, t) \/ TooFar(s, t))

AddressOutOfRange(s) == {t \in TagsOf(s) : OutOfRange(s, t)}
==============================================================================
