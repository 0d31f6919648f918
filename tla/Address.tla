------------------------------- MODULE Address -------------------------------
(***************************************************************************)
(* Addresses of tags as they are written and as they are read:             *)
(* address.Parse and Canonical, and the second reading that `s7db check`   *)
(* gives to what Parse refuses.                                            *)
(* (internal/address/address.go, layout.parseAddressForCheck)              *)
(*                                                                         *)
(* A written address is a record of its parts, DB<db>.<area><byte>.<bit>,  *)
(* of which db and bit may be Absent.  Letters are in upper case.  "Q"      *)
(* stands for the areas only `s7db check` reads, "?" for what nothing does.  *)
(***************************************************************************)
EXTENDS Integers

Absent == -1

StringAreas == {"S", "STRING", "DBS"}
BitAreas == {"X", "DBX"}
FullAreas == StringAreas \cup {"DBX", "DBB", "DBW", "DBD"}
ShortAreas == {"S", "STRING", "X", "B", "W", "D"}
Areas == FullAreas \cup ShortAreas

Optional == Nat \cup {Absent}
Written == [db : Optional, area : Areas \cup {"Q", "?"}, byte : Nat, bit : Optional]
Address == [db : Nat, area : Areas, byte : Nat, bit : Nat]

(* fromParts: a string area has its length for a bit, X has a bit, nothing   *)
(* else has one.                                                           *)
BitFits(w) ==
  CASE w.area \in StringAreas -> w.bit \in 0 .. 254
    [] w.area \in BitAreas -> w.bit \in 0 .. 7
    [] OTHER -> w.bit = Absent

(* Parse returns no error; `db` is defaultDB.                               *)
Parses(w, db) ==
  /\ \/ w.db # Absent /\ w.area \in FullAreas
     \/ w.db = Absent /\ w.area \in ShortAreas /\ db # Absent
  /\ BitFits(w)

(* What Parse, and parseAddressForCheck where Parse fails, make of the parts *)
Parsed(w, db) ==
  [db |-> IF w.db = Absent THEN db ELSE w.db, area |-> w.area, byte |-> w.byte,
   bit |-> IF w.bit = Absent THEN 0 ELSE w.bit]

Canonical(a) ==
  [db |-> a.db, area |-> IF a.area \in BitAreas THEN "DBX" ELSE a.area, byte |-> a.byte,
   bit |-> IF a.area \in BitAreas \cup StringAreas THEN a.bit ELSE Absent]

StartBit(a) == IF a.area \in StringAreas THEN 8 * a.byte ELSE 8 * a.byte + a.bit

(* parseAddressForCheck takes every area that looks like one, with any bit.  *)
ParsesForCheck(w) == w.area # "?"
==============================================================================
