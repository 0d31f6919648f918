------------------------------- MODULE MCDbFile ------------------------------
(* Requests for DbFile.  DB1.bin has two bytes, DB2.bin one; there is no    *)
(* DB9.bin.  A byte has two bits.                                          *)
EXTENDS DbFile

MCDBs == {1, 2}
MCBit == {0, 1}
MCSize == [d \in MCDBs |-> IF d = 1 THEN 2 ELSE 1]

SetBitItem(db, off, at, data) ==
  [area |-> TRUE, db |-> db, bit |-> TRUE, off |-> off, at |-> at, data |-> data]
BytesItem(db, off, data) ==
  [area |-> TRUE, db |-> db, bit |-> FALSE, off |-> off, at |-> 0, data |-> data]
OtherArea(it) == [it EXCEPT !.area = FALSE]
GetItemAt(db, off, len) == [db |-> db, off |-> off, len |-> len]

Write(items) == [func |-> "write", items |-> items]
Get(items) == [func |-> "read", items |-> items]

On == << {0} >>
Off == << {1} >>    \* only the lowest bit of the data counts

(* Writers on different bytes, one of which writes a byte twice, with items *)
(* of every kind that is refused among them; r1 reads what they write, r2   *)
(* ends the process.                                                       *)
Mixed ==
  [w1 |-> Write(<< SetBitItem(1, 0, 1, On), SetBitItem(1, 0, 0, Off),
                   BytesItem(2, 0, << {1}, {} >>) >>),
   w2 |-> Write(<< OtherArea(BytesItem(9, 0, << {1} >>)), SetBitItem(1, 1, 1, Off),
                   BytesItem(9, 0, << {} >>), SetBitItem(1, 0, 0, <<>>),
                   BytesItem(2, 0, << {1} >>) >>),
   r1 |-> Get(<< GetItemAt(1, 0, 2) >>),
   r2 |-> Get(<< GetItemAt(2, 0, 2), GetItemAt(2, 0, 1) >>)]

(* Two writers of sibling bits. *)
Siblings ==
  [w1 |-> Write(<< SetBitItem(2, 0, 0, On) >>),
   w2 |-> Write(<< SetBitItem(2, 0, 1, On) >>)]

MCHandlersMixed == DOMAIN Mixed
MCHandlersSiblings == DOMAIN Siblings
=============================================================================
