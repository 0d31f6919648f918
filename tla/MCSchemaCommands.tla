--------------------------- MODULE MCSchemaCommands ----------------------------
(* Schemas, commands and scripts for SchemaCommands.                          *)
EXTENDS SchemaCommands, TLC

At(db, area, byte, bit) == [db |-> db, area |-> area, byte |-> byte, bit |-> bit]
Type(n) == [name |-> n, max |-> 0]
True == <<116, 114, 117, 101>>
MCTruths == {<<49>>, <<116>>, <<84>>, True}

MCFloat32 == (0 :> <<0, 0, 0, 0>>) @@ (1 :> <<63, 128, 0, 0>>) @@ (-2 :> <<192, 0, 0, 0>>)

(* 7.0385307e-26, which a file that unpack writes has as 7.038531e-26.        *)
FaintBits == <<21, 174, 67, 253>>
MCReparsed == FaintBits :> <<21, 174, 67, 254>>

Start == PlainTag(At(1, "DBX", 0, 0), Type("BOOL"), "Start", Text(True))
ShortBit == PlainTag(At(Absent, "X", 0, 1), Type("BOOL"), "Lamp", Bool(TRUE))
ShortWord == PlainTag(At(Absent, "W", 0, Absent), Type("INT"), "Short", Number(3))
Level == PlainTag(At(1, "DBW", 0, Absent), Type("INT"), "Level", Number(-5))
Count == PlainTag(At(1, "DBB", 1, Absent), Type("BYTE"), "Count", Number(200))
Small == PlainTag(At(1, "DBB", 1, Absent), Type("SINT"), "Small", Number(-3))
Askew == PlainTag(At(1, "DBX", 0, 3), Type("SINT"), "Askew", Number(1))
Recipe == PlainTag(At(1, "S", 2, 3), Type("STRING"), "Recipe", Text(<<97, 98>>))
Batch == PlainTag(At(1, "DBB", 2, Absent), [name |-> "STRING[]", max |-> 2], "Batch", Number(12))
Delay == PlainTag(At(1, "DBD", 2, Absent), Type("TIME"), "Delay", Number(-1))
Speed == PlainTag(At(1, "DBD", 2, Absent), Type("REAL"), "Speed", Text(<<45, 50>>))
Still == PlainTag(At(1, "DBD", 2, Absent), Type("REAL"), "Still", Text(<<45, 48>>))
Faint == PlainTag(At(1, "DBD", 2, Absent), Type("REAL"), "Faint", Value("float", 0, FaintBits))
Flags == PlainTag(At(1, "DBD", 2, Absent), Type("DWORD"), "", Number(-2))
Beyond == PlainTag(At(1, "S", 2, 12), Type("BOOL"), "Beyond", Bool(TRUE))
Elsewhere == PlainTag(At(2, "DBW", 0, Absent), Type("UINT"), "Level", Text(<<55>>))
Unread == PlainTag(At(1, "Q", 0, Absent), Type("BOOL"), "Unread", Nil)
Beat == [Start EXCEPT !.name = "Beat", !.addr.bit = 5, !.heartbeat = "slow"]
Odd == [Level EXCEPT !.role = "spare", !.ui = "contradictory"]

Some == {Start, ShortBit, Level, Count, Small, Askew, Recipe, Batch, Delay, Speed, Still, Faint, Flags,
         Beyond}
Others == {ShortWord, Elsewhere, Unread, Beat, Odd}

Schema(db, endian, size, tags) == [db |-> db, endian |-> endian, size |-> size, tags |-> tags]
MCHandWritten ==
  {Schema(1, "big", AutoSize, <<t, u>>) : t \in {Start, ShortBit, Level, Count, Small, Askew}, u \in Some}
  \cup {Schema(0, "little", 0, <<t>>) : t \in Others \cup {Level, Delay}}
  \cup {Schema(1, "little", 8, <<Level, u>>) : u \in {Recipe, Delay, Beat, Odd}}
  \cup {Schema(1, "middle", 2, <<Level>>)}

MCExternals == {Schema(1, "big", AutoSize, <<[Level EXCEPT !.init = Number(7)], Start>>),
                Schema(0, "little", 4, <<ShortWord>>)}
MCAdditions == {<<ShortBit>>, <<ShortWord>>, <<Level, Level>>}
MCChanges == {[name |-> "", init |-> Text(<<49>>), type |-> NoType],
              [name |-> "Speed", init |-> Nil, type |-> Type("WORD")]}
MCKeys == {[name |-> "Level", addr |-> At(Absent, "?", 0, Absent)],
           [name |-> "?", addr |-> At(Absent, "X", 0, 1)]}

Lit(t) == [op |-> "lit", type |-> t, name |-> "", left |-> 0, right |-> 0]
Name(n) == [op |-> "name", type |-> "BOOL", name |-> n, left |-> 0, right |-> 0]
Op(o, l, r) == [op |-> o, type |-> "BOOL", name |-> "", left |-> l, right |-> r]
St(op, n, e) == [op |-> op, name |-> n, expr |-> e, width |-> 2]

(* if Level < Level / 0 or not the same as Start ... pulse Start;            *)
Compare == [exprs |-> <<Name("Level"), Name("Start"), Op("<", 1, 1), Op("==", 2, 3),
                        Op("or", 4, 2), Lit("INT"), Op("/", 1, 6), Op("<", 7, 1)>>,
            vars |-> <<>>,
            stmts |-> {St("condition", "", 5), St("assign", "Level", 7),
                       St("pulse", "Start", 0), St("edge", "Start", 0)}]
(* var Speed : REAL := ...; Speed := Speed + 1; tick compared with Delay     *)
Declare == [exprs |-> <<Lit("INT"), Name("Total"), Op("+", 2, 1), Name("tick"), Op("neg", 4, 0),
                        Name("Delay"), Op("<", 5, 6)>>,
            vars |-> <<[name |-> "Total", type |-> "REAL", max |-> 0, init |-> 1]>>,
            stmts |-> {St("assign", "Total", 3), St("condition", "", 7)}]
(* if Recipe < Recipe, if "a" == Recipe                                      *)
Texts(op) == [exprs |-> <<Name("Recipe"), Lit("STRING"), Op(op, 1, 2)>>, vars |-> <<>>,
              stmts |-> {St("condition", "", 3), St("assign", "Recipe", 2)}]
Long == [exprs |-> <<[Lit("INT") EXCEPT !.op = "overlong"]>>,
         vars |-> <<[name |-> "Total", type |-> "DINT", max |-> 0, init |-> 0]>>,
         stmts |-> {St("assign", "Total", 1)}]
(* if ? == ?                                                                 *)
Unnamed == [exprs |-> <<Name("?"), Op("==", 1, 1)>>, vars |-> <<>>,
            stmts |-> {St("condition", "", 2)}]
MCScripts == {Compare, Declare, Texts("=="), Texts("<"), Long, Unnamed}

MCDBFlags == {Absent, 1}
MCSizes == {AutoSize, 4}
================================================================================
