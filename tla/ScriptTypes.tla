----------------------------- MODULE ScriptTypes ------------------------------
(***************************************************************************)
(* The type checker of s7sim scripts and what it promises the Runner:      *)
(* simlang.Compile after parsing, against the evaluator it speaks for.     *)
(* (internal/simlang/compile.go; internal/sim/runner.go, eval_helpers.go   *)
(* and image.go)                                                           *)
(*                                                                         *)
(* A script is [exprs, vars, stmts].  Its expressions are one sequence in  *)
(* which an operator names its operands, which come before it:             *)
(* [op, type, name, left, right], where op is an operator, "neg", "lit"    *)
(* (with a type), "name", or "overlong" for an integer literal that 64     *)
(* bits do not hold.  A variable is [name, type, max, init] with init 0    *)
(* when it has none; a statement [op, name, expr, width], wherever it is   *)
(* nested: the checker goes through all, a run through some.               *)
(***************************************************************************)
EXTENDS Integers, Sequences

Types == {"BOOL", "INT", "REAL", "TIME", "STRING"}
Operators == {"or", "and", "==", "<", "+", "*", "/"}   \* "==" with "!=", "<" with "<=", ">", ">=", "+" with "-"

(* The dynamic type the evaluator keeps for a value of each type.            *)
KindOf == [t \in Types |->
  CASE t = "BOOL" -> "bool" [] t = "INT" -> "int64" [] t = "REAL" -> "float64"
    [] t = "TIME" -> "duration" [] t = "STRING" -> "string"]
Kinds == {"bool", "int64", "float64", "duration", "string"}
Faults == {"division by zero", "failure"}

(* What the parser makes: operands come before their operator.               *)
IsScript(sc) ==
  /\ Len(sc.exprs) \in Nat /\ Len(sc.vars) \in Nat
  /\ \A i \in 1 .. Len(sc.exprs) :
       LET e == sc.exprs[i] IN
       \/ e.op = "lit" /\ e.type \in Types
       \/ e.op \in {"overlong", "name"}
       \/ e.op = "neg" /\ e.left \in 1 .. i - 1
       \/ e.op \in Operators /\ {e.left, e.right} \subseteq 1 .. i - 1
  /\ \A st \in sc.stmts : st.op \in {"condition", "assign"} => st.expr \in 1 .. Len(sc.exprs)

Numeric == {"INT", "REAL"}
Wider(l, r) == IF "REAL" \in {l, r} THEN "REAL" ELSE "INT"

(* Mutated forms of definitions below, named for the slip each makes.        *)
InferWithoutStringTest(op, l, r) ==
  CASE op \in {"or", "and"} -> IF l = "BOOL" /\ r = "BOOL" THEN "BOOL" ELSE "error"
    [] op \in {"==", "<"} -> IF l = r \/ {l, r} \subseteq Numeric THEN "BOOL" ELSE "error"
    [] OTHER -> IF {l, r} \subseteq Numeric THEN Wider(l, r) ELSE IF l = r THEN l ELSE "error"

(* inferOr, inferAnd, inferCompare, inferAdd, inferMul                       *)
Infer(op, l, r) ==
  CASE op \in {"or", "and"} -> IF l = "BOOL" /\ r = "BOOL" THEN "BOOL" ELSE "error"
    [] op = "==" -> IF l = r \/ {l, r} \subseteq Numeric THEN "BOOL" ELSE "error"
    [] op = "<" -> IF {l, r} \subseteq Numeric \/ (l = "TIME" /\ r = "TIME") THEN "BOOL"
                   ELSE "error"
    [] op = "+" -> IF {l, r} \subseteq Numeric THEN Wider(l, r)
                   ELSE IF l = "TIME" /\ r = "TIME" THEN "TIME" ELSE "error"
    [] OTHER -> IF {l, r} \subseteq Numeric THEN Wider(l, r) ELSE "error"

(* inferUnary *)
InferNeg(t) == IF t \in {"INT", "REAL", "TIME"} THEN t ELSE "error"

----------------------------------------------------------------------------
(* The evaluator: the kinds a result may have, and the faults.               *)

Floats == {"int64", "float64", "string"}   \* asNumeric; a string that parses
IfParses(kinds, result) == {result} \cup (IF "string" \in kinds THEN {"failure"} ELSE {})

Logic(l, r) == IF l = "bool" /\ r = "bool" THEN {"bool"} ELSE {"failure"}

Compared(ordering, l, r) ==
  IF l \in {"string", "bool"}
    THEN IF r = l /\ ~ordering THEN {"bool"} ELSE {"failure"}
  ELSE IF {l, r} \subseteq Floats THEN IfParses({l, r}, "bool")
  ELSE IF l = "duration" /\ r = "duration" THEN {"bool"} ELSE {"failure"}

Arithmetic(l, r) ==
  IF l = "int64" /\ r = "int64" THEN {"int64"}
  ELSE IF {l, r} \subseteq Floats THEN IfParses({l, r}, "float64") ELSE {"failure"}

AddSub(l, r) ==
  IF l = "duration" THEN IF r = "duration" THEN {"duration"} ELSE {"failure"}
  ELSE Arithmetic(l, r)

Result(op, l, r) ==
  CASE op \in {"or", "and"} -> Logic(l, r)
    [] op = "==" -> Compared(FALSE, l, r)
    [] op = "<" -> Compared(TRUE, l, r)
    [] op = "+" -> AddSub(l, r)
    [] op = "*" -> Arithmetic(l, r)
    [] OTHER -> Arithmetic(l, r) \cup {"division by zero"}

Negated(k) == IF k \in {"int64", "float64", "duration"} THEN {k} ELSE {"failure"}

(* coerceValue: what Image.Set makes of a value; a conversion may fail.      *)
Coerced(t, k) ==
  CASE t = "BOOL" -> IF k \in {"bool", "int64", "float64"} THEN {"bool"}
                     ELSE IF k = "string" THEN {"bool", "failure"} ELSE {"failure"}
    [] t = "INT" -> IF k \in {"int64", "float64"} THEN {"int64"}
                    ELSE IF k = "string" THEN {"int64", "failure"} ELSE {"failure"}
    [] t = "REAL" -> IF k \in {"int64", "float64"} THEN {"float64"}
                     ELSE IF k = "string" THEN {"float64", "failure"} ELSE {"failure"}
    [] t = "TIME" -> IF k \in {"int64", "float64", "duration"} THEN {"duration"}
                     ELSE IF k = "string" THEN {"duration", "failure"} ELSE {"failure"}
    [] OTHER -> {"string"}

----------------------------------------------------------------------------
(* Symbols: name -> [type, tag, role], from a function of the schema's names *)
(* to types and roles, and from the declarations.                            *)

(* typeFromSchema; a STRING without a length has 254.                        *)
TypeFromSchema(type) ==
  CASE type.name = "BOOL" -> "BOOL"
    [] type.name \in {"INT", "DINT", "UINT", "WORD", "DWORD", "BYTE", "SINT", "USINT", "UDINT"} -> "INT"
    [] type.name \in {"REAL", "TIME", "STRING"} -> type.name
    [] type.name = "STRING[]" /\ type.max \in 1 .. 254 -> "STRING"
    [] OTHER -> "none"

(* typeFromDecl                                                              *)
TypeFromDecl(v) ==
  CASE v.type \in {"BOOL", "REAL", "TIME"} -> v.type
    [] v.type \in {"INT", "DINT", "UINT", "WORD", "DWORD"} -> "INT"
    [] v.type = "STRING" /\ v.max \in 1 .. 254 -> "STRING"
    [] OTHER -> "none"

Named(tags) == {i \in 1 .. Len(tags) : tags[i].name # "" /\ TypeFromSchema(tags[i].type) # "none"}
LastNamed(tags, n) == CHOOSE i \in Named(tags) : tags[i].name = n /\
                        \A j \in Named(tags) : tags[j].name = n => j <= i
TagNames(tags) == {tags[i].name : i \in Named(tags)}

(* The builtin tick comes first; a tag of that name replaces it.             *)
TagSymbols(tags) ==
  [n \in {"tick"} \cup TagNames(tags) |->
     IF n \in TagNames(tags)
       THEN LET t == tags[LastNamed(tags, n)]
            IN  [type |-> TypeFromSchema(t.type), role |-> t.role, builtin |-> FALSE]
       ELSE [type |-> "TIME", role |-> "", builtin |-> TRUE]]

(* The symbols when i variables are declared.                                *)
SymbolsAfter(sc, tags) ==
  LET after[i \in 0 .. Len(sc.vars)] ==
        IF i = 0 THEN TagSymbols(tags)
        ELSE LET v == sc.vars[i] IN
             [n \in DOMAIN after[i - 1] \cup {v.name} |->
                IF n = v.name /\ n \notin DOMAIN after[i - 1]
                  THEN [type |-> TypeFromDecl(v), role |-> "", builtin |-> FALSE]
                  ELSE after[i - 1][n]]
  IN  after

----------------------------------------------------------------------------
(* Types and outcomes of a script's expressions *)

TypesIn(sc, sy) ==
  LET type[i \in 1 .. Len(sc.exprs)] ==
        LET e == sc.exprs[i] IN
        CASE e.op = "lit" -> e.type
          [] e.op = "overlong" -> "INT"
          [] e.op = "name" -> IF e.name \in DOMAIN sy THEN sy[e.name].type ELSE "error"
          [] e.op = "neg" -> InferNeg(type[e.left])
          [] OTHER -> IF "error" \in {type[e.left], type[e.right]} THEN "error"
                      ELSE Infer(e.op, type[e.left], type[e.right])
  IN  type

(* or and and do not evaluate what does not matter.                          *)
OutcomesIn(sc, sy) ==
  LET of[i \in 1 .. Len(sc.exprs)] ==
        LET e == sc.exprs[i] IN
        CASE e.op = "lit" -> {KindOf[e.type]}
          [] e.op = "overlong" -> {"failure"}
          [] e.op = "name" -> IF e.name \in DOMAIN sy THEN {KindOf[sy[e.name].type]} ELSE {"failure"}
          [] e.op = "neg" -> (of[e.left] \cap Faults) \cup UNION {Negated(k) : k \in of[e.left] \ Faults}
          [] OTHER ->
               ((of[e.left] \cup of[e.right]) \cap Faults)
               \cup UNION {Result(e.op, l, r) : l \in of[e.left] \ Faults, r \in of[e.right] \ Faults}
  IN  of

Assignable(dst, type) == dst = type \/ (dst = "REAL" /\ type = "INT")

(* typeFromDecl fails, the name is taken, or the initial value does not fit. *)
DeclarationOK(sc, tags, i) ==
  LET v == sc.vars[i]
      before == SymbolsAfter(sc, tags)[i - 1]
  IN  /\ TypeFromDecl(v) # "none"
      /\ v.name \notin DOMAIN before
      /\ v.init # 0 => Assignable(TypeFromDecl(v), TypesIn(sc, SymbolsAfter(sc, tags)[i])[v.init])

(* checkStmt, checkAssign, checkPulse                                        *)
StatementOK(st, sy, types) ==
  CASE st.op = "condition" -> types[st.expr] = "BOOL"
    [] st.op = "assign" -> /\ st.name \in DOMAIN sy
                           /\ ~sy[st.name].builtin
                           /\ Assignable(sy[st.name].type, types[st.expr])
    [] st.op = "edge" -> st.name \in DOMAIN sy /\ sy[st.name].type = "BOOL"
    [] OTHER -> /\ st.name \in DOMAIN sy
                /\ sy[st.name].role # "heartbeat"
                /\ sy[st.name].type = "BOOL"
                /\ st.width >= 1

Symbols(sc, tags) == SymbolsAfter(sc, tags)[Len(sc.vars)]

Compiles(sc, tags) ==
  /\ \A i \in 1 .. Len(sc.vars) : DeclarationOK(sc, tags, i)
  /\ \A st \in sc.stmts : StatementOK(st, Symbols(sc, tags), TypesIn(sc, Symbols(sc, tags)))

(* execStmt, execAssign, evalOn, execPulse: what executing it may come to.   *)
Outcome(st, sy, of) ==
  CASE st.op = "condition" -> (of[st.expr] \cap Faults) \cup
                              (IF of[st.expr] \subseteq Faults \cup {"bool"} THEN {"done"} ELSE {"failure"})
    [] st.op = "assign" -> LET coerced == UNION {Coerced(sy[st.name].type, k) : k \in of[st.expr] \ Faults}
                           IN  {"done"} \cup (of[st.expr] \cap Faults) \cup (coerced \cap Faults)
    [] st.op = "edge" -> IF sy[st.name].type = "BOOL" THEN {"done"} ELSE {"failure"}
    [] OTHER -> {"done"} \cup (Coerced(sy[st.name].type, "bool") \cap Faults)

Outcomes(sc, tags) ==
  UNION {Outcome(st, Symbols(sc, tags), OutcomesIn(sc, Symbols(sc, tags))) : st \in sc.stmts}

LiteralsFit(sc) == \A i \in 1 .. Len(sc.exprs) : sc.exprs[i].op # "overlong"
==============================================================================
