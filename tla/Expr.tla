------------------------------- MODULE Expr -------------------------------
(***************************************************************************)
(* The expressions of the debugger's commands p and x (sim/sdb/expr.cpp):  *)
(* the pass that tells dereferences from multiplications, and eval, which  *)
(* splits a range of tokens at the operator that binds least.  What an     *)
(* expression means is not read off another parser: the user builds it     *)
(* from its parts, and `value` is the value of the tree built.             *)
(***************************************************************************)
EXTENDS Integers, Sequences, FiniteSets

CONSTANTS
  Wide,          \* 2 ^ 64, the values of eval
  Size,          \* 2 ^ 32, those of word_t
  Atoms,         \* the numbers and registers of the run: <<type, value>>
  Ops,           \* the operators of the run
  MaxOps,        \* bound: operators of an expression
  AnyStar,       \* may stars stand where expr does not understand them?
  paddr_read(_)  \* a word of memory

VARIABLES
  tokens,  \* the expression, with dereferences where the user means them
  value,   \* value of the expression
  prec,    \* how tight its outermost operator binds
  ops,     \* operators in it
  equals   \* a comparison is in it

vars == <<tokens, value, prec, ops, equals>>

Tok(type) == [type |-> type, val |-> 0]

-----------------------------------------------------------------------------
(* expr.cpp *)

\* A star at the beginning or before a hexadecimal number
Deref(t) ==
  [i \in DOMAIN t |->
     IF t[i].type = "*" /\ (i = 1 \/ (i < Len(t) /\ t[i + 1].type = "hex"))
     THEN Tok("deref") ELSE t[i]]

\* Tokens p to i open this many parentheses more than they close.
Open(t, p, i) ==
  Cardinality({k \in p..i : t[k].type = "("}) - Cardinality({k \in p..i : t[k].type = ")"})

check_parentheses(t, p, q) ==
  /\ t[p].type = "(" /\ t[q].type = ")"
  /\ \A i \in p + 1..q - 1 : Open(t, p, i) > 0

Prio(type) ==
  CASE type \in {"==", "!="} -> 1 [] type \in {"+", "-"} -> 2 [] type \in {"*", "/"} -> 3
    [] type = "&&" -> 4 [] type = "reg" -> 5 [] type = "deref" -> 6 [] OTHER -> 100

\* Fault: of operators that bind alike the first is taken.
Split_First(t, p, q) ==
  LET outside == {i \in p..q : Open(t, p, i) = 0 /\ Prio(t[i].type) < 100}
      least == {i \in outside : \A j \in outside : Prio(t[i].type) <= Prio(t[j].type)}
  IN CHOOSE i \in least : \A j \in least : i <= j

\* The last of the operators outside parentheses that bind least; of
\* comparisons the first.
Split(t, p, q) ==
  LET outside == {i \in p..q : Open(t, p, i) = 0 /\ Prio(t[i].type) < 100}
      least == {i \in outside : \A j \in outside : Prio(t[i].type) <= Prio(t[j].type)}
      first == \E i \in least : Prio(t[i].type) = 1
  IN CHOOSE i \in least : \A j \in least : IF first THEN i <= j ELSE i >= j

\* assert(0)
Abort == -1

\* != and && have tokens but no case of the switch.
Apply(type, a, b) ==
  CASE a = Abort \/ b = Abort -> Abort
    [] type = "+" -> (a + b) % Wide
    [] type = "-" -> (a - b) % Wide
    [] type = "*" -> (a * b) % Wide
    [] type = "/" -> a \div b
    [] type = "==" -> IF a = b THEN 1 ELSE 0
    [] type = "deref" -> paddr_read(b % Size)
    [] OTHER -> Abort

\* The value of tokens p to q
eval(t) ==
  LET of[p \in 1..Len(t) + 1, q \in 0..Len(t)] ==
        IF p > q THEN 0
        ELSE IF p = q THEN IF t[p].type \in {"num", "hex", "reg"} THEN t[p].val ELSE Abort
        ELSE IF check_parentheses(t, p, q) THEN of[p + 1, q - 1]
        ELSE LET op == Split(t, p, q)
             IN Apply(t[op].type, of[p, op - 1], of[op + 1, q])
  IN of[1, Len(t)]

\* make_token knows one kind of star.
make_token(t) == [i \in DOMAIN t |-> IF t[i].type = "deref" THEN Tok("*") ELSE t[i]]

expr(t) == LET v == eval(Deref(make_token(t))) IN IF v = Abort THEN Abort ELSE v % Size

-----------------------------------------------------------------------------
(* The user.  A tree is written with parentheses where the usual precedence *)
(* and association to the left need them.                                   *)

Parens(t) == <<Tok("(")>> \o t \o <<Tok(")")>>
Tight == 4
Binds(op) == CASE op \in {"==", "!="} -> 1 [] op = "&&" -> 0 [] op \in {"+", "-"} -> 2 [] OTHER -> 3

\* What the operator means in C
Meaning(op, a, b) ==
  CASE op = "+" -> (a + b) % Wide
    [] op = "-" -> (a - b) % Wide
    [] op = "*" -> (a * b) % Wide
    [] op = "/" -> a \div b
    [] op = "==" -> IF a = b THEN 1 ELSE 0
    [] op = "!=" -> IF a # b THEN 1 ELSE 0
    [] op = "&&" -> IF a # 0 /\ b # 0 THEN 1 ELSE 0

Atom(a) == <<[type |-> a[1], val |-> a[2]]>>

Init ==
  \E a \in Atoms :
    /\ tokens = Atom(a) /\ value = a[2]
    /\ prec = Tight /\ ops = 0 /\ equals = FALSE

\* A dereference stands first, of anything but a register or a dereference, or
\* before a hexadecimal number; a multiplication does not stand before one.
Told(t) ==
  \A i \in DOMAIN t :
    /\ t[i].type = "deref" => IF i = 1 THEN t[2].type \notin {"reg", "deref"} ELSE t[i + 1].type = "hex"
    /\ t[i].type = "*" => t[i + 1].type # "hex"

\* Dividing by 0 is the host's exception: the user does not.
Grown(op, a, b) ==
  /\ ops < MaxOps /\ (op = "/" => b # 0)
  /\ op = "==" => ~equals
  /\ equals' = (equals \/ op = "==")
  /\ value' = Meaning(op, a, b) /\ prec' = Binds(op) /\ ops' = ops + 1
  /\ AnyStar \/ Told(tokens')

\* The expression becomes the left operand ...
AsLeft(op, a) ==
  /\ \E right \in {Atom(a), Parens(Atom(a))} :
       tokens' = (IF prec < Binds(op) THEN Parens(tokens) ELSE tokens) \o <<Tok(op)>> \o right
  /\ Grown(op, value, a[2])

\* ... or the right one,
AsRight(op, a) ==
  /\ tokens' = Atom(a) \o <<Tok(op)>> \o (IF prec <= Binds(op) THEN Parens(tokens) ELSE tokens)
  /\ Grown(op, a[2], value)

\* or the address of a word,
Load ==
  /\ ops < MaxOps
  /\ tokens' = <<Tok("deref")>> \o (IF prec < Tight THEN Parens(tokens) ELSE tokens)
  /\ value' = paddr_read(value % Size)
  /\ prec' = Tight /\ ops' = ops + 1 /\ UNCHANGED equals
  /\ AnyStar \/ Told(tokens')

\* or it is put in parentheses nobody needs.
Enclose ==
  /\ prec # Tight
  /\ tokens' = Parens(tokens) /\ prec' = Tight
  /\ AnyStar \/ Told(tokens')
  /\ UNCHANGED <<value, ops, equals>>

Next ==
  \/ \E op \in Ops, a \in Atoms : AsLeft(op, a) \/ AsRight(op, a)
  \/ Load \/ Enclose

Spec == Init /\ [][Next]_vars

-----------------------------------------------------------------------------
(* Properties *)

\* p prints the value of the expression the user meant: precedence, association
\* to the left, nested and redundant parentheses, and words of memory.
PrintsValue == expr(tokens) = value % Size
=============================================================================
