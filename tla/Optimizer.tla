----------------------------- MODULE Optimizer -----------------------------
(***************************************************************************)
(* The middle of the contract compiler: a function is lowered, statement   *)
(* by statement, to basic blocks of register instructions, optimize() folds *)
(* constants and drops dead code, and the result must run like the function *)
(* as it was lowered.                                                      *)
(*                                                                         *)
(* Lowering is the state machine: each action lowers one statement, with   *)
(* an expression over the locals in scope.  Expressions take a new         *)
(* register; assigning to a local copies into the register of the local    *)
(* (Cast), so registers are not assigned once.  The three passes are       *)
(* operators.  Integers of a contract are 64-bit and trap (0..MAX_NARROW   *)
(* here), while the folder computes on 256 bits (0..MAX_WIDE).             *)
(***************************************************************************)
EXTENDS Integers, SequencesExt

CONSTANTS
    Literals,    \* the integer literals of the source
    Args,        \* the values of the parameter, register 0
    Operators,   \* the arithmetic operators of the source
    MAX_NARROW, MAX_WIDE,
    MaxStatements, \* statements before the last return, conditionals apart
    MaxNested,   \* conditionals and loops
    Fuel         \* instructions a run may take

ASSUME OptimizerAssumption ==
    /\ Literals \cup Args \subseteq 0..MAX_NARROW
    /\ MAX_NARROW \in Nat /\ MAX_WIDE \in Nat /\ MAX_NARROW <= MAX_WIDE
    /\ Operators \subseteq {"Add", "Sub", "Div"}

VARIABLES
    lowered,   \* the blocks as lowered: a sequence of [label, code]
    optimized, \* the blocks after optimize(), <<>> before
    scope,     \* the type of every register in scope
    open,      \* the enclosing conditionals and loops, innermost last
    fresh      \* the next register and label, the statements lowered so far

opt_vars == <<lowered, optimized, scope, open, fresh>>

None == -1

Inst(op, dst, fn, src, val, to) ==
    [op |-> op, dst |-> dst, fn |-> fn, src |-> src, val |-> val, to |-> to]

Const(dst, type, v) == Inst("Const", dst, type, <<>>, v, <<>>)
Cast(dst, src) == Inst("Cast", dst, "copy", <<src>>, None, <<>>)
Jump(l) == Inst("Jump", None, "always", <<>>, None, <<l>>)
Branch(c, t, e) == Inst("Branch", None, "if", <<c>>, None, <<t, e>>)
Ret(src) == Inst("Return", None, "return", src, None, <<>>)

------------------------------------------------------------------------------
(***************************************************************************)
(* Constant folding, block by block, with the constants known so far.       *)
(* Booleans are 0 and 1, told apart from integers by their type.            *)
(***************************************************************************)
fold_binop(op, l, r) ==
    CASE op = "Add" -> IF l + r <= MAX_WIDE THEN l + r ELSE None
      [] op = "Sub" -> IF l >= r THEN l - r ELSE None
      [] op = "Div" -> IF r # 0 THEN l \div r ELSE None
      [] OTHER      -> None

Known(known, type, src) ==
    \A i \in DOMAIN src : src[i] \in DOMAIN known /\ known[src[i]].type = type

\* The constant an instruction computes, or None.
Folded(known, i) ==
    LET v(n) == known[i.src[n]].val
    IN  CASE i.op = "BinOp" /\ i.fn # "LogicalAnd" /\ Known(known, "int", i.src) ->
               fold_binop(i.fn, v(1), v(2))
          [] i.op = "BinOp" /\ i.fn = "LogicalAnd" /\ Known(known, "bool", i.src) -> v(1) * v(2)
          [] i.op = "Cmp" /\ Known(known, "int", i.src) -> IF v(1) < v(2) THEN 1 ELSE 0
          [] i.op = "UnOp" /\ Known(known, "bool", i.src) -> 1 - v(1)
          [] OTHER -> None

ResultType(i) == IF i.op \in {"Cmp", "UnOp"} \/ i.fn = "LogicalAnd" THEN "bool" ELSE "int"

FoldInst(known, i) ==
    LET c == Folded(known, i)
    IN  CASE c # None -> Const(i.dst, ResultType(i), c)
          [] i.op = "Branch" /\ Known(known, "bool", i.src) ->
               Jump(i.to[2 - known[i.src[1]].val])
          [] OTHER -> i

Learn(known, i) ==
    IF i.op = "Const" THEN (i.dst :> [type |-> i.fn, val |-> i.val]) @@ known ELSE known

NoConstants == [r \in {} |-> 0]

FoldBlock(known, code) ==
    FoldLeft(LAMBDA acc, i : LET o == FoldInst(acc.known, i)
                             IN  [known |-> Learn(acc.known, o), code |-> Append(acc.code, o)],
             [known |-> known, code |-> <<>>], code)

\* A folder that carries what it knows from block to block.
constant_fold_carries(blocks) ==
    FoldLeft(LAMBDA acc, b : LET o == FoldBlock(acc.known, b.code)
                             IN  [known |-> o.known,
                                  blocks |-> Append(acc.blocks, [b EXCEPT !.code = o.code])],
             [known |-> NoConstants, blocks |-> <<>>], blocks).blocks

constant_fold(blocks) ==
    [n \in DOMAIN blocks |-> [blocks[n] EXCEPT !.code = FoldBlock(NoConstants, @).code]]

------------------------------------------------------------------------------
(***************************************************************************)
(* Dead code, then instructions whose result nobody reads.                 *)
(***************************************************************************)
Successors(blocks, l) ==
    UNION {UNION {ToSet(i.to) : i \in ToSet(b.code)} : b \in {c \in ToSet(blocks) : c.label = l}}

find_reachable_blocks(blocks) ==
    LET reach[n \in 0..Len(blocks)] ==
            IF n = 0 THEN {blocks[1].label}
            ELSE reach[n - 1] \cup UNION {Successors(blocks, l) : l \in reach[n - 1]}
    IN  reach[Len(blocks)]

is_terminator(i) == i.op \in {"Return", "Jump", "Branch", "Revert"}

Truncated(code) ==
    LET ends == {n \in DOMAIN code : is_terminator(code[n])}
    IN  IF ends = {} THEN code ELSE SubSeq(code, 1, CHOOSE n \in ends : \A m \in ends : n <= m)

dead_code_eliminate(blocks) ==
    LET reachable == find_reachable_blocks(blocks)
        kept == SelectSeq(blocks, LAMBDA b : b.label \in reachable)
    IN  [n \in DOMAIN kept |-> [kept[n] EXCEPT !.code = Truncated(@)]]

collect_used_regs(blocks) ==
    UNION {UNION {ToSet(i.src) : i \in ToSet(b.code)} : b \in ToSet(blocks)}

has_side_effects(i) ==
    i.op \in {"StorageSet", "Call", "Revert", "Jump", "Branch", "Return"}

eliminate_unused_registers(blocks) ==
    LET used == collect_used_regs(blocks)
        needed(i) == i.dst = None \/ i.dst \in used \/ has_side_effects(i)
    IN  [n \in DOMAIN blocks |-> [blocks[n] EXCEPT !.code = SelectSeq(@, needed)]]

optimize(blocks) == eliminate_unused_registers(dead_code_eliminate(constant_fold(blocks)))

------------------------------------------------------------------------------
(***************************************************************************)
(* Lowering.  A local is the register it was declared with.                *)
(***************************************************************************)
Emit(blocks, i) == [blocks EXCEPT ![Len(blocks)].code = Append(@, i)]
PushBlock(blocks, l) == Append(blocks, [label |-> l, code |-> <<>>])

Of(type) == {r \in DOMAIN scope : scope[r] = type}

\* The expressions over the locals in scope, as the instruction that computes
\* them into register dst.
Conditions(dst) ==
    {Inst("Cmp", dst, "Lt", <<l, r>>, None, <<>>) : l, r \in Of("int")}
      \cup {Inst("UnOp", dst, "LogicalNot", <<r>>, None, <<>>) : r \in Of("bool")}
      \cup {Inst("BinOp", dst, "LogicalAnd", <<l, r>>, None, <<>>) : l, r \in Of("bool")}

Integral(dst) ==
    {Const(dst, "int", v) : v \in Literals}
      \cup {Inst("BinOp", dst, op, <<l, r>>, None, <<>>) : op \in Operators, l, r \in Of("int")}
      \cup {Inst("StorageGet", dst, "load", <<>>, None, <<>>)}
      \cup {Inst("Call", dst, "call", <<r>>, None, <<>>) : r \in Of("int")}

Expressions == Conditions(fresh.reg) \cup Integral(fresh.reg)

\* A local as an expression is its register, without an instruction.
Locals(type) == {Inst("Local", r, "local", <<>>, None, <<>>) : r \in Of(type)}

lower_expr(blocks, e) == IF e.op = "Local" THEN blocks ELSE Emit(blocks, e)

\* The source has nothing after a return or a revert in its block.
InFlow == \A i \in ToSet(Last(lowered).code) : ~is_terminator(i)
Lowering == optimized = <<>>

Statement(blocks) ==
    /\ Lowering /\ InFlow /\ fresh.statements < MaxStatements
    /\ lowered' = blocks
    /\ fresh' = [fresh EXCEPT !.reg = @ + 1, !.statements = @ + 1]
    /\ UNCHANGED <<open, optimized>>

lower_let(e) ==
    /\ Statement(lower_expr(lowered, e))
    /\ scope' = (e.dst :> ResultType(e)) @@ scope

\* Assignment to a local: a copy into its register.
lower_assign(local, e) ==
    /\ local # e.dst
    /\ Statement(Emit(lower_expr(lowered, e), Cast(local, e.dst)))
    /\ UNCHANGED scope

SetField(e) ==
    /\ Statement(Emit(lower_expr(lowered, e),
                      Inst("StorageSet", None, "store", <<e.dst>>, None, <<>>)))
    /\ UNCHANGED scope

lower_return(e) ==
    /\ Statement(Emit(lower_expr(lowered, e), Ret(<<e.dst>>)))
    /\ UNCHANGED scope

RevertWith ==
    /\ Statement(Emit(lowered, Inst("Revert", None, "revert", <<>>, None, <<>>)))
    /\ UNCHANGED scope

------------------------------------------------------------------------------
Nested(frame, blocks, labels) ==
    /\ Lowering /\ InFlow /\ fresh.nested < MaxNested
    /\ lowered' = blocks
    /\ open' = Append(open, frame)
    /\ fresh' = [fresh EXCEPT !.reg = @ + 1, !.label = @ + labels, !.nested = @ + 1]
    /\ UNCHANGED <<scope, optimized>>

\* if c { ... }, without an else.
OpenIf(c) ==
    LET then == fresh.label
        end == fresh.label + 1
    IN  Nested([kind |-> "if", end |-> end, scope |-> scope],
               PushBlock(Emit(lower_expr(lowered, c), Branch(c.dst, then, end)), then), 2)

\* while c { ... }, with the condition in the header.
lower_while(c) ==
    LET header == fresh.label
        body == fresh.label + 1
        exit == fresh.label + 2
        head == lower_expr(PushBlock(Emit(lowered, Jump(header)), header), c)
    IN  Nested([kind |-> "while", header |-> header, end |-> exit, scope |-> scope],
               PushBlock(Emit(head, Branch(c.dst, body, exit)), body), 3)

\* The end of a body; the end of an if also allots the register of its unit value.
Close ==
    /\ Lowering /\ open # <<>>
    /\ LET frame == Last(open)
           back == IF frame.kind = "if" THEN frame.end ELSE frame.header
           ending == PushBlock(Emit(lowered, Jump(back)), frame.end)
       IN  /\ lowered' = IF frame.kind = "if" THEN Emit(ending, Const(fresh.reg, "unit", 0))
                                               ELSE ending
           /\ scope' = frame.scope
           /\ fresh' = IF frame.kind = "if" THEN [fresh EXCEPT !.reg = @ + 1] ELSE fresh
    /\ open' = Front(open)
    /\ UNCHANGED optimized

\* A last block that does not end with a return or a jump gets a return.
lower_function(blocks) ==
    LET code == Last(blocks).code
        needs_ret == code = <<>> \/ Last(code).op \notin {"Return", "Jump"}
    IN  IF needs_ret THEN Emit(blocks, Ret(<<>>)) ELSE blocks

Compiled(blocks) ==
    /\ Lowering /\ open = <<>>
    /\ lowered' = lower_function(blocks)
    /\ optimized' = optimize(lowered')
    /\ UNCHANGED <<scope, open, fresh>>

\* The body ends, perhaps with an expression to return, and is optimised.
Compile == Compiled(lowered)
CompileReturning(e) == InFlow /\ Compiled(Emit(lower_expr(lowered, e), Ret(<<e.dst>>)))

OptInit ==
    /\ lowered = <<[label |-> 0, code |-> <<>>]>> /\ optimized = <<>>
    /\ scope = [r \in {0} |-> "int"] /\ open = <<>>
    /\ fresh = [reg |-> 1, label |-> 1, statements |-> 0, nested |-> 0]

OptNext ==
    \/ \E e \in Expressions : lower_let(e)
    \/ \E e \in Integral(fresh.reg) \cup Locals("int") :
          \/ \E local \in Of("int") : lower_assign(local, e)
          \/ SetField(e)
    \/ \E e \in Conditions(fresh.reg) \cup Locals("bool") :
          \/ \E local \in Of("bool") : lower_assign(local, e)
          \/ OpenIf(e)
          \/ lower_while(e)
    \/ \E e \in Locals("int") : lower_return(e)
    \/ RevertWith
    \/ Close
    \/ Compile
    \/ \E e \in Integral(fresh.reg) \cup Locals("int") : CompileReturning(e)

------------------------------------------------------------------------------
(***************************************************************************)
(* What the blocks do when they run: the meaning code generation and the VM *)
(* give them.  Arithmetic traps; storage is one cell; a call out stores its *)
(* argument and answers what was stored.                                   *)
(***************************************************************************)
Trapped(s) == [s EXCEPT !.state = "trapped"]

Arith(op, l, r) ==
    CASE op = "Add" -> IF l + r <= MAX_NARROW THEN l + r ELSE None
      [] op = "LogicalAnd" -> l * r
      [] OTHER -> fold_binop(op, l, r)

Goto(s, l) == [s EXCEPT !.label = l, !.pc = 1]

ExecInst(blocks, s) ==
    LET code == blocks[CHOOSE n \in DOMAIN blocks : blocks[n].label = s.label].code
        i == code[s.pc]
        v(n) == IF i.src[n] \in DOMAIN s.regs THEN s.regs[i.src[n]] ELSE None
        on == [s EXCEPT !.pc = @ + 1]
        set(x) == [on EXCEPT !.regs = (i.dst :> x) @@ @]
    IN  CASE i.op = "Const"      -> set(i.val)
          [] i.op = "Cast"       -> set(v(1))
          [] i.op = "BinOp"      -> LET x == Arith(i.fn, v(1), v(2))
                                    IN  IF x = None THEN Trapped(s) ELSE set(x)
          [] i.op = "Cmp"        -> set(IF v(1) < v(2) THEN 1 ELSE 0)
          [] i.op = "UnOp"       -> set(1 - v(1))
          [] i.op = "StorageGet" -> set(s.store)
          [] i.op = "StorageSet" -> [on EXCEPT !.store = v(1)]
          [] i.op = "Call"       -> [set(s.store) EXCEPT !.store = v(1)]
          [] i.op = "Jump"       -> Goto(s, i.to[1])
          [] i.op = "Branch"     -> Goto(s, i.to[2 - v(1)])
          [] i.op = "Revert"     -> [s EXCEPT !.state = "reverted"]
          [] i.op = "Return"     -> [s EXCEPT !.state = "returned",
                                              !.ret = IF i.src = <<>> THEN None ELSE v(1)]

Run(blocks, arg) ==
    LET run[n \in 0..Fuel] ==
            IF n = 0 THEN [label |-> 0, pc |-> 1, regs |-> [r \in {0} |-> arg], store |-> 0,
                           state |-> "running", ret |-> None]
            ELSE LET s == run[n - 1]
                 IN  IF s.state = "running" THEN ExecInst(blocks, s) ELSE s
        end == run[Fuel]
    IN  [state |-> end.state, ret |-> end.ret,
         store |-> IF end.state = "returned" THEN end.store ELSE 0]

\* A register that held a constant was overwritten by an instruction the folder
\* does not follow, and is then an operand in the same block.
StaleOperand(code, folded) ==
    \E i, j, k \in DOMAIN code :
        /\ i < j /\ j < k
        /\ folded[i].op = "Const" /\ folded[j].op # "Const"
        /\ folded[j].dst = folded[i].dst /\ folded[j].dst \in ToSet(code[k].src)
        /\ \A l \in (j + 1)..(k - 1) : ~(folded[l].op = "Const" /\ folded[l].dst = folded[j].dst)

StaleFree(blocks) ==
    \A b \in ToSet(blocks) : ~StaleOperand(b.code, FoldBlock(NoConstants, b.code).code)

(***************************************************************************)
(* A function that returns or reverts as lowered does the same, with the   *)
(* same value and the same storage, after optimize(): nothing is folded    *)
(* across the back edge of a loop or past a conditional assignment, and no *)
(* block, store or call out that matters is dropped.  Functions that trap  *)
(* are left out, since an unused trapping operation is removed, and so are *)
(* those that use a local after reassigning it in the block that gave it a *)
(* constant (see ReassignedLocals).                                        *)
(***************************************************************************)
OptimizedRunsAlike ==
    (optimized # <<>> /\ StaleFree(lowered)) =>
        \A arg \in Args :
            LET before == Run(lowered, arg)
            IN  before.state \in {"returned", "reverted"} => Run(optimized, arg) = before

(***************************************************************************)
(* The same for every function that returns: a local reassigned in a       *)
(* straight line has its new value from then on (constant_fold keeps the   *)
(* constant of the register a Cast overwrites).                            *)
(***************************************************************************)
ReassignedLocals ==
    optimized # <<>> =>
        \A arg \in Args :
            LET before == Run(lowered, arg)
            IN  before.state = "returned" => Run(optimized, arg) = before
==============================================================================
