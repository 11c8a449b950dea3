--------------------------------- MODULE Pvm ---------------------------------
(***************************************************************************)
(* The execution engine of contracts (pvm/src/vm.rs): one transaction, its *)
(* nested calls, delegate calls and creations, with the storage overlay    *)
(* and its journal, balances, gas, refunds, logs and the static mode.      *)
(*                                                                         *)
(* A contract's code is whatever sequence of instructions it likes, taken  *)
(* from Program; arithmetic, jumps and memory only cost gas and may trap.  *)
(* A child VM is a frame above its parent's on the stack; the child takes  *)
(* the parent's overlay with it, as mem::take does.                        *)
(***************************************************************************)
EXTENDS Integers, Sequences

CONSTANTS
    Code,                 \* addresses that hold code before the transaction
    Slots,                \* storage slots of a contract
    Backend(_),           \* what the state holds for a storage key before the transaction
    AccessList,           \* keys the transaction may load and store; all keys when it has no list
    Program,              \* instructions: records with field op and operands
    GasLimit,             \* gas limit of the transaction
    Endowment,            \* balance of every address of Code
    MAX_EXT_CALL_DEPTH,
    GAS_SHARE,            \* a call keeps one part in GAS_SHARE (64) of the gas
    SSTORE_GAS, COLD_GAS, OTHER_GAS, CODE_GAS,  \* gas costs
    SDELETE_REFUND,
    Fresh,                \* addresses of contracts to be created
    create_address(_, _), \* address of the n-th contract created by a frame of an address
    MaxCreates,           \* bound on the creations of a frame
    MaxOps                \* bound on executed instructions

VARIABLES
    frames,    \* the VMs on the host stack, the running one last
    ops,       \* instructions executed
    returned   \* history: what the VM that ended last did to its caller, or to itself

pvm_vars == <<frames, ops, returned>>

VmAddresses == Code \cup Fresh

Keys == VmAddresses \X Slots

Absent == -1  \* no entry in the overlay
Cleared == 0  \* the empty value SDELETE writes

ASSUME PvmAssumption ==
    /\ GasLimit \in Nat \ {0} /\ GAS_SHARE \in Nat \ {0} /\ MaxOps \in Nat
    /\ {SSTORE_GAS, COLD_GAS, OTHER_GAS, CODE_GAS, SDELETE_REFUND, Endowment} \subseteq Nat
    /\ \A i \in Program :
         /\ i.op \in {"sload", "sstore", "sdelete", "log", "halt", "revert", "trap",
                     "call", "delegate", "create"}
         /\ i.op \in {"sstore", "call", "create"} => i.value \in Nat
    /\ \A k \in Keys : Backend(k) \in Nat \cup {Absent}

NoOverlay == [k \in Keys |-> Absent]

Unjournaled == -2

\* Vm::with_gas_limit_and_context
NewVm(kind, self, static, limit, balances, warm, overlay) ==
    [kind |-> kind, self |-> self, static |-> static, limit |-> limit, gas |-> 0, refund |-> 0,
     storage |-> overlay, journal |-> [k \in Keys |-> Unjournaled],
     balances |-> balances, balance_journal |-> [a \in VmAddresses |-> Unjournaled],
     warm |-> warm, logs |-> <<>>, contracts |-> {}, created |-> 0, end |-> "running",
     before |-> [storage |-> [k \in Keys |-> Backend(k)], balances |-> balances],
     allowed |-> Keys, plain |-> TRUE]

PvmInit ==
    /\ \E a \in Code :
         frames = <<[NewVm("transaction", a, FALSE, GasLimit,
                           [b \in VmAddresses |-> IF b \in Code THEN Endowment ELSE 0],
                           {}, NoOverlay)
                     EXCEPT !.allowed = AccessList]>>
    /\ ops = 0
    /\ returned = [kind |-> "transaction", success |-> TRUE, plain |-> TRUE,
                   storageKept |-> TRUE, balancesKept |-> TRUE]

\* What SLOAD sees of an overlay.
Visible(overlay) == [k \in Keys |-> IF overlay[k] = Absent THEN Backend(k) ELSE overlay[k]]

------------------------------------------------------------------------------
(***************************************************************************)
(* Journals.  Only the first write of a key is recorded.                   *)
(***************************************************************************)
\* Mutant of journal_storage_write: every write is recorded, the last one wins.
JournalLatest(f, k) == [f EXCEPT !.journal[k] = f.storage[k]]

journal_storage_write(f, k) ==
    [f EXCEPT !.journal[k] = IF @ = Unjournaled THEN f.storage[k] ELSE @]

RestoredFrom(journal, now) ==
    [k \in DOMAIN now |-> IF journal[k] = Unjournaled THEN now[k] ELSE journal[k]]

\* execute() after a revert, a trap or the end of the gas.
rollback(f) ==
    [f EXCEPT !.storage = RestoredFrom(f.journal, f.storage),
              !.balances = RestoredFrom(f.balance_journal, f.balances),
              !.logs = <<>>, !.refund = 0]

------------------------------------------------------------------------------
(***************************************************************************)
(* Instructions.  Each yields the frame after it, ended or not.            *)
(***************************************************************************)
Ended(f, how) == [f EXCEPT !.end = how]

\* Gas is added first and then compared, and a limit of 0 is no limit.
Charge(f, g) ==
    LET paid == [f EXCEPT !.gas = @ + g]
    IN IF f.limit > 0 /\ paid.gas > f.limit THEN Ended(paid, "out_of_gas") ELSE paid

Alive(f) == f.end = "running"

\* The surcharge of the first touch of a key in the transaction.
Touch(f, k) ==
    IF k \in f.warm THEN f ELSE Charge([f EXCEPT !.warm = @ \cup {k}], COLD_GAS)

\* Strict access list: only the transaction's own frame has one, and SDELETE
\* does not look at it.
Listed(f, k) == IF k \in f.allowed THEN Touch(f, k) ELSE Ended(f, "trap")

Sload(f, k) ==
    LET t == Listed(f, k)
    IN IF Alive(t) THEN [t EXCEPT !.storage[k] = Visible(t.storage)[k]] ELSE t

Sstore(f, k, v) ==
    LET t == Listed(f, k)
    IN IF Alive(t) THEN [journal_storage_write(t, k) EXCEPT !.storage[k] = v] ELSE t

\* The refund looks at the overlay only.
Sdelete(f, k) ==
    LET t == Touch(f, k)
    IN IF ~Alive(t) THEN t
       ELSE [journal_storage_write(t, k) EXCEPT
               !.storage[k] = Cleared,
               !.refund = @ + IF t.storage[k] \notin {Absent, Cleared} THEN SDELETE_REFUND ELSE 0]

\* Mutant of StateOps: SDELETE is not guarded.
StateOpsNoDelete == {"sstore", "log", "create"}

StateOps == {"sstore", "sdelete", "log", "create"}

\* Base gas, then the ban on state changes in static mode: a call must be
\* marked static, a delegate call is not asked.
Started(f, i) ==
    LET t == Charge(f, IF i.op = "sstore" THEN SSTORE_GAS ELSE OTHER_GAS)
        forbidden == f.static /\ (i.op \in StateOps \/ (i.op = "call" /\ ~i.static))
    IN IF Alive(t) /\ forbidden THEN Ended(t, "trap") ELSE t

\* step() for the instructions that stay in the frame f, already started.
InFrame(f, i) ==
    CASE i.op = "sload"   -> Sload(f, <<f.self, i.slot>>)
      [] i.op = "sstore"  -> Sstore(f, <<f.self, i.slot>>, i.value)
      [] i.op = "sdelete" -> Sdelete(f, <<f.self, i.slot>>)
      [] i.op = "log"     -> [f EXCEPT !.logs = Append(@, f.self)]
      [] i.op = "halt"    -> Ended(f, "success")
      [] i.op = "revert"  -> Ended(f, "revert")
      [] i.op = "trap"    -> Ended(f, "trap")

------------------------------------------------------------------------------
(***************************************************************************)
(* Calls and creations: a frame for the child, above the caller's.         *)
(***************************************************************************)
Running == frames[Len(frames)]

SetRunning(f) == [frames EXCEPT ![Len(frames)] = f]

\* All but one part of the gas left, or what the code asks for.
Forwarded(f, asked) ==
    LET available == IF f.gas > f.limit THEN 0 ELSE f.limit - f.gas
        most == available - available \div GAS_SHARE
    IN IF f.limit = 0 THEN asked
       ELSE IF asked = 0 \/ asked > most THEN most ELSE asked

Moved(balances, from, to, value) ==
    LET debited == [balances EXCEPT ![from] = @ - value] IN [debited EXCEPT ![to] = @ + value]

Deepest == Len(frames) > MAX_EXT_CALL_DEPTH

\* do_ext_call up to child.execute(): the child leaves with the caller's overlay.
do_ext_call(f, i, delegate) ==
    LET value == IF delegate THEN 0 ELSE i.value
        static == (~delegate /\ i.static) \/ f.static
        child == NewVm(IF delegate THEN "delegate" ELSE "call",
                       IF delegate THEN f.self ELSE i.target,
                       static, Forwarded(f, i.gas),
                       Moved(f.balances, f.self, IF delegate THEN f.self ELSE i.target, value),
                       f.warm, f.storage)
    IN IF Deepest THEN SetRunning(Ended(f, "trap"))
       ELSE IF i.target \notin Code \cup f.contracts \/ f.balances[f.self] < value
            THEN SetRunning(f)
            ELSE SetRunning([f EXCEPT !.storage = NoOverlay])
                   \o <<[child EXCEPT !.contracts = f.contracts,
                                      !.before = [storage |-> Visible(f.storage),
                                                  balances |-> f.balances]]>>

\* Mutant of MergedBalances: the merge is not journaled.
MergedUnjournaled(p, balances) == [p EXCEPT !.balances = balances]

\* Merging balances: each address that changed is journaled first.
MergedBalances(p, balances) ==
    [p EXCEPT !.balance_journal = [a \in VmAddresses |->
                 IF balances[a] # p.balances[a] /\ p.balance_journal[a] = Unjournaled
                 THEN p.balances[a] ELSE p.balance_journal[a]],
              !.balances = balances]

\* The end of do_create: the balances, the gas of the code, the code.
Deploy(p, address, balances) ==
    LET paid == Charge(MergedBalances(p, balances), CODE_GAS)
    IN IF Alive(paid) THEN [paid EXCEPT !.contracts = @ \cup {address}] ELSE paid

\* do_create up to the constructor.  A failure that is not the end of the gas
\* gives the zero address and goes on.  The constructor starts with an overlay
\* of its own.
do_create(f, i) ==
    LET address == create_address(f.self, f.created)
        counted == [f EXCEPT !.created = @ + 1]
        balances == Moved(f.balances, f.self, address, i.value)
        child == NewVm("create", address, FALSE, Forwarded(f, 0), balances, f.warm, NoOverlay)
    IN IF Deepest THEN SetRunning(f)
       ELSE IF address \in f.contracts \/ f.balances[f.self] < i.value THEN SetRunning(counted)
       ELSE IF ~i.constructor THEN SetRunning(Deploy(counted, address, balances))
       ELSE SetRunning(counted) \o <<[child EXCEPT !.contracts = f.contracts,
                                                   !.before = [storage |-> Visible(f.storage),
                                                               balances |-> f.balances]]>>

\* One instruction of the running VM.
Step(i) ==
    LET f == Started(Running, i) IN
    /\ frames # <<>>
    /\ Alive(Running)
    /\ ops < MaxOps
    /\ i.op = "create" => Running.created < MaxCreates
    /\ ops' = ops + 1
    /\ frames' = IF ~Alive(f) THEN SetRunning(f)
                 ELSE CASE i.op = "call"     -> do_ext_call(f, i, FALSE)
                        [] i.op = "delegate" -> do_ext_call(f, i, TRUE)
                        [] i.op = "create"   -> do_create(f, i)
                        [] OTHER             -> SetRunning(InFrame(f, i))
    /\ UNCHANGED returned

------------------------------------------------------------------------------
(***************************************************************************)
(* The end of a VM: execute() of the child and what its caller does next.  *)
(***************************************************************************)
effective_gas_used(f) ==
    f.gas - (IF f.refund > f.gas \div 2 THEN f.gas \div 2 ELSE f.refund)

\* The warm keys are merged whatever the outcome; the journal of a child is
\* empty by the time it is merged, execute() has cleared it.
AfterCall(p, f) ==
    LET charged == Charge(p, effective_gas_used(f))
        back == [charged EXCEPT !.storage = f.storage, !.warm = @ \cup f.warm,
                                !.plain = @ /\ f.plain]
        merged == IF f.kind = "delegate" THEN back ELSE MergedBalances(back, f.balances)
    IN IF ~Alive(charged) THEN [charged EXCEPT !.plain = FALSE]
       ELSE IF f.end # "success" THEN back
       ELSE [merged EXCEPT !.logs = @ \o f.logs, !.refund = @ + f.refund, !.plain = FALSE]

\* A constructor's overlay is written over the caller's; its logs and refund
\* are dropped.
AfterCreate(p, f) ==
    LET charged == Charge(p, effective_gas_used(f))
        wrote == {k \in Keys : f.storage[k] # Absent}
        merged == [charged EXCEPT
                     !.journal = [k \in Keys |-> IF k \in wrote /\ p.journal[k] = Unjournaled
                                                 THEN p.storage[k] ELSE p.journal[k]],
                     !.storage = [k \in Keys |-> IF k \in wrote THEN f.storage[k] ELSE p.storage[k]],
                     !.warm = @ \cup f.warm]
    IN IF ~Alive(charged) THEN charged
       ELSE CASE f.end = "success"    -> Deploy(merged, f.self, f.balances)
              [] f.end = "out_of_gas" -> Ended(charged, "out_of_gas")
              [] OTHER                -> charged

\* What the end of the VM done does to the one whose state is now in after.
Report(done, after) ==
    [kind |-> done.kind, success |-> done.end = "success", plain |-> done.plain,
     storageKept |-> Visible(after.storage) = done.before.storage,
     balancesKept |-> after.balances = done.before.balances]

Executed(f) == IF f.end = "success" THEN f ELSE rollback(f)

Return ==
    LET done == Executed(Running)
        caller == IF Running.kind = "create" THEN AfterCreate(frames[Len(frames) - 1], done)
                                             ELSE AfterCall(frames[Len(frames) - 1], done)
    IN
    /\ Len(frames) > 1
    /\ ~Alive(Running)
    /\ frames' = Append(SubSeq(frames, 1, Len(frames) - 2), caller)
    /\ returned' = IF Alive(caller) THEN Report(done, caller) ELSE returned
    /\ UNCHANGED ops

\* The transaction's own VM ends; its overlay is kept only if it succeeded.
Finish ==
    /\ Len(frames) = 1
    /\ ~Alive(Running)
    /\ frames' = <<>>
    /\ returned' = Report(Executed(Running), Executed(Running))
    /\ UNCHANGED ops

PvmNext ==
    \/ \E i \in Program : Step(i)
    \/ Return
    \/ Finish

PvmSpec == PvmInit /\ [][PvmNext]_pvm_vars

(***************************************************************************)
(* Properties.                                                             *)
(***************************************************************************)
\* A call or a transaction that fails, however deep the transfers, creations and
\* failures inside it, leaves the balances there were before it: nothing sent
\* within it survives it (rollback_balances, TPL-205).
FailedCallKeepsBalances == ~returned.success => returned.balancesKept

\* No write happens anywhere below a static call, whatever it calls or delegates
\* to: what the VM sees of a key is what its caller saw, or what the state held
\* before the transaction (the overlay is lost with a VM that a call inside it ran
\* out of gas).
StaticCallsWriteNothing ==
    \A n \in 1..Len(frames) :
      frames[n].static /\ n = Len(frames) /\ Alive(frames[n]) =>
        \A k \in Keys : Visible(frames[n].storage)[k] \in {frames[n].before.storage[k], Backend(k)}

\* A call or a transaction that fails without a successful call inside it leaves
\* the storage there was: the journal keeps the value before the first write.
PlainFailureKeepsStorage == ~returned.success /\ returned.plain => returned.storageKept

\* "On child revert, only the child's state changes are rolled back", and all of
\* them: a call that fails leaves its caller the storage it had.
FailedCallKeepsStorage ==
    ~returned.success /\ returned.kind # "transaction" => returned.storageKept
==============================================================================
