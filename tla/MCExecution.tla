----------------------------- MODULE MCExecution -----------------------------
(***************************************************************************)
(* How a node comes by its state, on small instances: the ledger, the      *)
(* nonce window of one account, one parallel block, one transaction in the *)
(* VM, the compilation of one contract function and the state tree on      *)
(* disk.  The six share no variable.  A behaviour follows one of them and  *)
(* leaves the others in an initial state, so the state spaces add up.      *)
(***************************************************************************)
EXTENDS Ledger, AccountNonce, ParallelBlock, Pvm, Optimizer, JmtStore

VARIABLE active

------------------------------------------------------------------------------
(***************************************************************************)
(* The ledger.                                                             *)
(***************************************************************************)
Tx(type, from, nonce, to, value, gas, data) ==
    [type |-> type, from |-> from, nonce |-> nonce, to |-> to, value |-> value,
     gas_limit |-> gas, data |-> data, fee_payer |-> "Sender", deadline |-> 100]

\* Hashes do not collide with each other or with the address of a key.
CreateAddress(u, n) ==
    CASE u = "alice" -> <<"alice_c0", "alice_c1">>[n + 1]
      [] u = "bob"   -> <<"bob_c0", "bob_c1">>[n + 1]
      [] u = "carol" -> <<"carol_c0", "carol_c1">>[n + 1]

NoData == [none |-> TRUE]

\* A contract succeeds with a refund, or runs out of gas.
MCPvmRuns == {[ok |-> TRUE, gas |-> 25, sdelete |-> 20], [ok |-> FALSE, gas |-> 42, sdelete |-> 0]}

Sig(i, k, n) == [index |-> i, key |-> k, nonce |-> n]

\* alice is a vesting holder, bob a staker, carol an account whose key is not
\* registered yet.
Alloc(a, b, auth, cliff, duration) ==
    [address |-> a, balance |-> b, auth |-> auth, bucket |-> "users",
     vesting |-> [start |-> 0, cliff |-> cliff, duration |-> duration]]

Plain ==
    [allocations |-> <<Alloc("alice", 900, "Single", 1, 4), Alloc("bob", 700, "Single", 0, 0),
                       Alloc("carol", 300, "None", 0, 0), Alloc("treasury", 50, "None", 0, 0)>>,
     validators |-> <<>>,
     multisig |-> [signers |-> <<"k1", "k2">>, threshold |-> 2],
     airdrop |-> [root |-> [i \in {7} |-> [address |-> "alice", amount |-> 30]],
                  pool_total |-> 40, expected_sum |-> 30, deadline |-> 2],
     subsidy |-> [total |-> 12, duration |-> 3],
     initial_supply |-> 1990,
     bucket_caps |-> [b \in {"airdrop"} |-> 10]]

\* The same network with a validator of its own at genesis.
WithValidator ==
    [Plain EXCEPT !.validators = <<[address |-> "alice", stake |-> 200]>>]

\* Configurations genesis refuses: a duplicate signer, an underfunded airdrop, a
\* supply that does not add up.
RefusedConfigs ==
    {[Plain EXCEPT !.multisig.signers = <<"k1", "k1">>],
     [Plain EXCEPT !.airdrop.expected_sum = 41],
     [Plain EXCEPT !.initial_supply = 1989]}

MCConfigs == {Plain, WithValidator} \cup RefusedConfigs

QuorumFor(n) == <<Sig(1, "k1", n), Sig(2, "k2", n)>>

Spend(from, nonce, sigs, value) ==
    Tx("MultisigTx", from, nonce, "zero", 0, 150,
       [target |-> "carol", value |-> value, sigs |-> sigs])

Rotate(from, nonce, signers, threshold, sigs) ==
    Tx("RotateMultisig", from, nonce, "zero", 0, 190,
       [signers |-> signers, threshold |-> threshold, sigs |-> sigs])

Pause(from, nonce, duration, sigs) ==
    Tx("EmergencyPause", from, nonce, "zero", 0, 150, [duration |-> duration, sigs |-> sigs])

Register == Tx("RegisterPubkey", "carol", 0, "zero", 0, 0, NoData)
StakeBob == Tx("StakeDeposit", "bob", 0, "zero", 0, 50, [pk |-> "bob"])
StakeAlice == Tx("StakeDeposit", "alice", 0, "zero", 0, 50, [pk |-> "alice"])

\* A transfer to oneself, to the proposer, to a contract deployed meanwhile, and
\* more than the unlocked part of a vesting balance.
Transfers ==
    {Tx("Standard", "alice", 0, "alice", 200, 21, NoData),
     Tx("Standard", "alice", 1, "bob", 300, 42, NoData),
     Tx("Standard", "bob", 1, "bob_c0", 5, 50, NoData),
     Tx("Deploy", "bob", 0, "zero", 7, 80, [constructor |-> TRUE]),
     Register,
     Tx("Standard", "carol", 1, "treasury", 10, 21, NoData)}

Staking ==
    {StakeBob, StakeAlice, Register,
     Tx("ClaimReward", "bob", 1, "zero", 0, 21, NoData),
     Tx("ClaimReward", "bob", 2, "zero", 0, 21, NoData),
     Tx("ClaimReward", "alice", 1, "zero", 0, 21, NoData),
     Tx("Slash", "carol", 1, "zero", 0, 100,
        [signer |-> "bob", block_1 |-> "x", block_2 |-> "y", signed_both |-> TRUE])}

\* Claiming twice, claiming another's leaf, sweeping early and late.
Airdrop ==
    {Tx("ClaimAirdrop", "alice", n, "zero", 0, 35, [leaf |-> 7, amount |-> 30, levels |-> 1])
       : n \in {0, 1}} \cup
    {Tx("ClaimAirdrop", "bob", 0, "zero", 0, 35, [leaf |-> 7, amount |-> 30, levels |-> 1]),
     Tx("SweepAirdrop", "bob", 1, "zero", 0, 40, NoData),
     Tx("Standard", "bob", 2, "pool", 5, 21, NoData)}

\* Two submitters relay one spend; one key signs twice; a rotation installs a
\* key twice, or hands over to other keys, which then spend.
Governance ==
    {Spend("bob", 0, QuorumFor(0), 20),
     Spend("alice", 0, QuorumFor(0), 20),
     Spend("bob", 1, <<Sig(1, "k1", 1), Sig(1, "k1", 1)>>, 10),
     Rotate("alice", 1, <<"k3", "k3">>, 2, QuorumFor(0)),
     Rotate("alice", 2, <<"k3", "k2">>, 2, QuorumFor(1)),
     Spend("bob", 2, <<Sig(1, "k3", 2), Sig(2, "k2", 2)>>, 10)}

Emergency ==
    {Pause("bob", 0, 1, QuorumFor(0)),
     Pause("bob", 1, 3, QuorumFor(1)),
     Tx("EmergencyResume", "alice", 0, "zero", 0, 140, [sigs |-> QuorumFor(1)]),
     Spend("alice", 1, QuorumFor(2), 20),
     Tx("Standard", "alice", 2, "bob", 10, 21, NoData)}

MCWorkloads == {Transfers, Staking, Airdrop, Governance, Emergency}

------------------------------------------------------------------------------
(***************************************************************************)
(* The parallel block: three transactions that share senders, recipients    *)
(* and the storage slots x and y, or whose keys the scheduler cannot see.   *)
(***************************************************************************)
BalanceKey(a) == <<"balance", a>>
NonceKey(a) == <<"nonce", a>>
StorageKey(s) == <<"storage", s>>

MCBlockAddresses == {"a", "b", "c", "d", "e", "zero"}
MCBlockKeys == {BalanceKey(a) : a \in MCBlockAddresses}
                 \cup {NonceKey(a) : a \in MCBlockAddresses}
                 \cup {StorageKey("x"), StorageKey("y")}
MCPre == [k \in MCBlockKeys |-> <<>>]

\* Values tell who wrote them and what the writer saw.
MCOutcome(tx, k, seen) == <<tx.from, tx.to, seen>>

Transfer(from, to) ==
    [type |-> "Standard", from |-> from, to |-> to,
     reads |-> {}, writes |-> {}, loads |-> {}, stores |-> {}]

MCBlockTxs ==
    {Transfer("a", "b"), Transfer("b", "a"), Transfer("b", "c"), Transfer("d", "e"),
     Transfer("d", "zero"),
     [Transfer("a", "zero") EXCEPT !.type = "ClaimReward"],
     [Transfer("a", "b") EXCEPT !.reads = {StorageKey("x")}, !.loads = {StorageKey("x")}],
     [Transfer("d", "e") EXCEPT !.reads = {StorageKey("y")}, !.loads = {StorageKey("y")},
                                !.writes = {StorageKey("x")}, !.stores = {StorageKey("x")}],
     [Transfer("c", "e") EXCEPT !.writes = {StorageKey("y")}, !.stores = {StorageKey("y")}]}

------------------------------------------------------------------------------
(***************************************************************************)
(* The VM: two contracts with one slot, each of which may run any program   *)
(* of a few instructions.                                                   *)
(***************************************************************************)
MCBackend(k) == IF k = <<"B", "x">> THEN 7 ELSE Absent

MCCreateAddress(a, n) ==
    CASE a = "A" -> <<"A1", "A2">>[n + 1]
      [] a = "B" -> <<"B1", "B2">>[n + 1]
      [] OTHER   -> <<"C1", "C2">>[n + 1]

Store(v) == [op |-> "sstore", slot |-> "x", value |-> v]
CallTo(a, static, value, gas) ==
    [op |-> "call", target |-> a, static |-> static, value |-> value, gas |-> gas]

MCProgram ==
    {Store(1), Store(2), [op |-> "sdelete", slot |-> "x"], [op |-> "sload", slot |-> "x"],
     [op |-> "log"], [op |-> "halt"], [op |-> "revert"], [op |-> "trap"],
     CallTo("B", FALSE, 1, 0), CallTo("A", FALSE, 0, 0), CallTo("B", TRUE, 0, 4),
     [op |-> "delegate", target |-> "B", gas |-> 0],
     [op |-> "create", value |-> 1, constructor |-> TRUE],
     [op |-> "create", value |-> 0, constructor |-> FALSE]}

\* Enough for a call within a call whose caller reverts.
MCCallsOnly == {Store(1), [op |-> "halt"], [op |-> "revert"],
                CallTo("A", FALSE, 0, 0), CallTo("B", FALSE, 0, 0)}

MCList == Keys

------------------------------------------------------------------------------
components == <<ledger_vars, nonce_vars, par_vars, pvm_vars, opt_vars, jmt_vars>>

MCInit ==
    /\ active \in {"ledger", "nonce", "block", "vm", "compiler", "tree"}
    /\ LedgerInit /\ NonceInit /\ ParInit /\ PvmInit /\ OptInit /\ JmtInit
    /\ block.proposer = "bob" /\ (config # Plain => workload = Staking)
    /\ active # "ledger" => config = Plain /\ workload = Transfers
    /\ active # "block" => txs = [i \in Ids |-> Transfer("a", "b")]
    /\ active # "vm" => frames[1].self = "A"

MCNext ==
    \/ /\ active = "ledger" /\ LedgerNext
       /\ UNCHANGED <<active, nonce_vars, par_vars, pvm_vars, opt_vars, jmt_vars>>
    \/ /\ active = "nonce" /\ NonceNext
       /\ UNCHANGED <<active, ledger_vars, par_vars, pvm_vars, opt_vars, jmt_vars>>
    \/ /\ active = "block" /\ ParNext
       /\ UNCHANGED <<active, ledger_vars, nonce_vars, pvm_vars, opt_vars, jmt_vars>>
    \/ /\ active = "vm" /\ PvmNext
       /\ UNCHANGED <<active, ledger_vars, nonce_vars, par_vars, opt_vars, jmt_vars>>
    \/ /\ active = "compiler" /\ OptNext
       /\ UNCHANGED <<active, ledger_vars, nonce_vars, par_vars, pvm_vars, jmt_vars>>
    \/ /\ active = "tree" /\ JmtNext
       /\ UNCHANGED <<active, ledger_vars, nonce_vars, par_vars, pvm_vars, opt_vars>>

MCSpec == MCInit /\ [][MCNext]_<<active, components>>

\* One of them alone.
VmSpec == MCInit /\ active = "vm" /\ [][MCNext]_<<active, components>>
CompilerSpec == MCInit /\ active = "compiler" /\ [][MCNext]_<<active, components>>

\* The tree over a database that may refuse a write.
FaultyTreeNext ==
    JmtFaultyNext /\ UNCHANGED <<active, ledger_vars, nonce_vars, par_vars, pvm_vars, opt_vars>>
FaultyTreeSpec == MCInit /\ active = "tree" /\ [][FaultyTreeNext]_<<active, components>>
==============================================================================
