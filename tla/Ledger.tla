-------------------------------- MODULE Ledger --------------------------------
(***************************************************************************)
(* The ledger: what a transaction does to the state when the pipeline      *)
(* executes it (tx/src/pipeline.rs, execution.rs, validation.rs) and what  *)
(* the block processor adds at the end of a block (fees, mint, subsidy).   *)
(*                                                                         *)
(* smt is the state as the pipeline sees it.  Amounts are in units of a    *)
(* thousand gas at BASE_FEE.  A transaction is a record; hashes,           *)
(* keys and payload encodings are reduced to what the handlers compare: a  *)
(* signature names the key that made it and the multisig nonce it was made *)
(* for, a Merkle proof the leaf it opens.                                  *)
(***************************************************************************)
EXTENDS Integers, Sequences, SequencesExt, FiniteSets, FiniteSetsExt, NonceWindow

CONSTANTS
    Users,                 \* addresses with a key
    Treasury, AirdropPool, Zero,   \* the well-known addresses
    MaxDeploys,            \* bound: create addresses per user
    derive_create_address(_, _),   \* the hash of a creator and its deploy nonce
    Workloads,             \* sets of transactions clients may submit
    Configs,               \* candidate genesis configurations
    Proposers,             \* who proposes blocks
    MaxHeight,             \* bound on the height
    DEVNET,                \* chain_id = 31337
    BASE_FEE,              \* base fee, constant here
    PvmRuns,               \* what running a contract may yield
    VALIDATOR_STAKE, MAX_SIGNERS, MAX_PAUSE_DURATION_SLOTS,
    PER_BLOCK_BASE, BLOCKS_PER_YEAR   \* the inflation schedule

NoAccount == [none |-> TRUE]
NoEntry == [none |-> TRUE]
NotConfigured == -1

Addresses ==
    Users \cup {Treasury, AirdropPool, Zero}
        \cup {derive_create_address(u, n) : u \in Users, n \in 0..MaxDeploys}

MIN_GAS_LIMIT == 21
FINDER_FEE_PERCENT == 10
SERVICE_SHARE_PCT == 25

VARIABLES
    smt,       \* the state: accounts, nonces, validators, counters, governance
    block,     \* the block being executed: height, proposer, sums of its receipts
    config,    \* the genesis configuration in force
    workload,  \* the transactions clients submit, in whatever order
    issued,    \* history: genesis supply and everything minted or streamed since
    rewards,   \* history: pool shares and subsidies accrued, less those claimed
    governed   \* history: the multisig payloads that took effect

ledger_vars == <<smt, block, config, workload, issued, rewards, governed>>

------------------------------------------------------------------------------
(***************************************************************************)
(* Accounts.                                                               *)
(***************************************************************************)
empty_account == [balance |-> 0, gas_tank |-> 0, nonce |-> 0, auth |-> "None"]

load_account(s, a) == IF s.accounts[a] = NoAccount THEN empty_account ELSE s.accounts[a]

store_account(s, a, account) == [s EXCEPT !.accounts[a] = account]

AddTo(s, a, amount) ==
    store_account(s, a, [load_account(s, a) EXCEPT !.balance = @ + amount])

\* A store of the copy itself.
StoreFinal(s, a, initial, final) == store_account(s, a, final)

\* Only what the pipeline changed in its copies is applied to what is now in
\* the state: a handler, or the other copy, may have written it meanwhile.
apply_account_delta(s, a, initial, final) ==
    LET current == load_account(s, a)
        Saturated(n) == Max({0, n})
    IN  store_account(s, a,
          [balance  |-> Saturated(current.balance + final.balance - initial.balance),
           gas_tank |-> Saturated(current.gas_tank + final.gas_tank - initial.gas_tank),
           nonce    |-> IF final.nonce # initial.nonce THEN final.nonce ELSE current.nonce,
           auth     |-> IF final.auth # initial.auth THEN final.auth ELSE current.auth])

(***************************************************************************)
(* Vesting: what of an account's genesis allocation is still locked.       *)
(***************************************************************************)
unlocked_at(v, slot) ==
    IF v.duration = 0 \/ slot >= v.start + v.duration THEN v.total
    ELSE IF slot < v.start + v.cliff THEN 0
    ELSE (v.total * (slot - v.start)) \div v.duration

locked_at(v, slot) == v.total - unlocked_at(v, slot)

locked(s, a, slot) ==
    IF a \in DOMAIN s.vesting THEN locked_at(s.vesting[a], slot) ELSE 0

(***************************************************************************)
(* Validation.                                                             *)
(***************************************************************************)
ValueTypes == {"Standard", "Deploy"}

\* The test against the whole balance.
ValidateWholeBalance(tx, sender, sender_locked) ==
    sender.balance >= tx.gas_limit * BASE_FEE + tx.value

validate_balance(tx, sender, sender_locked) ==
    LET spendable == Max({0, sender.balance - sender_locked})
    IN  CASE tx.fee_payer = "Sender"    -> spendable >= tx.gas_limit * BASE_FEE + tx.value
          [] tx.fee_payer = "GasTank"   -> spendable >= tx.value
          [] tx.fee_payer = "Paymaster" -> TRUE

validate_register_pubkey(tx, sender, nonces) ==
    /\ tx.value = 0
    /\ tx.gas_limit = 0
    /\ sender.balance # 0
    /\ sender.auth = "None"
    /\ validate(nonces, tx.nonce)

validate_transaction(tx, sender, nonces, sender_locked, height) ==
    IF tx.type = "RegisterPubkey" THEN validate_register_pubkey(tx, sender, nonces)
    ELSE /\ ~DEVNET => sender.auth # "None" /\ tx.fee_payer = "Sender"
         /\ tx.type \notin ValueTypes => tx.value = 0 /\ tx.to = Zero
         /\ tx.type # "StakeWithdraw"
         /\ validate(nonces, tx.nonce)
         /\ validate_balance(tx, sender, sender_locked)
         /\ tx.gas_limit >= MIN_GAS_LIMIT
         /\ tx.deadline > height

(***************************************************************************)
(* Gas and fees.                                                           *)
(***************************************************************************)
\* The fee payer's balances once the whole gas limit is charged.
pre_execution_charge(tx, sender) ==
    LET cost == tx.gas_limit * BASE_FEE
    IN  CASE tx.fee_payer = "Sender"    -> [sender EXCEPT !.balance = @ - cost]
          [] tx.fee_payer = "GasTank"   -> [sender EXCEPT !.gas_tank = @ - cost]
          [] tx.fee_payer = "Paymaster" -> sender

Chargeable(tx, sender) ==
    LET cost == tx.gas_limit * BASE_FEE
    IN  CASE tx.fee_payer = "Sender"    -> sender.balance >= cost + tx.value
          [] tx.fee_payer = "GasTank"   -> sender.gas_tank >= cost /\ sender.balance >= tx.value
          [] tx.fee_payer = "Paymaster" -> TRUE

effective_gas(gas_used, sdelete) == gas_used - Min({sdelete, gas_used \div 2})

\* What comes back: the gas used is clamped to the limit for the refund only.
post_execution_refund(tx, gas_used, sdelete) ==
    ((tx.gas_limit - Min({gas_used, tx.gas_limit})) + Min({sdelete, gas_used \div 2}))
        * BASE_FEE

Refunded(tx, sender, refund) ==
    CASE tx.fee_payer = "Sender"    -> [sender EXCEPT !.balance = @ + refund]
      [] tx.fee_payer = "GasTank"   -> [sender EXCEPT !.gas_tank = @ + refund]
      [] tx.fee_payer = "Paymaster" -> sender

distribute_fee(gas) ==
    LET fee       == gas * BASE_FEE
        burned    == (fee * 70) \div 100
        validator == (fee * 20) \div 100
    IN  [burned |-> burned, validator |-> validator, treasury |-> fee - burned - validator]

------------------------------------------------------------------------------
(***************************************************************************)
(* Handlers, one per transaction type.  A handler gets the state, the      *)
(* transaction, the pipeline's copy of the sender and the height, and      *)
(* returns its verdict, its gas, the state and the copy.                   *)
(***************************************************************************)
Done(s, sender, gas) == [ok |-> TRUE, gas |-> gas, sdelete |-> 0, smt |-> s, sender |-> sender]
Failed(s, sender, gas) == [ok |-> FALSE, gas |-> gas, sdelete |-> 0, smt |-> s, sender |-> sender]

Ejected(s, u) == s.validators[u] # NoEntry /\ s.validators[u].status = "Ejected"

StakeOf(s, u) == IF s.validators[u] = NoEntry THEN 0 ELSE s.validators[u].stake

\* A call runs the contract's code: it may succeed or fail, use any gas of its
\* limit and ask for refunds; it moves no balance of its own.
execute_in_pvm(s, tx, sender, ran) ==
    [ok |-> ran.ok, gas |-> Min({ran.gas, tx.gas_limit}), sdelete |-> ran.sdelete,
     smt |-> s, sender |-> sender]

execute_standard(s, tx, sender, ran) ==
    IF tx.to # Zero /\ tx.to \in s.code THEN execute_in_pvm(s, tx, sender, ran)
    ELSE Done(s, sender, 21)

\* The contract's account is written whole, whatever was at the address.
execute_deploy(s, tx, sender, ran) ==
    LET new == derive_create_address(tx.from, sender.nonce)
        coded == [s EXCEPT !.code = @ \cup {new}]
    IN  Done(store_account(coded, new, empty_account), [sender EXCEPT !.nonce = @ + 1],
             32 + IF tx.data.constructor THEN Min({ran.gas, tx.gas_limit}) ELSE 0)

\* An entry that starts from the accumulator's origin.
EntryFromOrigin(s) == [stake |-> VALIDATOR_STAKE, status |-> "Active", last_claimed_at |-> 0]

\* A new validator earns from the blocks to come only.
NewEntry(s) ==
    [stake |-> VALIDATOR_STAKE, status |-> "Active",
     last_claimed_at |-> s.rewards_per_validator]

execute_stake_deposit(s, tx, sender) ==
    IF \/ sender.balance < VALIDATOR_STAKE
       \/ tx.data.pk # tx.from
       \/ s.validators[tx.from] # NoEntry
    THEN Failed(s, sender, 21)
    ELSE Done([s EXCEPT !.validators[tx.from] = NewEntry(s), !.active_count = @ + 1],
              [sender EXCEPT !.balance = @ - VALIDATOR_STAKE], 50)

execute_claim_reward(s, tx, sender) ==
    LET entry == s.validators[tx.from]
    IN  IF entry = NoEntry \/ Ejected(s, tx.from)
        THEN Failed(s, sender, 21)
        ELSE Done([s EXCEPT !.validators[tx.from].last_claimed_at = s.rewards_per_validator],
                  [sender EXCEPT !.balance = @ + s.rewards_per_validator - entry.last_claimed_at],
                  21)

\* Evidence: two blocks of one slot, both signed by the accused validator.
execute_slash(s, tx, sender) ==
    LET accused == tx.data.signer
        entry   == s.validators[accused]
        amount  == Min({entry.stake, VALIDATOR_STAKE})
    IN  IF \/ tx.data.block_1 = tx.data.block_2
           \/ entry = NoEntry
           \/ Ejected(s, accused)
           \/ ~tx.data.signed_both
        THEN Failed(s, sender, 21)
        ELSE Done([s EXCEPT !.validators[accused] =
                              [entry EXCEPT !.stake = @ - amount, !.status = "Ejected"],
                            !.active_count = IF entry.status = "Active" THEN Max({0, @ - 1}) ELSE @],
                  [sender EXCEPT !.balance = @ + (amount * FINDER_FEE_PERCENT) \div 100],
                  100)

\* Over one slot early.
AirdropOverAtDeadline(s, height) ==
    s.airdrop.deadline # NotConfigured /\ height >= s.airdrop.deadline

AirdropOver(s, height) == s.airdrop.deadline # NotConfigured /\ height > s.airdrop.deadline

execute_claim_airdrop(s, tx, sender, height) ==
    LET gas  == 30 + 5 * tx.data.levels
        pool == load_account(s, AirdropPool)
        leaf == [address |-> tx.from, amount |-> tx.data.amount]
    IN  IF tx.gas_limit < gas THEN Failed(s, sender, tx.gas_limit)
        ELSE IF \/ AirdropOver(s, height)
                \/ tx.data.leaf \in s.airdrop.claimed
                \/ tx.data.leaf \notin DOMAIN s.airdrop.root
                \/ tx.data.leaf \in DOMAIN s.airdrop.root /\ s.airdrop.root[tx.data.leaf] # leaf
                \/ pool.balance < tx.data.amount
        THEN Failed(s, sender, gas)
        ELSE Done(AddTo([s EXCEPT !.airdrop.claimed = @ \cup {tx.data.leaf}],
                        AirdropPool, -tx.data.amount),
                  [sender EXCEPT !.balance = @ + tx.data.amount], gas)

execute_sweep_airdrop(s, tx, sender, height) ==
    LET residue == load_account(s, AirdropPool).balance
    IN  IF tx.gas_limit < 40 THEN Failed(s, sender, tx.gas_limit)
        ELSE IF ~AirdropOver(s, height) THEN Failed(s, sender, 40)
        ELSE IF residue = 0 THEN Done(s, sender, 40)
        ELSE Done(AddTo(AddTo(s, AirdropPool, -residue), Treasury, residue), sender, 40)

\* Distinct indices, each naming the signer whose key made the signature, all
\* over the payload and the multisig nonce now in the state.
count_valid_sigs(sigs, signers, nonce) ==
    Cardinality({i \in DOMAIN sigs :
                   /\ sigs[i].index \in DOMAIN signers
                   /\ signers[sigs[i].index] = sigs[i].key
                   /\ sigs[i].nonce = nonce})

WellFormedSigs(sigs) ==
    /\ \A i \in DOMAIN sigs : sigs[i].index <= MAX_SIGNERS
    /\ \A i, j \in DOMAIN sigs : sigs[i].index = sigs[j].index => i = j

multisig_ok(s, sigs) ==
    /\ s.multisig.threshold # 0
    /\ WellFormedSigs(sigs)
    /\ count_valid_sigs(sigs, s.multisig.signers, s.multisig.nonce) >= s.multisig.threshold

\* A payload that leaves the multisig nonce alone.
KeepNonce(s) == s

BumpNonce(s) == [s EXCEPT !.multisig.nonce = @ + 1]

execute_multisig_spend(s, tx, sender) ==
    LET gas == 50 + 50 * Len(tx.data.sigs)
    IN  IF tx.gas_limit < gas THEN Failed(s, sender, tx.gas_limit)
        ELSE IF \/ tx.data.value = 0
                \/ tx.data.target \in {Zero, Treasury, tx.from}
                \/ ~multisig_ok(s, tx.data.sigs)
                \/ load_account(s, Treasury).balance < tx.data.value
        THEN Failed(s, sender, gas)
        ELSE Done(BumpNonce(AddTo(AddTo(s, Treasury, -tx.data.value),
                                  tx.data.target, tx.data.value)),
                  sender, gas)

\* A signer set can be installed: some signers, none twice, and a threshold
\* they can reach.
SignerSetOK(signers, threshold) ==
    /\ Len(signers) \in 1..MAX_SIGNERS
    /\ threshold \in 1..Len(signers)
    /\ IsInjective(signers)

execute_rotate_multisig(s, tx, sender) ==
    LET gas == 60 + 50 * Len(tx.data.sigs) + 10 * Len(tx.data.signers)
    IN  IF tx.gas_limit < gas THEN Failed(s, sender, tx.gas_limit)
        ELSE IF ~SignerSetOK(tx.data.signers, tx.data.threshold) \/ ~multisig_ok(s, tx.data.sigs)
        THEN Failed(s, sender, gas)
        ELSE Done([BumpNonce(s) EXCEPT !.multisig.signers = tx.data.signers,
                                       !.multisig.threshold = tx.data.threshold],
                  sender, gas)

is_paused(s, height) == height < s.pause_end

execute_emergency_pause(s, tx, sender, height) ==
    LET gas == 40 + 50 * Len(tx.data.sigs)
    IN  IF tx.gas_limit < gas THEN Failed(s, sender, tx.gas_limit)
        ELSE IF \/ tx.data.duration \notin 1..MAX_PAUSE_DURATION_SLOTS
                \/ is_paused(s, height)
                \/ ~multisig_ok(s, tx.data.sigs)
        THEN Failed(s, sender, gas)
        ELSE Done([BumpNonce(s) EXCEPT !.pause_end = height + tx.data.duration], sender, gas)

execute_emergency_resume(s, tx, sender, height) ==
    LET gas == 40 + 50 * Len(tx.data.sigs)
    IN  IF tx.gas_limit < gas THEN Failed(s, sender, tx.gas_limit)
        ELSE IF ~is_paused(s, height) \/ ~multisig_ok(s, tx.data.sigs)
        THEN Failed(s, sender, gas)
        ELSE Done([BumpNonce(s) EXCEPT !.pause_end = 0], sender, gas)

execute_register_pubkey(s, sender) == Done(s, [sender EXCEPT !.auth = "Single"], 0)

------------------------------------------------------------------------------
(***************************************************************************)
(* The pipeline: execute_transaction_inner.                                *)
(***************************************************************************)
Dispatch(s, tx, sender, height, ran) ==
    CASE tx.type = "Standard"        -> execute_standard(s, tx, sender, ran)
      [] tx.type = "Deploy"          -> execute_deploy(s, tx, sender, ran)
      [] tx.type = "RegisterPubkey"  -> execute_register_pubkey(s, sender)
      [] tx.type = "StakeDeposit"    -> execute_stake_deposit(s, tx, sender)
      [] tx.type = "ClaimReward"     -> execute_claim_reward(s, tx, sender)
      [] tx.type = "Slash"           -> execute_slash(s, tx, sender)
      [] tx.type = "ClaimAirdrop"    -> execute_claim_airdrop(s, tx, sender, height)
      [] tx.type = "SweepAirdrop"    -> execute_sweep_airdrop(s, tx, sender, height)
      [] tx.type = "MultisigTx"      -> execute_multisig_spend(s, tx, sender)
      [] tx.type = "RotateMultisig"  -> execute_rotate_multisig(s, tx, sender)
      [] tx.type = "EmergencyPause"  -> execute_emergency_pause(s, tx, sender, height)
      [] tx.type = "EmergencyResume" -> execute_emergency_resume(s, tx, sender, height)

NoFee == [burned |-> 0, validator |-> 0, treasury |-> 0]

\* The charge failed: the sender pays for the minimum, as far as it can.
emit_failed_execution_receipt(s, tx) ==
    LET sender  == load_account(s, tx.from)
        charged == Min({MIN_GAS_LIMIT * BASE_FEE, sender.balance})
    IN  [ok  |-> FALSE,
         smt |-> apply_account_delta(s, tx.from, sender, [sender EXCEPT !.balance = @ - charged]),
         fee |-> distribute_fee(IF BASE_FEE = 0 THEN MIN_GAS_LIMIT ELSE charged \div BASE_FEE)]

\* The handler works on the pipeline's copies of sender and recipient; the
\* differences to the copies first taken are applied at the end.
RunAndSettle(s, tx, height, ran) ==
    LET sender    == load_account(s, tx.from)
        recipient == load_account(s, tx.to)
        charged   == pre_execution_charge(tx, sender)
        value     == IF tx.type \in ValueTypes THEN tx.value ELSE 0
        out       == Dispatch(s, tx, [charged EXCEPT !.balance = @ - value], height, ran)
        final     == Refunded(tx, out.sender, post_execution_refund(tx, out.gas, out.sdelete))
    IN  IF charged.balance < value THEN [ok |-> FALSE, smt |-> s, fee |-> NoFee]
        ELSE [ok  |-> out.ok,
              smt |-> apply_account_delta(
                        apply_account_delta(out.smt, tx.from, sender, final),
                        tx.to, recipient, [recipient EXCEPT !.balance = @ + value]),
              fee |-> distribute_fee(effective_gas(out.gas, out.sdelete))]

\* The nonce is stored before anything that can fail.
store_nonce(s, tx) == [s EXCEPT !.nonces[tx.from] = use_nonce(@, tx.nonce)]

execute_transaction(s, tx, height, ran) ==
    IF Chargeable(tx, load_account(s, tx.from))
    THEN RunAndSettle(store_nonce(s, tx), tx, height, ran)
    ELSE emit_failed_execution_receipt(store_nonce(s, tx), tx)

------------------------------------------------------------------------------
(***************************************************************************)
(* Genesis.                                                                *)
(***************************************************************************)
SumOf(f) == FoldFunction(+, 0, f)

FundedStakes(c) ==
    SelectSeq(c.validators, LAMBDA v : \A i \in DOMAIN c.allocations : c.allocations[i].address # v.address)

GenesisSupply(c) ==
    SumOf([i \in DOMAIN c.allocations |-> c.allocations[i].balance])
      + SumOf([i \in DOMAIN FundedStakes(c) |-> FundedStakes(c)[i].stake])
      + c.airdrop.pool_total

BucketTotal(c, bucket) ==
    SumOf([i \in DOMAIN c.allocations |->
             IF c.allocations[i].bucket = bucket THEN c.allocations[i].balance ELSE 0])
      + IF bucket = "airdrop" THEN c.airdrop.pool_total ELSE 0

GenesisAccepts(c) ==
    /\ \A i \in DOMAIN c.allocations :
         c.allocations[i].vesting.cliff <= c.allocations[i].vesting.duration
    /\ c.multisig.signers # <<>> => SignerSetOK(c.multisig.signers, c.multisig.threshold)
    /\ c.airdrop.expected_sum <= c.airdrop.pool_total
    /\ c.subsidy.total # 0 => c.subsidy.duration # 0
    /\ c.initial_supply \in {NotConfigured, GenesisSupply(c)}
    /\ DOMAIN c.bucket_caps # {} => c.initial_supply # NotConfigured
    /\ \A b \in DOMAIN c.bucket_caps :
         /\ c.bucket_caps[b] <= 100
         /\ BucketTotal(c, b) * 100 <= GenesisSupply(c) * c.bucket_caps[b]

LastWith(seq, a) == SelectLastInSeq(seq, LAMBDA x : x.address = a)

\* Stakes of genesis validators are balances and registry entries; the count of
\* active validators is not written and reads as zero.
initialize_genesis(c) ==
    [accounts |->
       [a \in Addresses |->
          LET i == LastWith(c.allocations, a)
              j == LastWith(FundedStakes(c), a)
          IN  CASE a = AirdropPool /\ c.airdrop.pool_total > 0 ->
                     [empty_account EXCEPT !.balance = c.airdrop.pool_total]
                [] j # 0 -> [empty_account EXCEPT !.balance = FundedStakes(c)[j].stake,
                                                  !.auth = "Single"]
                [] i # 0 /\ j = 0 ->
                     [empty_account EXCEPT !.balance = c.allocations[i].balance,
                                           !.auth = c.allocations[i].auth]
                [] OTHER -> NoAccount],
     vesting |-> [a \in {b \in Addresses : /\ LastWith(c.allocations, b) # 0
                                           /\ c.allocations[LastWith(c.allocations, b)].vesting.duration > 0} |->
                    LET i == LastWith(c.allocations, a)
                    IN  [start |-> c.allocations[i].vesting.start,
                         cliff |-> c.allocations[i].vesting.cliff,
                         duration |-> c.allocations[i].vesting.duration,
                         total |-> c.allocations[i].balance]],
     nonces |-> [u \in Users |-> EmptyWindow],
     code |-> {},
     validators |-> [u \in Users |->
                       LET i == LastWith(c.validators, u)
                       IN  IF i = 0 THEN NoEntry
                           ELSE [stake |-> c.validators[i].stake, status |-> "Active",
                                 last_claimed_at |-> 0]],
     active_count |-> 0,
     rewards_per_validator |-> 0,
     subsidy |-> [per_block |-> IF c.subsidy.duration = 0 THEN 0
                                ELSE c.subsidy.total \div c.subsidy.duration,
                  end_slot |-> c.subsidy.duration],
     total_supply |-> 0,
     total_burned |-> 0,
     airdrop |-> [root |-> c.airdrop.root, deadline |-> c.airdrop.deadline, claimed |-> {}],
     multisig |-> [signers |-> c.multisig.signers, threshold |-> c.multisig.threshold, nonce |-> 0],
     pause_end |-> 0]

------------------------------------------------------------------------------
(***************************************************************************)
(* The block processor: transactions in order, then the block's rewards.   *)
(***************************************************************************)
LedgerInit ==
    \E c \in Configs, p \in Proposers :
      /\ GenesisAccepts(c)
      /\ config = c
      /\ workload \in Workloads
      /\ smt = initialize_genesis(c)
      /\ block = [height |-> 1, proposer |-> p, fee |-> NoFee]
      /\ issued = GenesisSupply(c)
      /\ rewards = 0
      /\ governed = <<>>

GovernanceTypes == {"MultisigTx", "RotateMultisig", "EmergencyPause", "EmergencyResume"}

AddFees(f, g) ==
    [burned |-> f.burned + g.burned, validator |-> f.validator + g.validator,
     treasury |-> f.treasury + g.treasury]

Owed(s, u) ==
    IF s.validators[u] = NoEntry \/ Ejected(s, u) THEN 0
    ELSE s.rewards_per_validator - s.validators[u].last_claimed_at

\* A transaction the gate or the validation refuses leaves no trace.
Execute(tx) ==
    /\ is_paused(smt, block.height) => tx.type = "EmergencyResume"
    /\ validate_transaction(tx, load_account(smt, tx.from), smt.nonces[tx.from],
                            locked(smt, tx.from, block.height), block.height)
    /\ \E ran \in PvmRuns :
         LET out == execute_transaction(smt, tx, block.height, ran)
         IN  /\ smt' = out.smt
             /\ block' = [block EXCEPT !.fee = AddFees(@, out.fee)]
             /\ rewards' = IF tx.type = "ClaimReward" /\ out.ok
                           THEN rewards - Owed(smt, tx.from) ELSE rewards
             /\ governed' = IF tx.type \in GovernanceTypes /\ out.ok
                            THEN Append(governed, [sigs |-> tx.data.sigs, under |-> smt.multisig])
                            ELSE governed
    /\ UNCHANGED <<config, workload, issued>>

inflation_rate_bps(year) ==
    CASE year = 0 -> 500 [] year = 1 -> 300 [] year = 2 -> 200 [] OTHER -> 100

block_reward(slot) == (PER_BLOCK_BASE * inflation_rate_bps(slot \div BLOCKS_PER_YEAR)) \div 10000

apply_block_fees(s, proposer, fee) ==
    LET paid == IF fee.validator > 0 THEN AddTo(s, proposer, fee.validator) ELSE s
    IN  IF fee.treasury > 0 THEN AddTo(paid, Treasury, fee.treasury) ELSE paid

Accrue(s, amount) ==
    IF s.active_count = 0 THEN s
    ELSE [s EXCEPT !.rewards_per_validator = @ + amount \div s.active_count]

MintOf(height, proposer) == IF proposer = Zero THEN 0 ELSE block_reward(height)

ServiceShare(mint) == (mint * SERVICE_SHARE_PCT) \div 100

\* The service share goes to the proposer if it has an account, the rest to the
\* accumulator all active validators claim from.
MintBlock(s, height, proposer) ==
    LET mint == MintOf(height, proposer)
        paid == IF s.accounts[proposer] = NoAccount THEN s
                ELSE AddTo(s, proposer, ServiceShare(mint))
    IN  IF mint = 0 THEN s
        ELSE [Accrue(paid, mint - ServiceShare(mint)) EXCEPT !.total_supply = @ + mint]

SubsidyOf(s, height) ==
    IF height < s.subsidy.end_slot /\ s.active_count > 0 THEN s.subsidy.per_block ELSE 0

EndBlock(next_proposer) ==
    LET mint == MintOf(block.height, block.proposer)
        s1 == apply_block_fees(smt, block.proposer, block.fee)
        s2 == MintBlock(s1, block.height, block.proposer)
        s3 == Accrue(s2, SubsidyOf(s2, block.height))
    IN  /\ block.height < MaxHeight
        /\ smt' = [s3 EXCEPT !.total_burned = @ + block.fee.burned]
        /\ issued' = issued + mint + SubsidyOf(s2, block.height)
        /\ rewards' = rewards + (mint - ServiceShare(mint)) + SubsidyOf(s2, block.height)
        /\ block' = [height |-> block.height + 1, proposer |-> next_proposer, fee |-> NoFee]
        /\ UNCHANGED <<config, workload, governed>>

LedgerNext ==
    \/ \E tx \in workload : Execute(tx)
    \/ \E p \in Proposers : EndBlock(p)

LedgerSpec == LedgerInit /\ [][LedgerNext]_ledger_vars

(***************************************************************************)
(* Properties.                                                             *)
(***************************************************************************)

Circulating(s) ==
    SumOf([a \in Addresses |-> load_account(s, a).balance + load_account(s, a).gas_tank])
      + SumOf([u \in Users |-> StakeOf(s, u)])
      + SumOf([u \in Users |-> Owed(s, u)])

\* Nothing is created except by the mint and the subsidy: what accounts hold,
\* what is staked, what validators may claim, the fees the block still owes its
\* proposer and the treasury, and what was burned never exceed what was issued.
\* It is about the copies execute_transaction_inner works on, which alias when
\* sender, recipient, proposer, treasury or a handler's account coincide.  The
\* stakes of genesis validators are balances as well, so they are left out.
NoInflation ==
    config.validators = <<>> =>
      Circulating(smt) + block.fee.validator + block.fee.treasury
        + smt.total_burned + block.fee.burned <= issued

\* What validators may claim is covered by the shares accrued for them, so a
\* late joiner, an ejected member or a repeated claim takes nobody's share.
OwedWithinPool == SumOf([u \in Users |-> Owed(smt, u)]) <= rewards

\* The same where validators registered by StakeDeposit only.
StakersOwedWithinPool == config.validators = <<>> => OwedWithinPool

\* An account with a vesting schedule keeps what is locked, as balance or as
\* its own stake, whatever it sends, deploys, stakes or pays for gas.
LockedStaysPut ==
    \A u \in Users :
      ~Ejected(smt, u) =>
        load_account(smt, u).balance + StakeOf(smt, u) >= locked(smt, u, block.height)

\* A quorum's signatures take effect once: every governance action that took
\* effect was signed by threshold many distinct keys of the set in force, for a
\* multisig nonce no earlier action used, even when two submitters relay it.
GovernedOnce ==
    \A i \in DOMAIN governed :
      LET g == governed[i]
          keys == {g.sigs[k].key : k \in {k \in DOMAIN g.sigs : g.sigs[k].nonce = g.under.nonce}}
      IN  /\ Cardinality(keys \cap Range(g.under.signers)) >= g.under.threshold
          /\ \A j \in DOMAIN governed : governed[j].under.nonce = g.under.nonce => i = j

\* Until the deadline has passed, the pool pays every leaf not claimed yet.
UnclaimedCovered ==
    block.height <= smt.airdrop.deadline =>
      load_account(smt, AirdropPool).balance
        >= SumOf([i \in DOMAIN smt.airdrop.root |->
                    IF i \in smt.airdrop.claimed THEN 0 ELSE smt.airdrop.root[i].amount])
==============================================================================
