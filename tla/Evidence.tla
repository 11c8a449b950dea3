------------------------------ MODULE Evidence ------------------------------
(***************************************************************************)
(* The life of slashing evidence: a validator detects an equivocation or   *)
(* hears of one, queues the evidence, relays it, wraps it into Slash       *)
(* transactions of its next proposal, and the chain punishes the offender  *)
(* when a proposal that carries it commits.  Validators restart from their *)
(* persisted queues, and a proposal may never commit.                      *)
(*                                                                         *)
(* A piece of evidence is named by its dedup key, the slot and the signer. *)
(* Offences names what the signers did: two proposals, two votes, or two   *)
(* view changes, for which there is no Slash transaction yet.  Signatures  *)
(* are assumed to verify; what the engine detects is modelled in Engine.   *)
(***************************************************************************)
EXTENDS Integers, Sequences, Functions

CONSTANTS
    Watchers,     \* the validators that follow the code
    Offences,     \* records [slot, signer, kind], kind in {"propose", "vote", "view_change"}
    Committee,    \* the signers whose evidence is accepted
    RETENTION,    \* slots the dedup set remembers (10)
    MaxTick, MaxProposals, MaxCrashes

ASSUME EvidenceAssumption ==
    /\ Offences \subseteq [slot : 1..MaxTick, signer : Committee,
                           kind : {"propose", "vote", "view_change"}]
    /\ RETENTION \in Nat /\ MaxTick \in Nat /\ MaxProposals \in Nat /\ MaxCrashes \in Nat

VARIABLES
    engine,    \* per validator: slot, pending, pending_vc, broadcast, seen
    disk,      \* per validator: the pending, broadcast and seen it persisted
    relayed,   \* evidence on the consensus channel
    proposals, \* the Slash transactions of every proposal not decided yet
    registry,  \* per signer: the entry's status and the finders paid for it
    held,      \* history: what a validator accepted and has not yet put in a block
    made, crashes

ev_vars == <<engine, disk, relayed, proposals, registry, held, made, crashes>>

Key(o) == [slot |-> o.slot, signer |-> o.signer]

Queues(e) == [pending |-> e.pending, broadcast |-> e.broadcast, seen |-> e.seen]

\* The checks of ingest_evidence: not seen before, and in the committee.
Accepts(e, k) == k \notin e.seen /\ k.signer \in Committee

ingest_evidence(e, k) ==
    IF ~Accepts(e, k) THEN e
    ELSE [e EXCEPT !.seen = @ \cup {k}, !.pending = Append(@, k), !.broadcast = Append(@, k)]

\* The same dedup set, a queue of its own that nothing empties and no disk keeps.
ingest_view_change_evidence(e, k) ==
    IF ~Accepts(e, k) THEN e ELSE [e EXCEPT !.seen = @ \cup {k}, !.pending_vc = Append(@, k)]

drain_broadcast_evidence(e) == [e EXCEPT !.broadcast = <<>>]
drain_pending_evidence(e) == [e EXCEPT !.pending = <<>>]

\* A validator that writes the queues before it changes them.
persist_before_change(v, e) == [disk EXCEPT ![v] = Queues(engine[v])]

\* Every change of a queue is on disk before its handler returns.
persist_evidence_state(v, e) == [disk EXCEPT ![v] = Queues(e)]

Persisted(v, e) ==
    /\ engine' = [engine EXCEPT ![v] = e]
    /\ disk' = IF e # engine[v] THEN persist_evidence_state(v, e) ELSE disk

Note(v, k) ==
    held' = IF Accepts(engine[v], k) THEN [held EXCEPT ![v] = @ \cup {k}] ELSE held

\* seen_votes and seen_view_changes remember a slot for as long as seen_evidence,
\* seen_proposals also for as long as the slot is not decided.
Watches(v, o) ==
    /\ engine[v].slot >= o.slot
    /\ o.kind # "propose" => engine[v].slot <= o.slot + RETENTION

------------------------------------------------------------------------------
\* The second of two proposals arrives: queued, and relayed at once.
DoublePropose(v, o) ==
    /\ o.kind = "propose" /\ Watches(v, o)
    /\ LET e == ingest_evidence(engine[v], Key(o))
       IN  relayed' = relayed \cup Range(e.broadcast) /\ Persisted(v, drain_broadcast_evidence(e))
    /\ Note(v, Key(o))
    /\ UNCHANGED <<proposals, registry, made, crashes>>

\* The second of two votes: queued, and relayed with the next proposal.
DoubleVote(v, o) ==
    /\ o.kind = "vote" /\ Watches(v, o)
    /\ Persisted(v, ingest_evidence(engine[v], Key(o)))
    /\ Note(v, Key(o))
    /\ UNCHANGED <<relayed, proposals, registry, made, crashes>>

DoubleViewChange(v, o) ==
    /\ o.kind = "view_change" /\ Watches(v, o)
    /\ Persisted(v, ingest_view_change_evidence(engine[v], Key(o)))
    /\ UNCHANGED <<relayed, proposals, registry, held, made, crashes>>

\* Evidence from the consensus channel, perhaps late, perhaps again.
HearEvidence(v, k) ==
    /\ k \in relayed
    /\ Persisted(v, ingest_evidence(engine[v], k))
    /\ Note(v, k)
    /\ UNCHANGED <<relayed, proposals, registry, made, crashes>>

\* The queue becomes the Slash transactions of a proposal; buffering one's own
\* proposal empties the relay queue as well.
ProposeSlashes(v) ==
    /\ made < MaxProposals
    /\ proposals' = proposals \cup {[n |-> made, slash |-> engine[v].pending]}
    /\ relayed' = relayed \cup Range(engine[v].broadcast)
    /\ Persisted(v, drain_broadcast_evidence(drain_pending_evidence(engine[v])))
    /\ held' = [held EXCEPT ![v] = {}]
    /\ made' = made + 1
    /\ UNCHANGED <<registry, crashes>>

\* A registry that pays for an ejected validator again.
execute_slash_again(r, k) ==
    [r EXCEPT ![k.signer] = [status |-> "ejected", paid |-> @.paid + 1]]

\* An ejected signer is not punished again; the fee goes to the submitter.
execute_slash(r, k) ==
    IF r[k.signer].status = "ejected" THEN r
    ELSE [r EXCEPT ![k.signer] = [status |-> "ejected", paid |-> @.paid + 1]]

\* The registry after the first i Slash transactions of a block, for every i.
Punished(r, slash) ==
    LET after[i \in 0..Len(slash)] == IF i = 0 THEN r ELSE execute_slash(after[i - 1], slash[i])
    IN  after

CommitProposal(p) ==
    /\ registry' = Punished(registry, p.slash)[Len(p.slash)]
    /\ proposals' = proposals \ {p}
    /\ UNCHANGED <<engine, disk, relayed, held, made, crashes>>

\* Another proposal is certified for the slot, or none.
LoseProposal(p) ==
    /\ proposals' = proposals \ {p}
    /\ UNCHANGED <<engine, disk, relayed, registry, held, made, crashes>>

\* The dedup set forgets old slots in memory only.
advance_slot(v) ==
    /\ engine[v].slot < MaxTick
    /\ engine' = [engine EXCEPT ![v].slot = @ + 1,
                                ![v].seen = {k \in @ : k.slot + RETENTION >= engine[v].slot + 1}]
    /\ UNCHANGED <<disk, relayed, proposals, registry, held, made, crashes>>

RestartValidator(v) ==
    /\ crashes < MaxCrashes
    /\ engine' = [engine EXCEPT ![v] = [slot |-> @.slot, pending_vc |-> <<>>,
                                        pending |-> disk[v].pending,
                                        broadcast |-> disk[v].broadcast, seen |-> disk[v].seen]]
    /\ crashes' = crashes + 1
    /\ UNCHANGED <<disk, relayed, proposals, registry, held, made>>

EvInit ==
    /\ engine = [v \in Watchers |-> [slot |-> 1, pending |-> <<>>, pending_vc |-> <<>>,
                                       broadcast |-> <<>>, seen |-> {}]]
    /\ disk = [v \in Watchers |-> Queues(engine[v])]
    /\ relayed = {} /\ proposals = {} /\ made = 0 /\ crashes = 0
    /\ registry = [s \in Committee |-> [status |-> "active", paid |-> 0]]
    /\ held = [v \in Watchers |-> {}]

EvNext ==
    \/ \E v \in Watchers :
          \/ \E o \in Offences : DoublePropose(v, o) \/ DoubleVote(v, o) \/ DoubleViewChange(v, o)
          \/ \E k \in relayed : HearEvidence(v, k)
          \/ ProposeSlashes(v) \/ advance_slot(v) \/ RestartValidator(v)
    \/ \E p \in proposals : CommitProposal(p) \/ LoseProposal(p)

EvSpec == EvInit /\ [][EvNext]_ev_vars

------------------------------------------------------------------------------
(***************************************************************************)
(* Evidence a validator accepted waits for its next proposal, whatever     *)
(* crashes and repeats come between: ingest_evidence persists the queue    *)
(* "BEFORE returning so a crash between ingest and the next drain_* call   *)
(* cannot lose the evidence", and the restart restores it.                 *)
(***************************************************************************)
AcceptedIsKept == \A v \in Watchers : held[v] \subseteq Range(engine[v].pending)

(***************************************************************************)
(* An offender is punished at most once and one finder is paid, though     *)
(* several validators queue the same evidence, a queue may hold it twice   *)
(* once the dedup set has forgotten the slot, and several proposals with   *)
(* it may commit (execute_slash refuses an ejected signer).                *)
(***************************************************************************)
PunishedOnce == \A s \in Committee : registry[s].paid <= 1

(***************************************************************************)
(* A pair (slot, signer) is in pending_evidence at most once, as the       *)
(* comment on seen_evidence says.  It does not hold: a pair that waits     *)
(* longer than the retention window is queued again when it is heard again. *)
(***************************************************************************)
PendingAtMostOnce == \A v \in Watchers : IsInjective(engine[v].pending)

(***************************************************************************)
(* Evidence is never lost: what a validator has seen in the retention      *)
(* window is queued, in an undecided proposal, or punished.  It does not   *)
(* hold: nobody re-queues what a lost proposal carried, as the comment on  *)
(* drain_pending_evidence asks of the caller, and evidence of two view     *)
(* changes, which has no Slash transaction, takes the dedup key.           *)
(***************************************************************************)
SeenIsPunished ==
    \A v \in Watchers : \A k \in engine[v].seen :
        \/ k \in Range(engine[v].pending) \/ registry[k.signer].status = "ejected"
        \/ \E p \in proposals : k \in Range(p.slash)
==============================================================================
