----------------------------- MODULE Evolution -----------------------------
(***************************************************************************)
(* One evolution campaign: the controller (src/src/controller.cpp) moving   *)
(* the authority over a shard from the source component to the target, the  *)
(* two components, the calls between them, and clients that write.          *)
(*                                                                          *)
(* The controller runs one operation at a time under its mutex, and an      *)
(* operation is a chain of calls to the components: each call is a step     *)
(* here, together with what the controller does until the next one.  In     *)
(* between, clients write, components restart, time passes and the          *)
(* controller may die, losing what it had not saved.  A call can fail at    *)
(* the controller while its request is lost, or while the component still   *)
(* executes it, then or later: `late` holds such requests.                  *)
(*                                                                          *)
(* Left out: the epoch journal (nothing reads it back into the state), I/O  *)
(* errors, preflight's protocol negotiation, and all but one of the rounds  *)
(* of run_to_completion, which is repeated Advance.                         *)
(***************************************************************************)
EXTENDS ShardAuthority, ControlPlaneNode, HandoffCampaign

CONSTANTS
    MaxRestarts,    \* kMaxHandoffRestarts
    MaxRounds,      \* max_catch_up_rounds
    Boundaries,     \* whether the manifest's migration path has an irreversible step: which cases
    Operations,     \* the operations operators call
    MaxBoot,        \* bound on a component's restarts
    MaxCrashes,     \* bound on the controller's restarts
    Failures,       \* what becomes of a request whose call fails
    MaxLosses,      \* bound on failed calls
    MaxWrites,      \* bound on client writes
    MaxProbes,      \* bound on the probe writes a component has accepted
    MaxPlans,       \* bound on campaigns
    MaxTime         \* bound on the clock

Component == {"source", "target"}

Operation == {"Plan", "Preflight", "Start", "Advance", "Pause", "Resume", "Abort", "Reconcile"}

\* The request is lost, or its answer is, or the request waits in the component's queue or
\* socket and is executed after the controller has gone on.
Failure == {"request lost", "answer lost", "late"}

ASSUME EvolutionAssumption ==
    /\ Incarnation = [comp: Component, boot: 1..MaxBoot]
    /\ {MaxRestarts, MaxRounds, MaxBoot} \subseteq Nat \ {0}
    /\ Boundaries \subseteq BOOLEAN /\ Boundaries # {}
    /\ Operations \subseteq Operation
    /\ Failures \subseteq Failure
    /\ {MaxCrashes, MaxLosses, MaxWrites, MaxProbes, MaxPlans, MaxTime} \subseteq Nat
    /\ LeaseTtl <= MaxTtl

VARIABLES
    ctl,     \* the controller: mem, what save_state writes of it (disk), and where it is
    nodes,   \* the components
    late,    \* requests given up by the controller that a component may still execute
    now,     \* wall clock
    acked,   \* client writes acknowledged
    faults   \* calls failed and controller restarts so far

vars == <<ctl, nodes, late, now, acked, faults>>

IncarnationOf(comp) == [comp |-> comp, boot |-> nodes[comp].boot]

NoReport == [inc |-> [comp |-> "none", boot |-> 0]]
NoClaim == [token |-> -1]
NoHandoff == -1
Nobody == [comp |-> "none", boot |-> 0]

\* What the controller persists.  camp, phase, pred, succ and attempt are the campaign's and
\* the handoff's, claim is fenced_predecessor_claim_, lsn the handoff's target_lsn.
InitialMemory ==
    [auth |-> Established(1), camp |-> "Planned", crossed |-> FALSE,
     phase |-> NoHandoff, pred |-> Nobody, succ |-> Nobody, attempt |-> 0,
     claim |-> NoClaim, lsn |-> 0, winAt |-> -1, winLsn |-> 0]

\* pc is the call the controller is about to make and data what it carries there; op is what
\* the reports and ensure_holder_authority are for; irreversible is the manifest's.  tokens
\* counts the tokens minted, plans the campaigns planned.
Init ==
    /\ ctl \in [mem: {InitialMemory}, disk: {InitialMemory}, irreversible: Boundaries,
                pc: {"idle"}, op: {""}, src: {NoReport}, tgt: {NoReport}, data: {0},
                rounds: {0}, refreshes: {0}, tokens: {0}, plans: {1}]
    /\ nodes = [comp \in Component |-> FreshNode(IF comp = "source" THEN SourceSchema ELSE TargetSchema)]
    /\ late = {}
    /\ now = 0
    /\ acked = {}
    /\ faults = [calls |-> 0, crashes |-> 0]

----------------------------------------------------------------------------
(* The controller between two calls: functions of its state c *)

\* F(x), with x evaluated once: TLC would otherwise recompute it wherever F uses it.
Given(x, F(_)) == CHOOSE y \in {F(z) : z \in {x}} : TRUE

Save(c) == [c EXCEPT !.disk = c.mem]

Idle(c) == [c EXCEPT !.pc = "idle", !.op = "", !.src = NoReport, !.tgt = NoReport,
                     !.data = 0, !.rounds = 0, !.refreshes = 0]

Goto(c, pc, data) == [c EXCEPT !.pc = pc, !.data = data]

\* bind_nodes, on behalf of op.
Bind(c, op) == [Goto(c, "report.src", 0) EXCEPT !.op = op]

SetAuth(c, auth) == [c EXCEPT !.mem.auth = auth]

\* apply_action
Decided(c, action) ==
    Decision(c.mem.camp, action, IF c.mem.phase = NoHandoff THEN NotStarted ELSE c.mem.phase, c.mem.crossed)

Accepts(c, action) == Decided(c, action) \notin {"refused", "deferred"}

ApplyAction(c, action) ==
    IF Accepts(c, action) THEN Save([c EXCEPT !.mem.camp = Decided(c, action)])
    ELSE IF Decided(c, action) = "deferred" THEN Save(c)
    ELSE c

\* Mutant: the phase is recorded in memory and saved with the next one.
RecordPhase_MemoryOnly(c, to) ==
    IF ValidTransition(c.mem.phase, to) THEN [c EXCEPT !.mem.phase = to] ELSE c

RecordPhase(c, to) ==
    IF c.mem.phase # to /\ ValidTransition(c.mem.phase, to)
    THEN Save([c EXCEPT !.mem.phase = to]) ELSE c

\* AuthorityView: the mutating lease in state Active, and the one in the slot.
MutatingIds(a) == {i \in SlotLeases(a, now) : EffectiveState(a.leases[i], now) = "Active"}
HasMutating(a) == MutatingIds(a) # {}
MutatingLease(a) == a.leases[Oldest(MutatingIds(a))]

\* Mutant: only a live lease gives a source claim.
HasSourceClaim_LiveOnly(c) == HasMutating(c.mem.auth)

\* current_source_claim
HasSourceClaim(c) == c.mem.claim # NoClaim \/ HasMutating(c.mem.auth)
SourceClaim(c) == IF c.mem.claim # NoClaim THEN c.mem.claim ELSE ClaimOf(MutatingLease(c.mem.auth))

\* At most one fence of an incarnation is outstanding: request_fence refuses a second.
OutstandingAcknowledged(a, h) ==
    IF OutstandingFences(a, h) = {} THEN a
    ELSE AcknowledgeFenceResult(a, h, Oldest(OutstandingFences(a, h))).auth

Replaced(recorded, report) ==
    recorded.comp = report.inc.comp /\ report.inc.boot > recorded.boot

----------------------------------------------------------------------------
(* Restarted participants *)

RestartHandoff(c, pred, succ, rewind) ==
    Save([c EXCEPT !.mem.pred = pred, !.mem.succ = succ,
                   !.mem.attempt = c.mem.attempt + 1,
                   !.mem.phase = rewind,
                   !.mem.lsn = IF rewind = NotStarted THEN 0 ELSE c.mem.lsn])

\* The lease of a replaced slot holder is revoked and its fence acknowledged.
ReplacedHolderRevoked(c) ==
    LET a      == c.mem.auth
        slot   == SlotLeases(a, now)
        holder == a.leases[Oldest(slot)].holder
    IN  IF slot # {} /\ (Replaced(holder, c.src) \/ Replaced(holder, c.tgt))
        THEN SetAuth(c, RevokeResult(OutstandingAcknowledged(a, holder), Oldest(slot)).auth)
        ELSE c

RewindPhase(phase) == IF phase >= PredecessorFenced THEN Prepared ELSE NotStarted

PredecessorReplaced(c) == Replaced(c.mem.pred, c.src) /\ c.mem.phase < PredecessorFenced
SuccessorReplaced(c) == Replaced(c.mem.succ, c.tgt)

\* Mutant: one restart too many.
RestartsExhausted_OffByOne(c) ==
    /\ c.mem.phase # NoHandoff
    /\ c.mem.attempt > MaxRestarts
    /\ PredecessorReplaced(c) \/ (SuccessorReplaced(c) /\ c.mem.phase < AuthorityTransferred)

\* reconcile_incarnations fails only when a handoff has been restarted too often.
RestartsExhausted(c) ==
    /\ c.mem.phase # NoHandoff
    /\ c.mem.attempt >= MaxRestarts
    /\ PredecessorReplaced(c) \/ (SuccessorReplaced(c) /\ c.mem.phase < AuthorityTransferred)

ReconcileIncarnations(c) ==
    LET r == ReplacedHolderRevoked(c)
    IN  IF c.mem.phase = NoHandoff THEN c
        ELSE IF RestartsExhausted(c) THEN r
        ELSE IF PredecessorReplaced(c) THEN RestartHandoff(r, c.src.inc, c.mem.succ, NotStarted)
        ELSE IF SuccessorReplaced(c) /\ c.mem.phase < AuthorityTransferred
             THEN RestartHandoff(r, c.mem.pred, c.tgt.inc, RewindPhase(c.mem.phase))
        ELSE IF SuccessorReplaced(c) THEN Save([r EXCEPT !.mem.succ = c.tgt.inc])
        ELSE r

----------------------------------------------------------------------------
(* Phases, up to their first call *)

SnapshotStep(c) == 
    IF HasSourceClaim(c) THEN Goto(c, "snapshot.prepare", SourceClaim(c)) ELSE Idle(c)

CatchUpRound(c) ==
    IF c.rounds < MaxRounds THEN Goto([c EXCEPT !.rounds = c.rounds + 1], "catchup.read", 0)
    ELSE Goto(c, "catchup.src", 0)

VerifyStep(c) ==
    IF HasMutating(c.mem.auth) THEN Goto(c, "verify.report", Oldest(MutatingIds(c.mem.auth))) ELSE Idle(c)

\* advance_fence: the fence is recorded and saved before the predecessor hears of it.
FenceStep(c) ==
    LET a == c.mem.auth
        r == RequestFenceResult(a, c.mem.pred, now)
    IN  IF ~HasMutating(a) /\ c.src.life \in {"Fenced", "Retired"}
        THEN Idle(RecordPhase(SetAuth(c, OutstandingAcknowledged(a, c.mem.pred)), PredecessorFenced))
        ELSE IF OutstandingFences(a, c.mem.pred) # {}
        THEN Goto(c, "fence", Oldest(OutstandingFences(a, c.mem.pred)))
        ELSE IF r.code # "Ok" THEN Idle(SetAuth(c, r.auth))
        ELSE Goto(Save(SetAuth(c, r.auth)), "fence", Oldest(OutstandingFences(r.auth, c.mem.pred)))

\* Grants authority in the registry; on success the lease goes out with the call at pc.
GrantThen(c, holder, pc, refused) ==
    LET r == GrantResult(c.mem.auth, holder, "Mutating", LeaseTtl, now, c.tokens)
        g == SetAuth(c, r.auth)
    IN  IF r.code # "Ok" THEN [refused EXCEPT !.mem.auth = r.auth]
        ELSE Goto([g EXCEPT !.tokens = IF r.lease = c.mem.auth.nextLease THEN c.tokens + 1 ELSE c.tokens],
                  pc, r.lease)

\* The end of advance_transfer's catch-up, and its rounds.
TransferGrant(c) ==
    LET d == [c EXCEPT !.mem.lsn = c.src.lsn]
    IN  GrantThen(d, d.mem.succ, "transfer.deliver", Idle(d))

\* Mutant: no final catch-up, the successor was caught up before the fence.
TransferRound_Skipped(c) == TransferGrant(c)

TransferRound(c) ==
    IF c.rounds < MaxRounds THEN Goto([c EXCEPT !.rounds = c.rounds + 1], "transfer.tgt", 0)
    ELSE TransferGrant(c)

----------------------------------------------------------------------------
(* advance_locked, once the components have reported and authority is in place *)

WindowOperations(c) ==
    LET reached == IF c.src.lsn > c.tgt.lsn THEN c.src.lsn ELSE c.tgt.lsn
    IN  IF reached > c.mem.winLsn THEN reached - c.mem.winLsn ELSE 0

Exhausted(c) == c.mem.winAt >= 0 /\ WindowExhausted(WindowOperations(c), now - c.mem.winAt)

PhaseStep(c) ==
    IF Exhausted(c) THEN Idle(ApplyAction(c, "Pause"))
    ELSE CASE c.mem.phase = NotStarted           -> Bind(c, "prepare")
           [] c.mem.phase = Prepared             -> SnapshotStep(c)
           [] c.mem.phase = SnapshotSynchronized -> CatchUpRound(c)
           [] c.mem.phase = CaughtUp             -> Goto(c, "readiness", 0)
           [] c.mem.phase = ReadinessVerified    -> FenceStep(c)
           [] c.mem.phase = PredecessorFenced    -> Goto(c, "transfer.src", 0)
           [] c.mem.phase = AuthorityTransferred -> VerifyStep(c)
           [] c.mem.phase = SuccessorVerified    -> Goto(c, "retire", 0)
           [] c.mem.phase >= PredecessorRetired  -> Idle(c)

\* The end of begin_handoff: the predecessor's claim is recorded and the window opens.
Begun(c) ==
    LET a == c.mem.auth
        claimed == IF /\ HasMutating(a)
                      /\ MutatingLease(a).holder = c.mem.pred
                      /\ c.mem.claim = NoClaim
                   THEN [c EXCEPT !.mem.claim = ClaimOf(MutatingLease(a))] ELSE c
        opened == IF c.mem.winAt < 0
                  THEN [claimed EXCEPT !.mem.winAt = now, !.mem.winLsn = c.src.lsn] ELSE claimed
    IN  Bind(Save(opened), "advance")

\* The end of reconcile.
ReconcileTail(c) ==
    LET a == c.mem.auth
        transferred == /\ HasMutating(a)
                       /\ MutatingLease(a).holder = c.mem.succ
                       /\ c.tgt.hasAuthority /\ c.tgt.lease.token = MutatingLease(a).token
                       /\ c.mem.phase < AuthorityTransferred
        c1 == IF transferred THEN RecordPhase(c, AuthorityTransferred) ELSE c
        c2 == IF c.src.life \in {"Fenced", "Retired"} /\ c1.mem.phase = ReadinessVerified
              THEN RecordPhase(c1, PredecessorFenced) ELSE c1
    IN  IF c.mem.phase = NoHandoff THEN Idle(c)
        ELSE IF transferred /\ c1.mem.phase # AuthorityTransferred THEN Idle(c)
        ELSE IF ~PredecessorReplaced(c2) THEN Idle(Save(c2))
        ELSE IF c2.mem.attempt >= MaxRestarts THEN Idle(c2)
        ELSE Idle(RestartHandoff(c2, c.src.inc, c.mem.succ, NotStarted))

\* What follows ensure_holder_authority, when it succeeds and when it does not.
Ensured(c) ==
    CASE c.op = "begin"     -> Begun(c)
      [] c.op = "advance"   -> PhaseStep(c)
      [] c.op = "prepare"   -> IF HasSourceClaim(c) THEN Goto(c, "prepare.pred", SourceClaim(c)) ELSE Idle(c)
      [] c.op = "preflight" -> Idle(Save(c))
      [] c.op = "reconcile" -> ReconcileTail(c)

NotEnsured(c) ==
    CASE c.op \in {"begin", "advance", "prepare"} -> Idle(c)
      [] c.op = "preflight" -> Idle(Save([c EXCEPT !.mem.camp = "Failed"]))
      [] c.op = "reconcile" -> ReconcileTail(c)

RenewThreshold(l) == IF l.expires > LeaseTtl \div 2 THEN l.expires - LeaseTtl \div 2 ELSE l.expires

\* ensure_holder_authority, up to its first call.
EnsureHolder(c, report, op) ==
    LET a == c.mem.auth
        e == [c EXCEPT !.op = op]
        l == MutatingLease(a)
        confirmed == /\ HasMutating(a)
                     /\ l.holder = report.inc
                     /\ report.hasAuthority /\ report.lease.token = l.token
    IN  IF OutstandingFences(a, report.inc) # {} THEN Ensured(e)
        ELSE IF confirmed /\ l.attested /\ now < RenewThreshold(l) THEN Ensured(e)
        ELSE IF confirmed /\ l.attested THEN GrantThen(e, report.inc, "ensure.renew", NotEnsured(e))
        ELSE IF confirmed THEN Goto(e, "ensure.reattest", Oldest(MutatingIds(a)))
        ELSE GrantThen(e, report.inc, "ensure.deliver", NotEnsured(e))

\* Mutant: the predecessor's authority is looked after until the successor has it.
EnsureForPhase_UntilTransferred(c, op) ==
    IF c.mem.phase < AuthorityTransferred THEN EnsureHolder(c, c.src, op)
    ELSE EnsureHolder(c, c.tgt, op)

\* Which component's authority an operation looks after, by the handoff's phase.
EnsureForPhase(c, op) ==
    IF c.mem.phase < PredecessorFenced THEN EnsureHolder(c, c.src, op)
    ELSE IF c.mem.phase >= AuthorityTransferred THEN EnsureHolder(c, c.tgt, op)
    ELSE Ensured([c EXCEPT !.op = op])

----------------------------------------------------------------------------
(* Calls *)

At(pc) == ctl.pc = pc

\* A request as the component executes it.
Executed(req) == Dispatch(nodes[req.to], IncarnationOf(req.to), req, now)

\* open on the saved state: leases come back unattested, a preflight starts over.
Reopened(c) ==
    LET m == [c.disk EXCEPT !.auth = Restored(c.disk.auth),
                            !.camp = IF c.disk.camp = "Preflighting" THEN "Planned" ELSE c.disk.camp]
    IN  Save(Idle([c EXCEPT !.mem = m]))

\* rpc_call: the answer comes back, or the call fails at the controller, or the controller
\* dies before it has seen the answer.
Call(req, OnReply(_), onError) ==
    \E r \in {Executed(req)} :
        /\ \/ /\ ctl' = IF r.ok THEN OnReply(r.body) ELSE onError
              /\ nodes' = [nodes EXCEPT ![req.to] = r.node]
              /\ UNCHANGED <<late, faults>>
           \/ /\ faults.calls < MaxLosses
              /\ faults' = [faults EXCEPT !.calls = faults.calls + 1]
              /\ ctl' = onError
              /\ \E failure \in Failures :
                    /\ nodes' = IF failure = "answer lost" THEN [nodes EXCEPT ![req.to] = r.node] ELSE nodes
                    /\ late' = IF failure = "late" THEN late \cup {req} ELSE late
           \/ /\ faults.crashes < MaxCrashes
              /\ faults' = [faults EXCEPT !.crashes = faults.crashes + 1]
              /\ ctl' = Reopened(ctl)
              /\ nodes' = [nodes EXCEPT ![req.to] = r.node]
              /\ UNCHANGED late
        /\ UNCHANGED <<now, acked>>

\* A component executes a request nobody waits for any more.
ExecuteLate(req) ==
    /\ nodes' = [nodes EXCEPT ![req.to] = Executed(req).node]
    /\ late' = late \ {req}
    /\ UNCHANGED <<ctl, now, acked, faults>>

StatusOf(comp) == [to |-> comp, op |-> "status"]
GrantTo(comp, l) == [to |-> comp, op |-> "grant_authority", claim |-> ClaimOf(l)]
LeaseOf(c) == c.mem.auth.leases[c.data]
Revoked(c) == SetAuth(c, RevokeResult(c.mem.auth, c.data).auth)

----------------------------------------------------------------------------
(* Operators' calls *)

Idling == At("idle")

\* The parts of an operation that need no component.
Local(c) == ctl' = c /\ UNCHANGED <<nodes, late, now, acked, faults>>

\* plan: a new campaign on the same manifest once the last one ended; the handoff stays.
Plan ==
    /\ Idling /\ "Plan" \in Operations
    /\ IsTerminalState(ctl.mem.camp)
    /\ ctl.plans < MaxPlans
    /\ Local(Save([ctl EXCEPT !.mem.camp = "Planned", !.mem.crossed = FALSE, !.mem.winAt = -1,
                              !.plans = ctl.plans + 1]))

Preflight ==
    /\ Idling /\ "Preflight" \in Operations
    /\ Accepts(ctl, "Preflight")
    /\ Local(Bind(ApplyAction(ctl, "Preflight"), "preflight"))

\* begin_handoff, at the start of a campaign without a handoff.
Begin(c) ==
    IF Accepts(c, "Start") THEN Bind(ApplyAction(c, "Start"), "begin") ELSE Idle(c)

Start ==
    /\ Idling /\ "Start" \in Operations
    /\ ctl.mem.phase = NoHandoff
    /\ Local(Begin(ctl))

\* One round of run_to_completion, or the operator's advance.
Advance ==
    /\ Idling /\ "Advance" \in Operations
    /\ ctl.mem.camp # "Paused" /\ ~IsTerminalState(ctl.mem.camp)
    /\ \A comp \in Component : Lsn(nodes[comp]) <= MaxWrites + MaxProbes
    /\ Local(IF ctl.mem.phase = NoHandoff THEN Begin(ctl) ELSE Bind(ctl, "advance"))

Pause ==
    /\ Idling /\ "Pause" \in Operations
    /\ Local(ApplyAction(ctl, "Pause"))

Resume ==
    /\ Idling /\ "Resume" \in Operations
    /\ Local(ApplyAction(ctl, "Resume"))

\* The end of abort.
AbortConfirmed(c) ==
    Idle(Save(ApplyAction([c EXCEPT !.mem.phase = IF c.mem.phase = NoHandoff THEN NoHandoff ELSE Aborted],
                          "ConfirmAbort")))

Abort ==
    /\ Idling /\ "Abort" \in Operations
    /\ Accepts(ctl, "Abort")
    /\ LET c == ApplyAction(ctl, "Abort")
       IN  Local(IF c.mem.camp = "ForwardRecovery" THEN c
                 ELSE IF c.mem.phase = NoHandoff THEN AbortConfirmed(c)
                 ELSE Goto(c, "abort.src", 0))

Reconcile ==
    /\ Idling /\ "Reconcile" \in Operations
    /\ Local(Bind(ctl, "reconcile"))

----------------------------------------------------------------------------
(* bind_nodes, at the head of every operation *)

\* Unreachable components end the operation; they fail a preflight.
Unbound(c) ==
    IF c.op = "preflight" THEN Idle(Save([c EXCEPT !.mem.camp = "Failed"])) ELSE Idle(c)

SourceReport ==
    /\ At("report.src")
    /\ Call(StatusOf("source"),
            LAMBDA body : Goto([ctl EXCEPT !.src = body], "report.tgt", 0),
            Unbound(ctl))

\* What an operation does once both components have reported.
Bound(c) ==
    CASE c.op \in {"preflight", "prepare"} -> EnsureHolder(c, c.src, c.op)
      [] c.op = "begin" -> EnsureHolder([c EXCEPT !.mem.phase = NotStarted, !.mem.attempt = 1,
                                                  !.mem.pred = c.src.inc, !.mem.succ = c.tgt.inc],
                                        c.src, "begin")
      [] c.op \in {"advance", "reconcile"} ->
            IF RestartsExhausted(c) THEN Idle(ReconcileIncarnations(c))
            ELSE Given(ReconcileIncarnations(c), LAMBDA r : EnsureForPhase(r, c.op))

TargetReport ==
    /\ At("report.tgt")
    /\ Call(StatusOf("target"), LAMBDA body : Given([ctl EXCEPT !.tgt = body], Bound), Unbound(ctl))

----------------------------------------------------------------------------
(* ensure_holder_authority *)

\* The component a lease id belongs to.
HolderOf(c) == LeaseOf(c).holder.comp

EnsureRenew ==
    /\ At("ensure.renew")
    /\ Call(GrantTo(HolderOf(ctl), LeaseOf(ctl)),
            LAMBDA body : Ensured(Save(ctl)),
            NotEnsured(ctl))

EnsureReattest ==
    /\ At("ensure.reattest")
    /\ Call([to |-> HolderOf(ctl), op |-> "reattest", token |-> LeaseOf(ctl).token],
            LAMBDA body :
                LET r == ReattestResult(ctl.mem.auth, LeaseOf(ctl).holder, LeaseOf(ctl).token, now)
                IN  IF r.code = "Ok" THEN Ensured(Save(SetAuth(ctl, r.auth)))
                    ELSE NotEnsured(SetAuth(ctl, r.auth)),
            GrantThen(ctl, LeaseOf(ctl).holder, "ensure.deliver", NotEnsured(ctl)))

\* A grant that could not be delivered is revoked, in memory.
EnsureDeliver ==
    /\ At("ensure.deliver")
    /\ Call(GrantTo(HolderOf(ctl), LeaseOf(ctl)),
            LAMBDA body : Ensured(Save(ctl)),
            NotEnsured(Revoked(ctl)))

----------------------------------------------------------------------------
(* Prepared and SnapshotSynchronized *)

PreparePred ==
    /\ At("prepare.pred")
    /\ Call([to |-> "source", op |-> "prepare_source"],
            LAMBDA body : Goto(ctl, "prepare.succ", ctl.data),
            Idle(ctl))

PrepareSucc ==
    /\ At("prepare.succ")
    /\ Call([to |-> "target", op |-> "prepare_target", binding |-> ctl.data],
            LAMBDA body : Idle(RecordPhase(ctl, Prepared)),
            Idle(ctl))

\* advance_snapshot prepares the successor again: it may have restarted since.
SnapshotPrepare ==
    /\ At("snapshot.prepare")
    /\ Call([to |-> "target", op |-> "prepare_target", binding |-> ctl.data],
            LAMBDA body : Goto(ctl, "snapshot.take", 0),
            Idle(ctl))

SnapshotTake ==
    /\ At("snapshot.take")
    /\ Call([to |-> "source", op |-> "snapshot"],
            LAMBDA body : Goto(ctl, "snapshot.install", body),
            Idle(ctl))

\* Within catch-up a new snapshot takes the place of records that were compacted away.
Installed(c) ==
    LET d == RecordPhase([c EXCEPT !.mem.lsn = Len(c.data.doc)], SnapshotSynchronized)
    IN  IF c.refreshes > 0 THEN CatchUpRound(d) ELSE Idle(d)

SnapshotInstall ==
    /\ At("snapshot.install")
    /\ Call([to |-> "target", op |-> "install_snapshot", snapshot |-> ctl.data],
            LAMBDA body : Installed(ctl),
            Idle(ctl))

----------------------------------------------------------------------------
(* CaughtUp and ReadinessVerified *)

CatchUpRead(c, body) ==
    IF body.truncated
    THEN IF c.refreshes >= 2 THEN Idle(c) ELSE SnapshotStep([c EXCEPT !.refreshes = c.refreshes + 1])
    ELSE IF body.entries = <<>> \/ body.lsn <= c.mem.lsn THEN Goto(c, "catchup.src", 0)
    ELSE IF ~HasSourceClaim(c) THEN Idle(c)
    ELSE Goto(c, "catchup.apply", [binding |-> SourceClaim(c), batch |-> body])

CatchUpFetch ==
    /\ At("catchup.read")
    /\ Call([to |-> "source", op |-> "read_since", from |-> ctl.mem.lsn],
            LAMBDA body : CatchUpRead(ctl, body),
            Idle(ctl))

ApplyTo(comp, c) ==
    [to |-> comp, op |-> "apply_records", binding |-> c.data.binding, batch |-> c.data.batch]

CatchUpApply ==
    /\ At("catchup.apply")
    /\ Call(ApplyTo("target", ctl),
            LAMBDA body : IF body <= ctl.mem.lsn THEN Goto(ctl, "catchup.src", 0)
                          ELSE CatchUpRound([ctl EXCEPT !.mem.lsn = body]),
            Idle(ctl))

CatchUpSource ==
    /\ At("catchup.src")
    /\ Call(StatusOf("source"),
            LAMBDA body : Goto([ctl EXCEPT !.src = body], "catchup.tgt", 0),
            Idle(ctl))

\* The successor has to be where the predecessor was when it reported.
CaughtUpWith(c) ==
    LET d == [c EXCEPT !.mem.lsn = c.src.lsn]
    IN  IF c.tgt.lsn < c.src.lsn THEN Idle(c)
        ELSE IF c.tgt.schema # TargetSchema THEN Goto(d, "catchup.migrate", 0)
        ELSE Idle(RecordPhase(d, CaughtUp))

CatchUpTarget ==
    /\ At("catchup.tgt")
    /\ Call(StatusOf("target"), LAMBDA body : CaughtUpWith([ctl EXCEPT !.tgt = body]), Idle(ctl))

CatchUpMigrate ==
    /\ At("catchup.migrate")
    /\ Call([to |-> "target", op |-> "migrate"],
            LAMBDA body : Idle(RecordPhase([ctl EXCEPT !.mem.crossed = ctl.mem.crossed \/ ctl.irreversible],
                                           CaughtUp)),
            Idle(ctl))

VerifyReadiness ==
    /\ At("readiness")
    /\ Call([to |-> "target", op |-> "readiness", lsn |-> ctl.mem.lsn],
            LAMBDA body : IF body.ready
                          THEN Idle(RecordPhase([ctl EXCEPT !.mem.lsn = body.lsn], ReadinessVerified))
                          ELSE Idle(ctl),
            Idle(ctl))

----------------------------------------------------------------------------
(* PredecessorFenced and AuthorityTransferred *)

\* Mutant: the phase is recorded and the acknowledgement is not.
FencePredecessor_Unacknowledged ==
    /\ At("fence")
    /\ Call([to |-> "source", op |-> "fence", target |-> ctl.mem.pred, fence |-> ctl.data],
            LAMBDA body : Idle(RecordPhase(ctl, PredecessorFenced)),
            Idle(Save(ctl)))

\* The acknowledgement is recorded with the phase; a fence nobody answered stays outstanding.
FencePredecessor ==
    /\ At("fence")
    /\ Call([to |-> "source", op |-> "fence", target |-> ctl.mem.pred, fence |-> ctl.data],
            LAMBDA body :
                Idle(RecordPhase(SetAuth(ctl, AcknowledgeFenceResult(ctl.mem.auth, ctl.mem.pred, ctl.data).auth),
                                 PredecessorFenced)),
            Idle(Save(ctl)))

TransferSource ==
    /\ At("transfer.src")
    /\ Call(StatusOf("source"),
            LAMBDA body : TransferRound([ctl EXCEPT !.src = body]),
            Idle(ctl))

TransferTarget ==
    /\ At("transfer.tgt")
    /\ Call(StatusOf("target"),
            LAMBDA body : IF body.lsn >= ctl.src.lsn THEN TransferGrant(ctl)
                          ELSE Goto(ctl, "transfer.read", body.lsn),
            Idle(ctl))

\* A source with nothing to send ends the final catch-up, wherever the successor is.
TransferRead ==
    /\ At("transfer.read")
    /\ Call([to |-> "source", op |-> "read_since", from |-> ctl.data],
            LAMBDA body :
                IF body.entries = <<>> THEN TransferGrant(ctl)
                ELSE IF ~HasSourceClaim(ctl) THEN Idle(ctl)
                ELSE Goto(ctl, "transfer.apply", [binding |-> SourceClaim(ctl), batch |-> body]),
            Idle(ctl))

TransferApply ==
    /\ At("transfer.apply")
    /\ Call(ApplyTo("target", ctl), LAMBDA body : TransferRound(ctl), Idle(ctl))

\* The registry has granted; the phase is recorded once the successor has accepted.
TransferDeliver ==
    /\ At("transfer.deliver")
    /\ Call(GrantTo("target", LeaseOf(ctl)),
            LAMBDA body : Idle(RecordPhase(ctl, AuthorityTransferred)),
            Idle(Save(Revoked(ctl))))

----------------------------------------------------------------------------
(* SuccessorVerified and PredecessorRetired *)

Attests(report, l) ==
    /\ report.hasAuthority
    /\ ClaimMatches([lease |-> report.lease], l.holder, ClaimOf(l))

VerifyReport ==
    /\ At("verify.report")
    /\ Call(StatusOf("target"),
            LAMBDA body :
                IF ~Attests(body, LeaseOf(ctl)) THEN Idle(ctl)
                ELSE Goto(ctl, IF ctl.mem.claim = NoClaim THEN "verify.write" ELSE "verify.probe", ctl.data),
            Idle(ctl))

ProbeWrite(comp, claim) == [to |-> comp, op |-> "write", claim |-> claim, value |-> 0]

\* The fenced predecessor must not accept a write; that the call fails is taken as refusal.
VerifyProbe ==
    /\ At("verify.probe")
    /\ Call(ProbeWrite("source", ctl.mem.claim),
            LAMBDA body : Idle(ctl),
            Goto(ctl, "verify.write", ctl.data))

VerifyWrite ==
    /\ At("verify.write")
    /\ Call(ProbeWrite("target", ClaimOf(LeaseOf(ctl))),
            LAMBDA body : Idle(RecordPhase(ctl, SuccessorVerified)),
            Idle(ctl))

RetirePredecessor ==
    /\ At("retire")
    /\ Call([to |-> "source", op |-> "retire"],
            LAMBDA body : Idle(ApplyAction(RecordPhase(ctl, PredecessorRetired), "Complete")),
            Idle(ctl))

----------------------------------------------------------------------------
(* Rollback *)

\* Mutant: a rollback leaves authority where it is.
AbortSource_NothingRestored ==
    /\ At("abort.src")
    /\ Call(StatusOf("source"), LAMBDA body : Goto(ctl, "abort.retire", 0), Goto(ctl, "abort.retire", 0))

\* The predecessor gets the authority back unless the registry says it still has it.
AbortSource ==
    /\ At("abort.src")
    /\ Call(StatusOf("source"),
            LAMBDA body :
                LET retire == Goto(ctl, "abort.retire", 0)
                    a      == ctl.mem.auth
                IN  IF HasMutating(a) /\ MutatingLease(a).holder = body.inc THEN retire
                    ELSE GrantThen(ctl, body.inc, "abort.deliver", retire),
            Goto(ctl, "abort.retire", 0))

AbortDeliver ==
    /\ At("abort.deliver")
    /\ Call(GrantTo("source", LeaseOf(ctl)),
            LAMBDA body : Goto(ctl, "abort.retire", 0),
            Goto(ctl, "abort.retire", 0))

AbortRetire ==
    /\ At("abort.retire")
    /\ Call([to |-> "target", op |-> "retire"],
            LAMBDA body : AbortConfirmed(ctl),
            AbortConfirmed(ctl))

----------------------------------------------------------------------------
(* Everyone else *)

\* A client writes with the component's current claim; stale claims change nothing.
ClientWrite(comp) ==
    LET n == nodes[comp]
        w == Cardinality(acked) + 1
        r == Write(n, IncarnationOf(comp),
                   [holder |-> IncarnationOf(comp), epoch |-> n.lease.epoch,
                    generation |-> n.lease.generation, token |-> n.lease.token], w, now)
    IN  /\ w <= MaxWrites
        /\ n.lease # NoLease
        /\ r.ok
        /\ nodes' = [nodes EXCEPT ![comp] = r.node]
        /\ acked' = acked \cup {w}
        /\ UNCHANGED <<ctl, late, now, faults>>

\* A component restarts; what it had not got to yet dies with its connections.
NodeRestart(comp) ==
    /\ nodes[comp].boot < MaxBoot
    /\ nodes' = [nodes EXCEPT ![comp] = Rebooted(nodes[comp])]
    /\ late' = {req \in late : req.to # comp}
    /\ UNCHANGED <<ctl, now, acked, faults>>

\* The controller dies between two calls, or before the next one is out.
ControllerRestart ==
    /\ faults.crashes < MaxCrashes
    /\ faults' = [faults EXCEPT !.crashes = faults.crashes + 1]
    /\ ctl' = Reopened(ctl)
    /\ UNCHANGED <<nodes, late, now, acked>>

Tick ==
    /\ now < MaxTime
    /\ now' = now + 1
    /\ UNCHANGED <<ctl, nodes, late, acked, faults>>

Request == Plan \/ Preflight \/ Start \/ Advance \/ Pause \/ Resume \/ Abort \/ Reconcile

Step ==
    \/ SourceReport \/ TargetReport
    \/ EnsureRenew \/ EnsureReattest \/ EnsureDeliver
    \/ PreparePred \/ PrepareSucc
    \/ SnapshotPrepare \/ SnapshotTake \/ SnapshotInstall
    \/ CatchUpFetch \/ CatchUpApply \/ CatchUpSource \/ CatchUpTarget \/ CatchUpMigrate
    \/ VerifyReadiness
    \/ FencePredecessor
    \/ TransferSource \/ TransferTarget \/ TransferRead \/ TransferApply \/ TransferDeliver
    \/ VerifyReport \/ VerifyProbe \/ VerifyWrite \/ RetirePredecessor
    \/ AbortSource \/ AbortDeliver \/ AbortRetire

Next ==
    \/ Request
    \/ Step
    \/ \E req \in late : ExecuteLate(req)
    \/ \E comp \in Component : ClientWrite(comp) \/ NodeRestart(comp)
    \/ ControllerRestart
    \/ Tick

Spec == Init /\ [][Next]_vars

\* The controller finishes what it has begun, and whoever drives the campaign (`start`, or
\* `advance` over and over) keeps calling, whatever else is called in between.
FairSpec ==
    /\ Spec
    /\ WF_vars(Tick)
    /\ WF_vars(Step)
    /\ SF_vars(Preflight) /\ SF_vars(Start) /\ SF_vars(Advance)

----------------------------------------------------------------------------
(* Properties *)

\* Shapes and bounds: a record log is a tail of its document, the state file never covers
\* more than there is, and a handoff is restarted at most MaxRestarts - 1 times.
TypeOK ==
    /\ \A m \in {ctl.mem, ctl.disk} :
          /\ m.camp \in CampaignState
          /\ m.phase \in HandoffPhase \cup {NoHandoff}
          /\ m.attempt \in 0..MaxRestarts
          /\ {m.pred, m.succ} \subseteq Incarnation \cup {Nobody}
          /\ m.claim \in Claim \cup {NoClaim}
          /\ \A i \in DOMAIN m.auth.leases : m.auth.leases[i] \in Lease
          /\ \A i \in DOMAIN m.auth.fences : m.auth.fences[i] \in Fence
    /\ \A comp \in Component :
          LET n == nodes[comp]
          IN  /\ n.boot \in 1..MaxBoot
              /\ n.base \in 0..Len(n.doc)
              /\ n.saved \in 0..Len(n.doc)
              /\ n.schema \in {SourceSchema, TargetSchema}
              /\ n.expected \in Claim \cup {NoBinding}
              /\ n.life \in {"Serving", "Fenced", "Retired"}
    /\ now \in 0..MaxTime
    /\ acked \subseteq 1..MaxWrites

\* Components that accept writes now.
Writers == {comp \in Component : MayMutate(nodes[comp], now)}

Contents(n) == {n.doc[i].value : i \in DOMAIN n.doc}

\* The README's first invariant, where it matters, at the components: the two never accept
\* mutations at the same time, whichever calls failed, whoever restarted, however the leases
\* the controller and the components keep have drifted apart.
SingleWriter == Cardinality(Writers) <= 1

\* A component that accepts mutations has every write a client was told is durable: the
\* snapshot, the catch-up rounds and the final catch-up of advance_transfer leave no gap.
NoLostWrite == \A comp \in Writers : acked \subseteq Contents(nodes[comp])

\* The recorded phase is never ahead of the facts.  From PredecessorFenced on the predecessor
\* does not mutate; from AuthorityTransferred on the successor's saved state has every
\* acknowledged write; and the record an operator is shown is the one a restart would find.
PhaseIsReal ==
    /\ ctl.mem.phase \in PredecessorFenced..PredecessorRetired => "source" \notin Writers
    /\ ctl.mem.phase \in AuthorityTransferred..PredecessorRetired =>
         acked \subseteq {nodes["target"].doc[i].value : i \in 1..nodes["target"].saved}
    /\ ctl.pc = "idle" /\ ctl.mem.phase > NotStarted => ctl.disk.phase = ctl.mem.phase

\* A client's write is in a component's document at most once: a batch of records sent again
\* after a lost answer, or executed long after the controller gave up on it, changes nothing.
AppliedOnce ==
    \A comp \in Component : \A i, j \in DOMAIN nodes[comp].doc :
        nodes[comp].doc[i].value = nodes[comp].doc[j].value => i = j \/ nodes[comp].doc[i].value = 0

\* Between operations, a handoff that has reached PredecessorFenced has no fence of its
\* predecessor left open: one that stays open keeps the mutation slot from the successor.
FenceSettled ==
    ctl.pc = "idle" /\ ctl.mem.phase \in PredecessorFenced..PredecessorRetired
      => OutstandingFences(ctl.mem.auth, ctl.mem.pred) = {}

\* What the component in charge serves is in the form of the schema it declares: migrated
\* state holds nothing the migration has not been applied to.
ServesDeclaredSchema ==
    \A comp \in Writers : \A i \in DOMAIN nodes[comp].doc :
        nodes[comp].doc[i].form = nodes[comp].schema

\* Nobody is unfenced: a process that was fenced does not accept writes again.
NobodyUnfenced ==
    [][\A comp \in Component :
          nodes[comp].life = "Fenced" /\ nodes'[comp].boot = nodes[comp].boot
            => ~MayMutate(nodes[comp], now)']_vars

\* The successor holds migrated state and the migration cannot be undone.
BoundaryCrossed ==
    /\ ctl.irreversible
    /\ ctl.mem.phase \in SnapshotSynchronized..PredecessorRetired
    /\ nodes["target"].schema = TargetSchema

\* A campaign whose migration has crossed an irreversible boundary is not rolled back.
NoRollbackPastBoundary ==
    [][ctl.mem.camp # "Aborting" /\ BoundaryCrossed => ctl'.mem.camp # "Aborting"]_vars

\* A rollback gives the authority back: the campaign does not end as Aborted before the
\* predecessor accepts mutations and the successor does not.
AbortRestores ==
    [][ctl.mem.camp = "Aborting" /\ ctl'.mem.camp = "Aborted" /\ ctl.mem.phase # NoHandoff
         => Writers' = {"source"}]_vars

\* A campaign that has been started and is neither paused nor aborted completes.
CampaignCompletes == (ctl.mem.camp = "Running") ~> (ctl.mem.camp = "Completed")

\* A shard whose predecessor has been fenced gets an owner again.
FencedGetsOwner ==
    (ctl.mem.phase = PredecessorFenced) ~> ("target" \in Writers \/ ctl.mem.phase = Aborted)
=============================================================================
