------------------------ MODULE ApprovalPipelineProofs ------------------------
(***************************************************************************)
(* What ApprovalPipeline promises, for every set of datasets, parameter    *)
(* sets and diagnostics, and every number of runs.                         *)
(***************************************************************************)
EXTENDS ApprovalPipeline, FiniteSetTheorems, TLAPS

-----------------------------------------------------------------------------
(* The inductive invariant *)

\* The rows of one run and one parameter set, a row for a dataset.
OneSource(t) ==
  \A i, j \in DOMAIN t :
    /\ t[i].run = t[j].run /\ t[i].params = t[j].params
    /\ t[i].key = t[j].key => i = j

AllEarned(t) == \A i \in Approved(t) : <<t[i].run, t[i].key>> \in earned

\* A batch is of the run under way, and the table of an earlier one.
RunOrder ==
  /\ \A i \in DOMAIN batch : batch[i].run = runs
  /\ \A i \in DOMAIN table : table[i].run <= runs
  /\ auditor.read <= runs
  /\ optimizer = "idle" => batch = <<>>
  /\ optimizer = "saving" => /\ \A i \in DOMAIN table : table[i].run < runs
                             /\ auditor.read < runs

\* While the batch an audit read is in the table, what the audit has still to
\* withdraw is on its list, or among the rows it has just selected.
AuditTracks ==
  (auditor.pc = "writing" /\ \A i \in DOMAIN table : table[i].run = auditor.read) =>
    \A i \in DOMAIN table :
      /\ auditor.ids \subseteq DOMAIN table
      /\ StrategyOf[table[i].params] = auditor.strategy
      /\ (table[i].approved /\ table[i].key \in auditor.down) =>
            (table[i].key \in auditor.left \/ i \in auditor.ids)

\* The keys the trader will look for are those its gate let through.
GateHolds ==
  (trader.pc = "gated" /\ trader.gated) =>
    \A k \in trader.filter : \E pr \in proven : pr[2] = k

IInv ==
  /\ TypeOK
  /\ OneSource(table) /\ OneSource(batch)
  /\ AllEarned(table) /\ AllEarned(batch)
  /\ RunOrder /\ AuditTracks /\ GateHolds

-----------------------------------------------------------------------------
(* Lemmas about the operators *)

\* The replay approves a row or not, and changes nothing else of it; a row it
\* leaves approved was approved before, and its replay found no reason against.
LEMMA AuditForRuntimeRow ==
  ASSUME NEW row \in Row, NEW d \in Diagnostics
  PROVE  LET new == AuditForRuntime(row, d) IN
         /\ new \in Row
         /\ new.run = row.run /\ new.params = row.params /\ new.key = row.key
         /\ new.approved => row.approved /\ d.loads /\ RuntimeViable(d)
  <1>1. d.loads \in BOOLEAN
    BY DiagnosticsAssumption
  <1>2. CASE row.approved /\ AuditCombination(TRUE, d) # "approved"
    BY <1>2 DEF AuditForRuntime, Row
  <1>3. CASE ~(row.approved /\ AuditCombination(TRUE, d) # "approved")
    <2>1. AuditForRuntime(row, d) = row
      BY <1>3 DEF AuditForRuntime
    <2>2. row.approved => AuditCombination(TRUE, d) = "approved"
      BY <1>3 DEF Row
    <2>3. AuditCombination(TRUE, d) = "approved" => d.loads /\ RuntimeViable(d)
      BY <1>1 DEF AuditCombination
    <2> QED
      BY <2>1, <2>2, <2>3
  <1> QED
    BY <1>2, <1>3

\* A row is never approved by a withdrawal, and nothing else of it changes.
LEMMA WithdrawRows ==
  ASSUME NEW t \in Seq(Row), NEW ids
  PROVE  LET new == Withdraw(t, ids) IN
         /\ new \in Seq(Row) /\ DOMAIN new = DOMAIN t
         /\ \A i \in DOMAIN t :
              /\ new[i].run = t[i].run /\ new[i].params = t[i].params
              /\ new[i].key = t[i].key
              /\ new[i].approved => (t[i].approved /\ i \notin ids)
  <1> DEFINE new == Withdraw(t, ids)
  <1>1. DOMAIN new = DOMAIN t /\ DOMAIN t = 1 .. Len(t) /\ Len(t) \in Nat
    BY DEF Withdraw
  <1>2. ASSUME NEW i \in DOMAIN t
        PROVE  /\ new[i] \in Row
               /\ new[i].run = t[i].run /\ new[i].params = t[i].params
               /\ new[i].key = t[i].key
               /\ new[i].approved => (t[i].approved /\ i \notin ids)
    <2>1. t[i] \in Row
      BY <1>1
    <2>2. new[i] = IF i \in ids THEN [t[i] EXCEPT !.approved = FALSE] ELSE t[i]
      BY DEF Withdraw
    <2> QED
      BY <2>1, <2>2 DEF Row
  <1>3. new = [i \in 1 .. Len(t) |-> new[i]]
    BY <1>1 DEF Withdraw
  <1>4. new \in Seq(Row)
    BY <1>1, <1>2, <1>3
  <1> QED
    BY <1>1, <1>2, <1>4

\* What a row of a table or a batch is made of.
LEMMA RowsTyped ==
  ASSUME NEW t \in Seq(Row)
  PROVE  /\ DOMAIN t = 1 .. Len(t) /\ Len(t) \in Nat
         /\ \A i \in DOMAIN t : /\ t[i].run \in Int /\ t[i].run \in 1 .. MaxRuns
                                /\ t[i].params \in ParamSets /\ t[i].key \in Keys
  <1>1. \A i \in DOMAIN t : t[i] \in Row
    OBVIOUS
  <1> QED
    BY <1>1 DEF Row

\* A batch is of one run and one parameter set, names a dataset once, and
\* approves only what passed every gate.
LEMMA BatchOfRun ==
  ASSUME NEW r \in 1 .. MaxRuns, NEW p \in ParamSets, NEW o \in [Keys -> Outcomes],
         NEW replay \in [Keys -> Diagnostics], NEW order \in InOrder(Evaluated(o)),
         NEW b, b = [i \in DOMAIN order |->
                      AuditForRuntime(BuildApprovalRecord(r, p, o, order[i]),
                                      replay[order[i]])]
  PROVE  /\ b \in Seq(Row) /\ OneSource(b)
         /\ \A i \in DOMAIN b : b[i].run = r
         /\ \A i \in Approved(b) :
              /\ b[i].key \in Keys /\ o[b[i].key] = "ok" /\ PassRateOk(o)
              /\ replay[b[i].key].loads /\ RuntimeViable(replay[b[i].key])
  <1> DEFINE S == Evaluated(o)
             n == Cardinality(S)
  <1>1. S \subseteq Keys /\ n \in Nat
    <2>1. S \subseteq Keys
      BY DEF Evaluated
    <2> QED
      BY <2>1, KeysAssumption, FS_Subset, FS_CardinalityType
  <1>2. order \in [1 .. n -> S] /\ \A i, j \in 1 .. n : i # j => order[i] # order[j]
    BY DEF InOrder
  <1> HIDE DEF S, n
  <1>3. ASSUME NEW i \in 1 .. n
        PROVE  /\ b[i] \in Row /\ b[i].run = r /\ b[i].params = p /\ b[i].key = order[i]
               /\ b[i].approved =>
                    /\ o[order[i]] = "ok" /\ PassRateOk(o)
                    /\ replay[order[i]].loads /\ RuntimeViable(replay[order[i]])
    <2> DEFINE k == order[i]
               row == BuildApprovalRecord(r, p, o, k)
    <2>1. k \in Keys /\ replay[k] \in Diagnostics
      BY <1>1, <1>2
    <2>2. /\ row.run = r /\ row.params = p /\ row.key = k
          /\ row.approved <=> o[k] = "ok" /\ PassRateOk(o)
      BY DEF BuildApprovalRecord, BuildApproval
    <2>3. row \in Row
      BY <2>1 DEF BuildApprovalRecord, BuildApproval, Row, PassRateOk
    <2>4. b[i] = AuditForRuntime(row, replay[k])
      BY <1>2
    <2> QED
      BY <2>1, <2>2, <2>3, <2>4, AuditForRuntimeRow
  <1>4. DOMAIN b = 1 .. n /\ b = [i \in 1 .. n |-> b[i]]
    BY <1>2
  <1>5. b \in Seq(Row)
    BY <1>1, <1>3, <1>4
  <1>6. OneSource(b)
    BY <1>2, <1>3, <1>4 DEF OneSource
  <1> QED
    BY <1>1, <1>2, <1>3, <1>4, <1>5, <1>6 DEF Approved

-----------------------------------------------------------------------------
(* The steps keep the invariant *)

\* The database is empty and no command runs.
LEMMA InitEstablishes == Init => IInv
  <1> SUFFICES ASSUME Init PROVE IInv
    OBVIOUS
  <1>1. table = <<>> /\ batch = <<>> /\ DOMAIN <<>> = {} /\ <<>> \in Seq(Row)
    BY DEF Init
  <1>2. TypeOK
    BY <1>1, BoundsAssumption DEF Init, TypeOK, NoAudit, NoTrade
  <1> QED
    BY <1>1, <1>2, BoundsAssumption
    DEF Init, IInv, OneSource, AllEarned, Approved, RunOrder, AuditTracks, GateHolds,
        NoAudit, NoTrade

\* A run of optimize gets a batch of its own, and changes nothing in the table.
LEMMA EvaluateKeeps == IInv /\ OptimizeEvaluate => IInv'
  <1> SUFFICES ASSUME IInv, OptimizeEvaluate PROVE IInv'
    OBVIOUS
  <1>1. /\ optimizer = "idle" /\ optimizer' = "saving" /\ runs' = runs + 1
        /\ runs \in 0 .. MaxRuns /\ runs + 1 \in 1 .. MaxRuns /\ runs' \in 0 .. MaxRuns
        /\ UNCHANGED <<table, auditor, trader, proven>>
    BY BoundsAssumption DEF OptimizeEvaluate, IInv, TypeOK
  <1>2. /\ batch' \in Seq(Row) /\ OneSource(batch')
        /\ \A i \in DOMAIN batch' : batch'[i].run = runs'
        /\ \A i \in Approved(batch') : <<batch'[i].run, batch'[i].key>> \in earned'
        /\ earned \subseteq earned' /\ earned' \subseteq (1 .. MaxRuns) \X Keys
    <2> DEFINE Gates(o, replay, j) == /\ o[j] = "ok" /\ PassRateOk(o)
                                      /\ replay[j].loads /\ RuntimeViable(replay[j])
               Rows(p, o, replay, order) ==
                 [i \in DOMAIN order |->
                    AuditForRuntime(BuildApprovalRecord(runs + 1, p, o, order[i]),
                                    replay[order[i]])]
    <2>1. PICK outcome \in [ParamSets -> [Keys -> Outcomes]] :
            \/ batch' = <<>> /\ earned' = earned
            \/ \E p \in SelectApprovalParamSet(outcome), replay \in [Keys -> Diagnostics] :
               \E order \in InOrder(Evaluated(outcome[p])) :
                 /\ batch' = Rows(p, outcome[p], replay, order)
                 /\ earned' = earned \cup
                      {<<runs + 1, k>> : k \in {j \in Keys : Gates(outcome[p], replay, j)}}
      BY Zenon DEF OptimizeEvaluate
    <2>2. CASE batch' = <<>> /\ earned' = earned
      <3>1. DOMAIN batch' = {} /\ batch' \in Seq(Row)
        BY <2>2
      <3> QED
        BY <2>2, <3>1 DEF OneSource, Approved, IInv, TypeOK
    <2>3. CASE ~(batch' = <<>> /\ earned' = earned)
      <3>1. PICK p \in SelectApprovalParamSet(outcome), replay \in [Keys -> Diagnostics] :
              \E order \in InOrder(Evaluated(outcome[p])) :
                /\ batch' = Rows(p, outcome[p], replay, order)
                /\ earned' = earned \cup
                     {<<runs + 1, k>> : k \in {j \in Keys : Gates(outcome[p], replay, j)}}
        BY <2>1, <2>3
      <3>2. p \in ParamSets
        BY DEF SelectApprovalParamSet
      <3> DEFINE o == outcome[p]
      <3>3. o \in [Keys -> Outcomes]
        BY <3>2
      <3>4. PICK order \in InOrder(Evaluated(o)) : batch' = Rows(p, o, replay, order)
        BY <3>1
      <3>5. earned' = earned \cup
              {<<runs + 1, k>> : k \in {j \in Keys : Gates(o, replay, j)}}
        BY <3>1
      <3> HIDE DEF o
      <3>6. /\ batch' \in Seq(Row) /\ OneSource(batch')
            /\ \A i \in DOMAIN batch' : batch'[i].run = runs + 1
            /\ \A i \in Approved(batch') :
                 batch'[i].key \in Keys /\ Gates(o, replay, batch'[i].key)
        BY <1>1, <3>2, <3>3, <3>4, BatchOfRun
      <3>7. \A i \in Approved(batch') : <<batch'[i].run, batch'[i].key>> \in earned'
        BY <3>5, <3>6 DEF Approved
      <3>8. earned \subseteq earned' /\ earned' \subseteq (1 .. MaxRuns) \X Keys
        BY <1>1, <3>5 DEF IInv, TypeOK
      <3> QED
        BY <1>1, <3>6, <3>7, <3>8
    <2> QED
      BY <2>2, <2>3
  <1>3. TypeOK'
    BY <1>1, <1>2 DEF IInv, TypeOK
  <1>4. AllEarned(table)' /\ AllEarned(batch)'
    BY <1>1, <1>2 DEF IInv, AllEarned
  <1>5. RunOrder'
    <2>1. \A i \in DOMAIN table : table[i].run \in Int
      BY RowsTyped DEF IInv, TypeOK
    <2>2. auditor.read \in Int
      BY DEF IInv, TypeOK
    <2> QED
      BY <1>1, <1>2, <2>1, <2>2 DEF IInv, RunOrder
  <1>6. AuditTracks' /\ GateHolds'
    BY <1>1 DEF IInv, AuditTracks, GateHolds
  <1> QED
    BY <1>1, <1>2, <1>3, <1>4, <1>5, <1>6 DEF IInv, OneSource

\* A saved batch replaces the table, a lost one leaves it: either way the table
\* is of one run, and the approvals still earned are those in it.
LEMMA SaveKeeps == IInv /\ (OptimizeSave \/ OptimizeKilled) => IInv'
  <1> SUFFICES ASSUME IInv, OptimizeSave \/ OptimizeKilled PROVE IInv'
    OBVIOUS
  <1>1. /\ optimizer = "saving" /\ optimizer' = "idle" /\ batch' = <<>>
        /\ UNCHANGED <<runs, auditor, trader, proven>>
        /\ earned' \subseteq earned
    BY DEF OptimizeSave, OptimizeKilled
  <1>2. DOMAIN batch' = {} /\ batch' \in Seq(Row)
    BY <1>1
  <1>3. /\ \A i \in DOMAIN table : table[i].run < runs /\ table[i].run \in Int
        /\ auditor.read < runs /\ auditor.read \in Int /\ runs \in Int
    BY <1>1, RowsTyped DEF IInv, RunOrder, TypeOK
  <1>4. /\ table' \in Seq(Row) /\ OneSource(table')
        /\ \A i \in DOMAIN table' : table'[i].run <= runs
        /\ \A i \in Approved(table') : <<table'[i].run, table'[i].key>> \in earned'
    <2>1. CASE OptimizeSave
      <3>1. table' = batch /\ earned' = {e \in earned : e[1] = runs}
        BY <2>1 DEF OptimizeSave, SaveBatch
      <3>2. \A i \in DOMAIN batch : batch[i].run = runs
        BY DEF IInv, RunOrder
      <3>3. \A i \in Approved(batch) : <<runs, batch[i].key>> \in earned
        BY <3>2 DEF IInv, AllEarned, Approved
      <3> QED
        BY <1>3, <3>1, <3>2, <3>3 DEF IInv, TypeOK, OneSource, Approved
    <2>2. CASE OptimizeKilled
      <3>1. table' = table /\ earned' = {e \in earned : e[1] # runs}
        BY <2>2 DEF OptimizeKilled
      <3>2. \A i \in Approved(table) : table[i].run # runs
        BY <1>3 DEF Approved
      <3> QED
        BY <1>3, <3>1, <3>2 DEF IInv, TypeOK, OneSource, Approved, AllEarned
    <2> QED
      BY <2>1, <2>2
  <1>5. TypeOK'
    BY <1>1, <1>2, <1>4 DEF IInv, TypeOK
  <1>6. RunOrder'
    BY <1>1, <1>2, <1>3, <1>4 DEF RunOrder
  <1>7. AuditTracks'
    <2>1. CASE table' = table
      BY <1>1, <2>1 DEF IInv, AuditTracks
    <2>2. CASE \A i \in DOMAIN table' : table'[i].run = runs
      BY <1>1, <1>3, <2>2 DEF AuditTracks
    <2>3. table' = table \/ table' = batch
      BY DEF OptimizeSave, OptimizeKilled, SaveBatch
    <2> QED
      BY <2>1, <2>2, <2>3 DEF IInv, RunOrder
  <1> QED
    BY <1>1, <1>2, <1>4, <1>5, <1>6, <1>7
    DEF IInv, OneSource, AllEarned, Approved, GateHolds

\* An audit that has read one batch lists what it has to withdraw.
LEMMA AuditReplayKeeps == IInv /\ AuditReplay => IInv'
  <1> SUFFICES ASSUME IInv, AuditReplay PROVE IInv'
    OBVIOUS
  <1>1. UNCHANGED <<table, runs, batch, optimizer, trader, earned, proven>>
    BY DEF AuditReplay
  <1> DEFINE any == CHOOSE i \in Approved(table) : TRUE
  <1>2. any \in DOMAIN table
    BY DEF AuditReplay, Approved
  <1> HIDE DEF any
  <1>3. /\ table[any].run \in 0 .. MaxRuns /\ table[any].params \in ParamSets
        /\ \A i \in DOMAIN table : table[i].key \in Keys
    BY <1>2, RowsTyped DEF IInv, TypeOK
  <1>4. PICK down \in SUBSET Keys :
          auditor' = [pc |-> "writing", read |-> table[any].run,
                      strategy |-> StrategyOf[table[any].params],
                      down |-> down, left |-> down, ids |-> {}]
    <2>1. PICK replay \in [Approved(table) -> Diagnostics], bad \in SUBSET Approved(table) :
            LET down == {table[i].key : i \in {j \in Approved(table) :
                           AuditVerdict(j \notin bad, replay[j]) = "downgraded"}}
            IN auditor' = [pc |-> "writing", read |-> table[any].run,
                           strategy |-> StrategyOf[table[any].params],
                           down |-> down, left |-> down, ids |-> {}]
      BY DEF AuditReplay, any
    <2> DEFINE down == {table[i].key : i \in {j \in Approved(table) :
                          AuditVerdict(j \notin bad, replay[j]) = "downgraded"}}
    <2>2. down \in SUBSET Keys
      BY <1>3 DEF Approved
    <2> QED
      BY <2>1, <2>2
  <1>5. TypeOK'
    BY <1>1, <1>3, <1>4 DEF IInv, TypeOK
  <1>6. RunOrder'
    BY <1>1, <1>2, <1>4 DEF IInv, RunOrder
  <1>7. AuditTracks'
    BY <1>1, <1>2, <1>4 DEF IInv, OneSource, AuditTracks
  <1> QED
    BY <1>1, <1>5, <1>6, <1>7 DEF IInv, OneSource, AllEarned, Approved, GateHolds

\* A select moves one dataset from the list of the audit to its rows.
LEMMA AuditFindKeeps == IInv /\ AuditFind => IInv'
  <1> SUFFICES ASSUME IInv, AuditFind PROVE IInv'
    OBVIOUS
  <1>1. /\ auditor.pc = "writing" /\ auditor.ids = {}
        /\ UNCHANGED <<table, runs, batch, optimizer, trader, earned, proven>>
    BY DEF AuditFind
  <1>2. table \in Seq(Row) /\ Approved(table) \subseteq DOMAIN table /\ DOMAIN table \subseteq Nat
    BY RowsTyped DEF IInv, TypeOK, Approved
  <1>3. TypeOK' /\ RunOrder' /\ AuditTracks'
    <2>1. CASE auditor.left = {}
      <3>1. auditor' = NoAudit
        BY <2>1 DEF AuditFind
      <3>2. runs \in 0 .. MaxRuns
        BY DEF IInv, TypeOK
      <3> QED
        BY <1>1, <3>1, <3>2, BoundsAssumption DEF IInv, TypeOK, RunOrder, AuditTracks, NoAudit
    <2>2. CASE auditor.left # {}
      <3>1. PICK k \in auditor.left :
              auditor' = [auditor EXCEPT
                !.left = @ \ {k}, !.ids = Matching(table, auditor.strategy, {k})]
        BY <2>2 DEF AuditFind
      <3>2. /\ auditor'.pc = "writing" /\ auditor'.read = auditor.read
            /\ auditor'.strategy = auditor.strategy /\ auditor'.down = auditor.down
            /\ auditor'.left = auditor.left \ {k}
            /\ auditor'.ids = Matching(table, auditor.strategy, {k})
        BY <1>1, <3>1 DEF IInv, TypeOK
      <3>3. auditor'.ids \subseteq DOMAIN table
        BY <1>2, <3>2 DEF Matching
      <3>4. TypeOK'
        <4>1. Matching(table, auditor.strategy, {k}) \in SUBSET Nat
          BY <1>2 DEF Matching
        <4> QED
          BY <1>1, <3>1, <4>1 DEF IInv, TypeOK
      <3>5. RunOrder'
        BY <1>1, <3>2 DEF IInv, RunOrder
      <3>6. AuditTracks'
        <4> SUFFICES ASSUME \A i \in DOMAIN table : table[i].run = auditor.read,
                            NEW i \in DOMAIN table
                     PROVE  /\ StrategyOf[table[i].params] = auditor.strategy
                            /\ (table[i].approved /\ table[i].key \in auditor.down) =>
                                 (table[i].key \in auditor'.left \/ i \in auditor'.ids)
          BY <1>1, <3>2, <3>3 DEF AuditTracks
        <4>1. /\ StrategyOf[table[i].params] = auditor.strategy
              /\ (table[i].approved /\ table[i].key \in auditor.down) =>
                    table[i].key \in auditor.left
          BY <1>1 DEF IInv, AuditTracks
        <4> QED
          BY <4>1, <3>2 DEF Matching, Approved
      <3> QED
        BY <3>4, <3>5, <3>6
    <2> QED
      BY <2>1, <2>2
  <1> QED
    BY <1>1, <1>3 DEF IInv, OneSource, AllEarned, Approved, GateHolds

\* The commit of an audit approves nothing and moves no row.
LEMMA AuditCommitKeeps == IInv /\ AuditCommit => IInv'
  <1> SUFFICES ASSUME IInv, AuditCommit PROVE IInv'
    OBVIOUS
  <1>1. auditor' = NoAudit /\ UNCHANGED <<runs, batch, optimizer, trader, earned, proven>>
    BY DEF AuditCommit
  <1>2. table \in Seq(Row)
    BY DEF IInv, TypeOK
  <1>3. /\ table' \in Seq(Row) /\ DOMAIN table' = DOMAIN table
        /\ \A i \in DOMAIN table :
             /\ table'[i].run = table[i].run /\ table'[i].params = table[i].params
             /\ table'[i].key = table[i].key
             /\ table'[i].approved => table[i].approved
    <2>1. table' = table \/ \E ids : table' = Withdraw(table, ids)
      BY DEF AuditCommit
    <2> QED
      BY <1>2, <2>1, WithdrawRows
  <1>4. TypeOK'
    BY <1>1, <1>3, BoundsAssumption DEF IInv, TypeOK, NoAudit
  <1>5. OneSource(table)' /\ AllEarned(table)'
    BY <1>1, <1>3 DEF IInv, OneSource, AllEarned, Approved
  <1>6. runs \in Nat /\ (optimizer = "saving" => 0 < runs)
    <2>1. runs \in Nat /\ auditor.read \in Nat
      BY DEF IInv, TypeOK
    <2> QED
      BY <2>1 DEF IInv, RunOrder
  <1>7. RunOrder'
    BY <1>1, <1>3, <1>6 DEF IInv, RunOrder, NoAudit
  <1> QED
    BY <1>1, <1>4, <1>5, <1>7
    DEF IInv, OneSource, AllEarned, Approved, AuditTracks, GateHolds, NoAudit

\* The gate writes down the keys it lets through; nothing later adds to them.
LEMMA TraderKeeps == IInv /\ (TraderGate \/ TraderResolve \/ TraderStop) => IInv'
  <1> SUFFICES ASSUME IInv, TraderGate \/ TraderResolve \/ TraderStop PROVE IInv'
    OBVIOUS
  <1>1. UNCHANGED <<table, runs, batch, optimizer, auditor, earned>>
    BY DEF TraderGate, TraderResolve, TraderStop
  <1> DEFINE Traders == [pc : {"idle", "gated", "cash", "trading"},
                         sim : BOOLEAN, user : BOOLEAN, gated : BOOLEAN,
                         filter : SUBSET Keys, keys : SUBSET Keys,
                         params : ParamSets \cup {NoParams}]
  <1>2. /\ NoTrade \in Traders /\ trader \in Traders /\ proven \subseteq ParamSets \X Keys
        /\ \A i \in Approved(table) : /\ i \in DOMAIN table
                                      /\ table[i].params \in ParamSets /\ table[i].key \in Keys
    BY RowsTyped DEF IInv, TypeOK, NoTrade, Approved
  <1>3. trader' \in Traders /\ proven' \subseteq ParamSets \X Keys /\ GateHolds'
    <2>1. CASE TraderGate
      <3>1. PICK sim \in BOOLEAN, user \in BOOLEAN :
              \/ \E ready \in SUBSET Approved(table) : PassGate(sim, user, ready)
              \/ SkipGate(sim, user)
        BY <2>1 DEF TraderGate, Ready
      <3>2. CASE SkipGate(sim, user)
        BY <1>2, <3>2 DEF SkipGate, NoTrade, GateHolds
      <3>3. ASSUME NEW ready \in SUBSET Approved(table), PassGate(sim, user, ready)
            PROVE  trader' \in Traders /\ proven' \subseteq ParamSets \X Keys /\ GateHolds'
        <4>1. trader'.filter = {table[i].key : i \in ready} /\ trader' \in Traders
          <5> DEFINE ks == {table[i].key : i \in ready}
                     pc == IF ready = {} THEN "cash" ELSE "gated"
          <5>1. ks \in SUBSET Keys /\ pc \in {"gated", "cash"}
            BY <1>2
          <5>2. trader' = [NoTrade EXCEPT !.pc = pc, !.sim = sim, !.user = user,
                                          !.gated = TRUE, !.filter = ks]
            BY <3>3 DEF PassGate
          <5> HIDE DEF ks, pc
          <5>3. trader' \in Traders /\ trader'.filter = ks
            BY <1>2, <5>1, <5>2 DEF NoTrade
          <5> QED
            BY <5>3 DEF ks
        <4>2. proven' = {<<table[i].params, table[i].key>> : i \in ready}
          BY <3>3 DEF PassGate
        <4>3. \A k \in trader'.filter : \E pr \in proven' : pr[2] = k
          <5> SUFFICES ASSUME NEW i \in ready
                       PROVE  \E pr \in proven' : pr[2] = table[i].key
            BY <4>1
          <5>1. <<table[i].params, table[i].key>> \in proven'
            BY <4>2
          <5> QED
            BY <5>1
        <4> QED
          BY <1>2, <4>1, <4>2, <4>3 DEF GateHolds
      <3> QED
        BY <3>1, <3>2, <3>3
    <2>2. CASE TraderResolve
      <3>1. \E pr \in ParamSets \cup {NoParams}, ks \in SUBSET Keys : Route(pr, ks)
        <4> DEFINE rows == ResolveRows
                   best == {i \in rows : \A j \in rows :
                              Robustness[table[i].params] >= Robustness[table[j].params]}
        <4>1. \A i \in rows : table[i].params \in ParamSets /\ table[i].key \in Keys
          BY <1>2 DEF ResolveRows
        <4>2. {table[i].key : i \in rows} \in SUBSET Keys
          BY <4>1
        <4> QED
          BY <2>2, <4>1, <4>2 DEF TraderResolve
      <3>2. proven' = proven
        BY <2>2 DEF TraderResolve
      <3> QED
        BY <1>2, <3>1, <3>2 DEF Route, GateHolds
    <2>3. CASE TraderStop
      BY <1>2, <2>3 DEF TraderStop, NoTrade, GateHolds
    <2> QED
      BY <2>1, <2>2, <2>3
  <1>4. TypeOK'
    BY <1>1, <1>3 DEF IInv, TypeOK
  <1> QED
    BY <1>1, <1>3, <1>4 DEF IInv, OneSource, AllEarned, Approved, RunOrder, AuditTracks

-----------------------------------------------------------------------------
(* Theorems *)

\* Every statement of the three commands keeps the invariant.
LEMMA StepKeeps == IInv /\ [Next]_vars => IInv'
  <1>1. IInv /\ UNCHANGED vars => IInv'
    BY DEF vars, IInv, TypeOK, OneSource, AllEarned, Approved, RunOrder, AuditTracks, GateHolds
  <1> QED
    BY <1>1, EvaluateKeeps, SaveKeeps, AuditReplayKeeps, AuditFindKeeps, AuditCommitKeeps,
       TraderKeeps, Zenon
    DEF Next

\* The invariant holds however the statements of optimize, audit-approved and
\* paper-trade interleave, and wherever optimize is killed.
THEOREM PipelineInvariant == Spec => []IInv
  <1> QED
    BY InitEstablishes, StepKeeps, PTL DEF Spec

\* The shape of the tables and of the progress of the three commands.
THEOREM PipelineTypeOK == Spec => []TypeOK
  <1>1. IInv => TypeOK
    BY DEF IInv
  <1> QED
    BY <1>1, PipelineInvariant, PTL

\* save_batch leaves the rows of one run and one parameter set in the table, a
\* row for a dataset; what audits write keeps that.
THEOREM PipelineSingleSource == Spec => []SingleSource
  <1>1. IInv => SingleSource
    BY DEF IInv, OneSource, SingleSource
  <1> QED
    BY <1>1, PipelineInvariant, PTL

\* Every approved row passed all gates of the run that wrote it.
THEOREM PipelineApprovedEarned == Spec => []ApprovedEarned
  <1>1. IInv => ApprovedEarned
    BY DEF IInv, AllEarned, ApprovedEarned
  <1> QED
    BY <1>1, PipelineInvariant, PTL

\* The key a replay is routed to is one of the keys of the approved rows.
LEMMA RouteOutcome ==
  ASSUME IInv, TraderResolve, trader'.pc = "trading"
  PROVE  \E i \in ResolveRows :
           /\ trader'.params = table[i].params /\ trader'.keys # {}
           /\ trader'.keys \subseteq {table[j].key : j \in ResolveRows}
           /\ trader'.sim \/ trader'.keys \subseteq Configured
  <1> DEFINE rows == ResolveRows
             keys == {table[i].key : i \in rows}
             best == {i \in rows : \A j \in rows :
                        Robustness[table[i].params] >= Robustness[table[j].params]}
  <1>1. ASSUME NEW params, NEW ks, Route(params, ks)
        PROVE  /\ ks # {} /\ trader'.params = params /\ trader'.keys = ks
               /\ trader'.sim = trader.sim
    BY <1>1 DEF Route, IInv, TypeOK
  <1>2. \/ Route(NoParams, {})
        \/ ~trader.sim /\ \E i \in best : Route(table[i].params, keys \cap Configured)
        \/ trader.sim /\ \E i \in best, k \in keys : Route(table[i].params, {k})
    BY DEF TraderResolve
  <1>3. CASE ~trader.sim /\ \E i \in best : Route(table[i].params, keys \cap Configured)
    BY <1>1, <1>3
  <1>4. CASE trader.sim /\ \E i \in best, k \in keys : Route(table[i].params, {k})
    <2>1. PICK i \in best, k \in keys : Route(table[i].params, {k})
      BY <1>4
    <2>2. /\ trader'.params = table[i].params /\ trader'.keys = {k}
          /\ trader'.sim = trader.sim
      BY <1>1, <2>1
    <2> QED
      BY <1>4, <2>2
  <1> QED
    BY <1>1, <1>2, <1>3, <1>4

\* Only the second read of the table starts to trade.
LEMMA OnlyResolveTrades ==
  ASSUME [Next]_vars, trader.pc # "trading", trader'.pc = "trading"
  PROVE  TraderResolve
  <1>1. ~TraderGate
    <2>1. ASSUME NEW sim, NEW user, NEW ready, PassGate(sim, user, ready) PROVE FALSE
      BY <2>1 DEF PassGate, NoTrade
    <2>2. ASSUME NEW sim, NEW user, SkipGate(sim, user) PROVE FALSE
      BY <2>2 DEF SkipGate, NoTrade
    <2> QED
      BY <2>1, <2>2 DEF TraderGate
  <1>2. ~TraderStop
    BY DEF TraderStop, NoTrade
  <1>3. [Next]_vars => TraderGate \/ TraderStop \/ TraderResolve \/ trader' = trader
    BY DEF Next, vars, OptimizeEvaluate, OptimizeSave, OptimizeKilled,
           AuditReplay, AuditFind, AuditCommit
  <1> QED
    BY <1>1, <1>2, <1>3

\* What starts to trade is approved at that moment, with its parameters, on each
\* of its datasets: they come from one read of rows of one source.
THEOREM PipelineRoutedApproved == Spec => RoutedApproved
  <1> DEFINE Routed ==
        (trader.pc # "trading" /\ trader'.pc = "trading") =>
          /\ trader'.keys # {}
          /\ \A k \in trader'.keys : \E i \in Approved(table) :
               table[i].params = trader'.params /\ table[i].key = k
          /\ trader'.sim \/ trader'.keys \subseteq Configured
  <1>1. ASSUME IInv, [Next]_vars PROVE Routed
    <2> SUFFICES ASSUME trader.pc # "trading", trader'.pc = "trading"
                 PROVE  /\ trader'.keys # {}
                        /\ \A k \in trader'.keys : \E i \in Approved(table) :
                             table[i].params = trader'.params /\ table[i].key = k
                        /\ trader'.sim \/ trader'.keys \subseteq Configured
      OBVIOUS
    <2>1. PICK i \in ResolveRows :
            /\ trader'.params = table[i].params /\ trader'.keys # {}
            /\ trader'.keys \subseteq {table[j].key : j \in ResolveRows}
            /\ trader'.sim \/ trader'.keys \subseteq Configured
      BY <1>1, OnlyResolveTrades, RouteOutcome
    <2>2. ResolveRows \subseteq Approved(table) /\ Approved(table) \subseteq DOMAIN table
      BY DEF ResolveRows, Approved
    <2>3. \A j \in ResolveRows : table[j].params = table[i].params
      BY <1>1, <2>2 DEF IInv, OneSource
    <2> QED
      BY <2>1, <2>2, <2>3
  <1>2. IInv /\ [Next]_vars => [Routed]_vars
    BY <1>1
  <1> QED
    BY <1>2, PipelineInvariant, PTL DEF Spec, RoutedApproved

\* What starts to trade behind the gate is on a dataset the gate let through.
THEOREM PipelineGateRespected == Spec => GateRespected
  <1> DEFINE Respected ==
        (trader.pc = "gated" /\ trader'.pc = "trading" /\ trader.gated) =>
          \A k \in trader'.keys : \E pr \in proven : pr[2] = k
  <1>1. ASSUME IInv, [Next]_vars PROVE Respected
    <2> SUFFICES ASSUME trader.pc = "gated", trader'.pc = "trading", trader.gated,
                        NEW k \in trader'.keys
                 PROVE  \E pr \in proven : pr[2] = k
      OBVIOUS
    <2>1. \E i \in ResolveRows : table[i].key = k
      BY <1>1, OnlyResolveTrades, RouteOutcome
    <2>2. k \in trader.filter
      BY <2>1 DEF ResolveRows
    <2> QED
      BY <1>1, <2>2 DEF IInv, GateHolds
  <1>2. IInv /\ [Next]_vars => [Respected]_vars
    BY <1>1
  <1> QED
    BY <1>2, PipelineInvariant, PTL DEF Spec, GateRespected

\* An audit that ends while its batch is in the table has withdrawn every
\* dataset it downgraded: each was still on its list, or among its rows.
THEOREM PipelineDowngradeLands == Spec => DowngradeLands
  <1> DEFINE Lands ==
        (/\ auditor.pc = "writing" /\ auditor'.pc = "idle"
         /\ \A i \in DOMAIN table : table[i].run = auditor.read) =>
           \A i \in Approved(table') : table'[i].key \notin auditor.down
  <1>1. ASSUME IInv, [Next]_vars PROVE Lands
    <2> SUFFICES ASSUME auditor.pc = "writing", auditor'.pc = "idle",
                        \A i \in DOMAIN table : table[i].run = auditor.read,
                        NEW i \in Approved(table'), table'[i].key \in auditor.down
                 PROVE  FALSE
      OBVIOUS
    <2>1. table \in Seq(Row) /\ auditor.left \in SUBSET Keys
      BY <1>1 DEF IInv, TypeOK
    <2>2. CASE AuditFind
      <3>1. table' = table /\ auditor.ids = {} /\ i \in DOMAIN table /\ table[i].approved
        BY <2>2 DEF AuditFind, Approved
      <3>2. auditor.left = {}
        BY <2>2, <1>1 DEF AuditFind, IInv, TypeOK
      <3> QED
        BY <1>1, <3>1, <3>2 DEF IInv, AuditTracks
    <2>3. CASE AuditCommit
      <3> DEFINE ids == auditor.ids \cup Matching(table, auditor.strategy, auditor.left)
      <3>1. DOMAIN table' = DOMAIN table /\ table'[i].key = table[i].key /\ i \in DOMAIN table
            /\ table[i].approved
        BY <2>1, <2>3, WithdrawRows DEF AuditCommit, Approved
      <3>2. /\ auditor.ids \subseteq DOMAIN table
            /\ StrategyOf[table[i].params] = auditor.strategy
            /\ table[i].key \in auditor.left \/ i \in auditor.ids
        BY <1>1, <3>1 DEF IInv, AuditTracks
      <3>3. i \in ids
        BY <3>1, <3>2 DEF Matching, Approved
      <3>4. table' = Withdraw(table, ids)
        BY <2>3, <3>2 DEF AuditCommit
      <3> QED
        BY <2>1, <3>1, <3>3, <3>4, WithdrawRows DEF Approved
    <2>4. AuditFind \/ AuditCommit
      BY <1>1 DEF Next, vars, OptimizeEvaluate, OptimizeSave, OptimizeKilled, AuditReplay,
                  TraderGate, TraderResolve, TraderStop
    <2> QED
      BY <2>2, <2>3, <2>4
  <1>2. IInv /\ [Next]_vars => [Lands]_vars
    BY <1>1
  <1> QED
    BY <1>2, PipelineInvariant, PTL DEF Spec, DowngradeLands
=============================================================================
