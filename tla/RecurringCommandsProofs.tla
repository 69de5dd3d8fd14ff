---------------------- MODULE RecurringCommandsProofs -----------------------
(***************************************************************************)
(* Theorems about RecurringCommands, for every set of requests, workers    *)
(* and commands and for every value of the time windows its assumptions    *)
(* allow: syncs, the reservation, keys, and the ledger of what the donor   *)
(* is told.                                                                *)
(***************************************************************************)
EXTENDS RecurringCommands, FiniteSetTheorems, TLAPS

USE DEF Never

\* The windows are natural numbers.
LEMMA WindowTypes ==
  /\ LeaseTerm \in Nat /\ SubmitWindow \in Nat /\ LateBound \in Nat
  /\ RenewalMargin \in Nat /\ RetryWindow \in Nat /\ KeyMemory \in Nat
  /\ Period \in Nat /\ MaxTime \in Nat /\ MaxVersion \in Nat
  /\ Period > 0 /\ RetryWindow > 0
  /\ SubmitWindow < LeaseTerm
  /\ SubmitWindow + LateBound =< RenewalMargin
  /\ RetryWindow + SubmitWindow + LateBound =< KeyMemory
BY WindowsAssumption

\* A position in the order of amount changes is a number.
LEMMA PositionType == Cardinality(Inserted) + 1 \in Nat
<1>1. IsFiniteSet(Inserted)
  BY ChangesFinite, FS_Subset DEF Inserted
<1> QED BY <1>1, FS_CardinalityType

\* Settling an entry keeps its type.
LEMMA SettledEntry ==
  ASSUME NEW e \in Entry
  PROVE  [e EXCEPT !.settled = TRUE] \in Entry
BY DEF Entry

\* What the operators that build a new stored state return.
LEMMA OperatorTypes ==
  ASSUME TypeOK
  PROVE  /\ \A p \in Processes : currentSubscription(p) \in Remote
         /\ \A r \in Remote : reconcileAmount(r) \in [Commands -> Entry]
         /\ \A c \in Commands : /\ AcquireLease(c) \in [command: Commands \cup {"none"}, expires: Nat]
                                /\ releaseLease(c) \in [command: Commands \cup {"none"}, expires: Nat]
         /\ \A p \in Processes, r \in Remote, k \in Snapshot :
              SaveSubscription(p, r, k) => row' \in Remote /\ reserved' \in BOOLEAN
                                           /\ snap' \in [Processes -> Snapshot]
         /\ \A p \in Processes, base \in [Commands -> Entry] :
              cmd[p] \in Commands => Record(p, base) \in [Commands -> Entry]
         /\ NoSnap \in Snapshot /\ NoRemote \in Remote /\ NoForm \in Form
<1> USE DEF TypeOK
<1>0. NoSnap \in Snapshot /\ NoRemote \in Remote /\ NoForm \in Form
  BY DEF NoSnap, Snapshot, NoRemote, Remote, Statuses, NoForm, Form
<1>1. \A p \in Processes : currentSubscription(p) \in Remote
  BY DEF currentSubscription, Snapshot
<1>2. \A r \in Remote : reconcileAmount(r) \in [Commands -> Entry]
  BY SettledEntry DEF reconcileAmount
<1>3. \A c \in Commands : /\ AcquireLease(c) \in [command: Commands \cup {"none"}, expires: Nat]
                          /\ releaseLease(c) \in [command: Commands \cup {"none"}, expires: Nat]
  BY WindowTypes DEF AcquireLease, releaseLease, NoLease
<1>4. ASSUME NEW p \in Processes, NEW r \in Remote, NEW k \in Snapshot, SaveSubscription(p, r, k)
      PROVE  row' \in Remote /\ reserved' \in BOOLEAN /\ snap' \in [Processes -> Snapshot]
  <2>1. Outdate(p) \in [Processes -> Snapshot]
    BY <1>0 DEF Outdate
  <2> QED BY <2>1, <1>4 DEF SaveSubscription, terminalSubscription
<1>5. ASSUME NEW p \in Processes, NEW base \in [Commands -> Entry], cmd[p] \in Commands
      PROVE  Record(p, base) \in [Commands -> Entry]
  BY <1>5, PositionType DEF Record, Entry, Form
<1> QED BY <1>0, <1>1, <1>2, <1>3, <1>4, <1>5

\* The initial state is well typed.
LEMMA InitTypeOK == Init => TypeOK
<1> SUFFICES ASSUME Init PROVE TypeOK OBVIOUS
<1>1. sub \in Remote
  BY WindowTypes, AmountsAssumption DEF Init, Remote, Statuses
<1>2. NoSnap \in Snapshot /\ NoForm \in Form
  BY DEF NoSnap, Snapshot, NoRemote, Remote, Statuses, NoForm, Form
<1>3. NoEntry \in Entry
  BY <1>2 DEF NoEntry, Entry
<1>4. lease \in [command: Commands \cup {"none"}, expires: Nat]
  BY DEF Init, NoLease
<1>5. /\ keys \in [Commands -> Nat] /\ applied \in [Commands -> Nat]
      /\ ledger \in [Commands -> Entry]
      /\ form \in [Processes -> Form] /\ snap \in [Processes -> Snapshot]
      /\ deadline \in [Processes -> Nat]
      /\ cmd \in [Processes -> Commands \cup {"none"}]
  BY <1>2, <1>3 DEF Init
<1>6. /\ pc \in [Processes -> RequestStates \cup WorkerStates]
      /\ \A p \in Processes : pc[p] = "idle"
  BY DEF Init, RequestStates, WorkerStates
<1> QED BY <1>1, <1>4, <1>5, <1>6 DEF Init, TypeOK, RequestStates, WorkerStates, Processes

\* Every step keeps the types.
LEMMA NextTypeOK == TypeOK /\ [Next]_vars => TypeOK'
<1> SUFFICES ASSUME TypeOK, [Next]_vars PROVE TypeOK' OBVIOUS
<1> USE DEF TypeOK
<1>t. /\ \A p \in Processes : currentSubscription(p) \in Remote
      /\ \A r \in Remote : reconcileAmount(r) \in [Commands -> Entry]
      /\ NoSnap \in Snapshot /\ NoRemote \in Remote /\ NoForm \in Form
  BY OperatorTypes
<1>l. \A c \in Commands : /\ AcquireLease(c) \in [command: Commands \cup {"none"}, expires: Nat]
                          /\ releaseLease(c) \in [command: Commands \cup {"none"}, expires: Nat]
  BY OperatorTypes
<1>s. \A p \in Processes, r \in Remote, k \in Snapshot :
        SaveSubscription(p, r, k) => row' \in Remote /\ reserved' \in BOOLEAN
                                     /\ snap' \in [Processes -> Snapshot]
  BY OperatorTypes
<1>p. Requests \subseteq Processes /\ Workers \subseteq Processes
      /\ Requests \cap Workers = {} /\ Processes = Requests \cup Workers
  BY ProcessesDisjoint DEF Processes
<1>o. \A r \in Remote, b \in BOOLEAN : [current |-> b, remote |-> r] \in Snapshot
  BY DEF Snapshot
<1>e. ASSUME NEW p \in Processes, End(p)
      PROVE  /\ pc' \in [Processes -> RequestStates \cup WorkerStates]
             /\ \A q \in Requests : pc'[q] \in RequestStates
             /\ \A w \in Workers : pc'[w] \in WorkerStates
             /\ cmd' \in [Processes -> Commands \cup {"none"}]
             /\ \A q \in Requests : pc'[q] # "idle" => cmd'[q] \in Commands
             /\ form' \in [Processes -> Form]
             /\ deadline' \in [Processes -> Nat]
  BY <1>e, <1>p, <1>t DEF End, RequestStates, WorkerStates
<1>m. ASSUME NEW p \in Requests, cmd[p] \in Commands, LeaseSubscription(p)
      PROVE  /\ lease' \in [command: Commands \cup {"none"}, expires: Nat]
             /\ pc' \in [Processes -> RequestStates \cup WorkerStates]
             /\ \A q \in Requests : pc'[q] \in RequestStates
             /\ \A w \in Workers : pc'[w] \in WorkerStates
             /\ cmd' \in [Processes -> Commands \cup {"none"}]
             /\ \A q \in Requests : pc'[q] # "idle" => cmd'[q] \in Commands
             /\ form' \in [Processes -> Form]
             /\ deadline' \in [Processes -> Nat]
  <2>1. lease' \in [command: Commands \cup {"none"}, expires: Nat]
    BY <1>m, <1>l DEF LeaseSubscription
  <2>2. deadline' \in [Processes -> Nat]
    BY <1>m, <1>p, WindowTypes DEF LeaseSubscription
  <2> QED BY <1>m, <1>p, <2>1, <2>2 DEF LeaseSubscription, RequestStates, WorkerStates
<1>r. ASSUME NEW p \in Processes, cmd[p] \in Commands, NEW r \in Remote
      PROVE  /\ Record(p, reconcileAmount(r)) \in [Commands -> Entry]
             /\ Settle(Record(p, reconcileAmount(r)), cmd[p]) \in [Commands -> Entry]
             /\ Settle(reconcileAmount(r), cmd[p]) \in [Commands -> Entry]
  <2>1. Record(p, reconcileAmount(r)) \in [Commands -> Entry]
    BY <1>r, <1>t, OperatorTypes
  <2>2. \A f \in [Commands -> Entry], c \in Commands :
          Settle(f, c) \in [Commands -> Entry]
    <3> TAKE f \in [Commands -> Entry], c \in Commands
    <3>1. [f[c] EXCEPT !.settled = TRUE] \in Entry
      BY SettledEntry
    <3> QED BY <3>1 DEF Settle
  <2> QED BY <1>r, <2>1, <2>2, <1>t
<1>1. ASSUME NEW p \in Requests, RequestStep(p) PROVE TypeOK'
  <2> USE <1>p
  <2>1. ASSUME NEW c \in Commands, NEW f \in Forms(c), BeginCommand(p, c, f) PROVE TypeOK'
    <3>1. f \in Form
      <4>1. row.period_end \in Nat
        BY DEF Remote
      <4>3. Amounts \subseteq Nat
        BY AmountsAssumption
      <4>4. ledger[c].form \in Form
        BY DEF Entry
      <4> QED BY <4>1, <4>3, <4>4 DEF Forms, Form
    <3> QED BY <2>1, <3>1, <1>t, <1>o DEF BeginCommand, RequestStates, WorkerStates, processor, stored
  <2>2. ASSUME NEW from, NEW to \in RequestStates, to # "idle", from # "idle",
               FetchSubscription(p, from, to) PROVE TypeOK'
    <3>1. (IF snap[p].current THEN sub ELSE NoRemote) \in Remote
      BY <1>t
    <3>2. snap' \in [Processes -> Snapshot]
      BY <2>2, <3>1 DEF FetchSubscription, Snapshot
    <3> QED BY <2>2, <3>2 DEF FetchSubscription, processor, stored
  <2>3. CASE Refresh(p)
    <3>1. /\ row' \in Remote /\ reserved' \in BOOLEAN /\ snap' \in [Processes -> Snapshot]
          /\ ledger' \in [Commands -> Entry]
      BY <2>3, <1>t, <1>s, <1>o DEF Refresh
    <3> QED BY <2>3, <3>1 DEF Refresh, RequestStates, processor
  <2>c. pc[p] # "idle" => cmd[p] \in Commands
    OBVIOUS
  <2>4. CASE CancelSettled(p)
    <3>1. /\ row' \in Remote /\ reserved' \in BOOLEAN /\ snap' \in [Processes -> Snapshot]
          /\ ledger' \in [Commands -> Entry]
          /\ lease' \in [command: Commands \cup {"none"}, expires: Nat]
      BY <2>4, <2>c, <1>t, <1>s, <1>r, <1>l DEF CancelSettled
    <3> QED BY <2>4, <3>1, <1>e DEF CancelSettled, processor
  <2>5. CASE CancelLeased(p)
    <3>1. /\ row' \in Remote /\ reserved' \in BOOLEAN /\ snap' \in [Processes -> Snapshot]
          /\ ledger' \in [Commands -> Entry]
      BY <2>5, <2>c, <1>t, <1>s, <1>r DEF CancelLeased
    <3> QED BY <2>5, <2>c, <3>1, <1>m DEF CancelLeased, processor
  <2>6. CASE ChangeConfirmed(p)
    <3>1. /\ lease' \in [command: Commands \cup {"none"}, expires: Nat]
          /\ snap' \in [Processes -> Snapshot]
      BY <2>6, <2>c, <1>t, <1>l DEF ChangeConfirmed
    <3> QED BY <2>6, <3>1, <1>e DEF ChangeConfirmed, processor
  <2>7. CASE ChangeSettled(p)
    <3>1. /\ row' \in Remote /\ reserved' \in BOOLEAN /\ snap' \in [Processes -> Snapshot]
          /\ ledger' \in [Commands -> Entry]
          /\ lease' \in [command: Commands \cup {"none"}, expires: Nat]
      BY <2>7, <2>c, <1>t, <1>s, <1>l DEF ChangeSettled
    <3> QED BY <2>7, <3>1, <1>e DEF ChangeSettled, processor
  <2>8. CASE ChangeLeased(p)
    <3>1. /\ row' \in Remote /\ reserved' \in BOOLEAN /\ snap' \in [Processes -> Snapshot]
          /\ ledger' \in [Commands -> Entry]
      BY <2>8, <2>c, <1>t, <1>s, <1>r DEF ChangeLeased
    <3> QED BY <2>8, <2>c, <3>1, <1>m DEF ChangeLeased, processor
  <2>9. CASE Mutate(p)
    <3>1. [by |-> p, command |-> cmd[p], form |-> form[p], until |-> now + LateBound]
            \in [by: Requests, command: Commands, form: Form, until: Nat]
      BY <2>9, <2>c, WindowTypes DEF Mutate
    <3> QED BY <2>9, <3>1 DEF Mutate, RequestStates, stored
  <2>10. CASE ObserveResult(p)
    <3>1. snap' \in [Processes -> Snapshot]
      BY <2>10, <1>t, <1>o DEF ObserveResult
    <3> QED BY <2>10, <3>1 DEF ObserveResult, RequestStates, processor, stored
  <2>11. ASSUME CompleteCancel(p) \/ CompleteChange(p) PROVE TypeOK'
    <3>0. cmd[p] \in Commands /\ SaveSubscription(p, currentSubscription(p), NoSnap)
          /\ End(p) /\ lease' = releaseLease(cmd[p]) /\ UNCHANGED <<now, processor>>
      BY <2>11, <2>c DEF CompleteCancel, CompleteChange
    <3>1. row' \in Remote /\ reserved' \in BOOLEAN /\ snap' \in [Processes -> Snapshot]
      BY <3>0, <1>t, <1>s
    <3>2. ledger' \in [Commands -> Entry]
      BY <2>11, <3>0, <1>t, <1>r DEF CompleteCancel, CompleteChange
    <3>3. lease' \in [command: Commands \cup {"none"}, expires: Nat]
      BY <3>0, <1>l
    <3> QED BY <3>0, <3>1, <3>2, <3>3, <1>e DEF processor
  <2>12. CASE FailLeased(p)
    <3>1. /\ lease' \in [command: Commands \cup {"none"}, expires: Nat]
          /\ snap' \in [Processes -> Snapshot]
      BY <2>12, <2>c, <1>t, <1>l DEF FailLeased, Leased
    <3> QED BY <2>12, <3>1, <1>e DEF FailLeased, processor
  <2>13. CASE Stop(p)
    <3>1. snap' \in [Processes -> Snapshot]
      BY <2>13, <1>t DEF Stop
    <3> QED BY <2>13, <3>1, <1>e DEF Stop, processor, stored
  <2> QED BY <1>1, <2>1, <2>2, <2>3, <2>4, <2>5, <2>6, <2>7, <2>8, <2>9, <2>10, <2>11, <2>12, <2>13
          DEF RequestStep, RequestStates
<1>2. ASSUME NEW w \in Workers, WorkerStep(w) PROVE TypeOK'
  <2> USE <1>p
  <2>1. CASE BeginEvent(w)
    <3>1. snap' \in [Processes -> Snapshot]
      BY <2>1, <1>t, <1>o DEF BeginEvent
    <3> QED BY <2>1, <3>1 DEF BeginEvent, WorkerStates, stored
  <2>2. CASE FetchSubscription(w, "fetchEvent", "apply")
    <3>1. (IF snap[w].current THEN sub ELSE NoRemote) \in Remote
      BY <1>t
    <3>2. snap' \in [Processes -> Snapshot]
      BY <2>2, <3>1 DEF FetchSubscription, Snapshot
    <3> QED BY <2>2, <3>2 DEF FetchSubscription, WorkerStates, processor, stored
  <2>3. CASE ApplyEvent(w)
    <3>1. /\ row' \in Remote /\ reserved' \in BOOLEAN /\ snap' \in [Processes -> Snapshot]
          /\ ledger' \in [Commands -> Entry]
      BY <2>3, <1>t, <1>s DEF ApplyEvent
    <3> QED BY <2>3, <3>1, <1>e DEF ApplyEvent, processor
  <2>4. CASE StopEvent(w)
    <3>1. snap' \in [Processes -> Snapshot]
      BY <2>4, <1>t DEF StopEvent
    <3> QED BY <2>4, <3>1, <1>e DEF StopEvent, stored
  <2> QED BY <1>2, <2>1, <2>2, <2>3, <2>4 DEF WorkerStep
<1>a. ASSUME NEW r \in Remote, Announce(r)
      PROVE  sub' \in Remote /\ inbox' \in Nat
  BY <1>a DEF Announce, Remote
<1>3. ASSUME NEW q \in wire, ProcessorRuns(q) PROVE TypeOK'
  <2>1. q \in [by: Requests, command: Commands, form: Form, until: Nat]
    OBVIOUS
  <2>2. Changed(q) \in Remote
    BY <2>1 DEF Changed, Remote, Form
  <2>3. sub' \in Remote /\ inbox' \in Nat
    BY <1>3, <2>2, <1>a DEF ProcessorRuns
  <2>4. keys' \in [Commands -> Nat] /\ applied' \in [Commands -> Nat]
    BY <1>3, <2>1 DEF ProcessorRuns
  <2>5. /\ pc' \in [Processes -> RequestStates \cup WorkerStates]
        /\ \A p \in Requests : pc'[p] \in RequestStates
        /\ \A w \in Workers : pc'[w] \in WorkerStates
        /\ \A p \in Requests : pc'[p] # "idle" => cmd[p] \in Commands
    BY <1>3, <1>p, <2>1 DEF ProcessorRuns, Reply, RequestStates
  <2> QED BY <1>3, <2>3, <2>4, <2>5 DEF ProcessorRuns, stored
<1>4. ASSUME NEW q \in wire, ProcessorDrops(q) PROVE TypeOK'
  BY <1>4 DEF ProcessorDrops, stored, local
<1>5. CASE ProcessorRenews
  <2>1. [sub EXCEPT !.status = "canceled"] \in Remote
        /\ [sub EXCEPT !.period_end = @ + Period] \in Remote
    BY WindowTypes DEF Remote, Statuses
  <2>2. sub' \in Remote /\ inbox' \in Nat
    BY <1>5, <2>1, <1>a DEF ProcessorRenews
  <2> QED BY <1>5, <2>2 DEF ProcessorRenews, stored, local
<1>6. CASE ProcessorUpdates
  <2>1. \A s \in Statuses, x \in BOOLEAN : [sub EXCEPT !.status = s, !.external = x] \in Remote
    BY DEF Remote
  <2>2. sub' \in Remote /\ inbox' \in Nat
    BY <1>6, <2>1, <1>a DEF ProcessorUpdates
  <2> QED BY <1>6, <2>2 DEF ProcessorUpdates, stored, local
<1>7. CASE Tick
  BY <1>7 DEF Tick, processor, stored, local
<1>8. CASE UNCHANGED vars
  BY <1>8 DEF vars, processor, stored, local
<1> QED BY <1>1, <1>2, <1>3, <1>4, <1>5, <1>6, <1>7, <1>8 DEF Next, ProcessorStep

\* Type correctness of the commands, the worker and the stored state.
THEOREM TypeCorrect == Spec => []TypeOK
BY InitTypeOK, NextTypeOK, PTL DEF Spec

(***************************************************************************)
(* Syncs never go back in time.                                            *)
(***************************************************************************)

\* p is about to use its snapshot under the donor lock.
Reads(p) == pc[p] \in {"refresh", "prepare", "complete", "apply"}

\* A snapshot that is still current lies between the stored state and the
\* processor's: whatever was saved after it was read has outdated it.
SnapshotsFresh ==
  /\ row.version =< sub.version
  /\ \A p \in Processes : snap[p].current /\ Reads(p) =>
       /\ row.version =< snap[p].remote.version
       /\ snap[p].remote.version =< sub.version

\* The two things a step can do, as far as snapshots are concerned: p saves
\* what it read, or the stored subscription stays as it is and the processor's,
\* once ended, stays ended.
Saves(p) ==
  /\ Reads(p)
  /\ row' = currentSubscription(p)
  /\ reserved' = (reserved /\ row'.status # "canceled")
  /\ sub' = sub
  /\ \A q \in Processes \ {p} : ~snap'[q].current
  /\ snap'[p].current => snap'[p].remote = row'

Keeps ==
  /\ row' = row /\ reserved' = reserved
  /\ sub.version =< sub'.version
  /\ sub.status = "canceled" => sub'.status = "canceled"
  /\ \A q \in Processes : snap'[q].current /\ Reads(q)' =>
       \/ snap'[q] = snap[q] /\ Reads(q)
       \/ snap'[q].remote = sub

\* A save outdates the snapshots of all other processes.
LEMMA SaveOutdates ==
  ASSUME TypeOK, NEW p \in Processes, Reads(p), UNCHANGED sub, NEW k \in Snapshot,
         SaveSubscription(p, currentSubscription(p), k),
         k.current => k.remote = currentSubscription(p)
  PROVE  Saves(p)
<1>1. /\ snap' = [Outdate(p) EXCEPT ![p] = k] /\ row' = currentSubscription(p)
      /\ reserved' = (reserved /\ row'.status # "canceled")
  BY DEF SaveSubscription, terminalSubscription
<1>2. Outdate(p) = [q \in Processes |-> IF q = p THEN snap[q] ELSE NoSnap]
  BY DEF Outdate
<1>3. snap'[p] = k /\ \A q \in Processes \ {p} : snap'[q] = NoSnap
  BY <1>1, <1>2
<1> QED BY <1>1, <1>3 DEF Saves, NoSnap

\* Every step saves or keeps.
LEMMA SavesOrKeeps ==
  ASSUME TypeOK, [Next]_vars
  PROVE  Keeps \/ \E p \in Processes : Saves(p)
<1> USE DEF TypeOK
<1>p. Requests \subseteq Processes /\ Workers \subseteq Processes
  BY DEF Processes
<1>t. /\ \A p \in Processes : currentSubscription(p) \in Remote
      /\ NoSnap \in Snapshot /\ ~NoSnap.current
      /\ sub.version \in Nat
  BY OperatorTypes DEF NoSnap, Remote
\* A step that ends p's work, or sends it to the processor.
<1>k. ASSUME NEW p \in Processes, UNCHANGED <<row, reserved, sub>>, pc' = [pc EXCEPT ![p] = pc'[p]],
             \A q \in Processes \ {p} : snap'[q] = snap[q],
             Reads(p)' => ~snap'[p].current \/ snap'[p].remote = sub
      PROVE  Keeps
  BY <1>k, <1>t DEF Keeps, Reads
<1>1. ASSUME NEW p \in Requests, RequestStep(p) PROVE Keeps \/ \E q \in Processes : Saves(q)
  <2> USE <1>p
  <2>1. ASSUME NEW c \in Commands, NEW f \in Forms(c), BeginCommand(p, c, f) PROVE Keeps
    BY <2>1, <1>k DEF BeginCommand, Reads, processor, stored
  <2>2. ASSUME NEW from, NEW to, FetchSubscription(p, from, to) PROVE Keeps
    <3>1. snap'[p].current => snap'[p].remote = sub
      BY <2>2 DEF FetchSubscription, Snapshot
    <3> QED BY <2>2, <3>1, <1>k DEF FetchSubscription, processor, stored
  <2>3. CASE Refresh(p)
    <3>1. [current |-> TRUE, remote |-> currentSubscription(p)] \in Snapshot
      BY <1>t DEF Snapshot
    <3>2. Saves(p)
      BY <2>3, <3>1, SaveOutdates DEF Refresh, Reads, processor
    <3> QED BY <3>2
  <2>4. ASSUME CancelSettled(p) \/ CancelLeased(p) \/ ChangeSettled(p) \/ ChangeLeased(p)
               \/ CompleteCancel(p) \/ CompleteChange(p)
        PROVE  Saves(p)
    <3>1. Reads(p) /\ UNCHANGED sub /\ SaveSubscription(p, currentSubscription(p), NoSnap)
      BY <2>4 DEF CancelSettled, CancelLeased, ChangeSettled, ChangeLeased, CompleteCancel,
                  CompleteChange, Reads, processor
    <3> QED BY <3>1, <1>t, SaveOutdates
  <2>5. ASSUME ChangeConfirmed(p) \/ FailLeased(p) \/ Stop(p) PROVE Keeps
    <3>1. /\ UNCHANGED <<row, reserved, sub>> /\ pc' = [pc EXCEPT ![p] = "idle"]
          /\ snap' = [snap EXCEPT ![p] = NoSnap]
      BY <2>5 DEF ChangeConfirmed, FailLeased, Stop, End, processor, stored
    <3> QED BY <3>1, <1>k DEF Reads
  <2>6. CASE Mutate(p)
    BY <2>6, <1>k DEF Mutate, Reads, stored
  <2>7. CASE ObserveResult(p)
    BY <2>7, <1>k DEF ObserveResult, Reads, processor, stored
  <2> QED BY <1>1, <2>1, <2>2, <2>3, <2>4, <2>5, <2>6, <2>7 DEF RequestStep
<1>2. ASSUME NEW w \in Workers, WorkerStep(w) PROVE Keeps \/ \E q \in Processes : Saves(q)
  <2> USE <1>p
  <2>1. CASE BeginEvent(w)
    BY <2>1, <1>k DEF BeginEvent, Reads, stored
  <2>2. CASE FetchSubscription(w, "fetchEvent", "apply")
    <3>1. snap'[w].current => snap'[w].remote = sub
      BY <2>2 DEF FetchSubscription, Snapshot
    <3> QED BY <2>2, <3>1, <1>k DEF FetchSubscription, processor, stored
  <2>3. CASE ApplyEvent(w)
    <3>1. Saves(w)
      BY <2>3, <1>t, SaveOutdates DEF ApplyEvent, Reads, processor
    <3> QED BY <3>1
  <2>4. CASE StopEvent(w)
    BY <2>4, <1>k DEF StopEvent, End, Reads, stored
  <2> QED BY <1>2, <2>1, <2>2, <2>3, <2>4 DEF WorkerStep
<1>a. ASSUME NEW r \in Remote, Announce(r), sub.status # "canceled"
      PROVE  /\ sub.version =< sub'.version
             /\ sub.status = "canceled" => sub'.status = "canceled"
  BY <1>a, <1>t DEF Announce, Remote
<1>3. ASSUME NEW q \in wire, ProcessorRuns(q) PROVE Keeps
  <2>1. q \in [by: Requests, command: Commands, form: Form, until: Nat]
    OBVIOUS
  <2>2. Changed(q) \in Remote
    BY <2>1 DEF Changed, Remote, Form
  <2>3. sub.version =< sub'.version /\ (sub.status = "canceled" => sub'.status = "canceled")
    BY <1>3, <2>2, <1>a, <1>t DEF ProcessorRuns, Accepts, terminalSubscription
  <2>4. \A p \in Processes : Reads(p)' => Reads(p)
    BY <1>3, <2>1, <1>p DEF ProcessorRuns, Reply, Reads
  <2> QED BY <1>3, <2>3, <2>4 DEF ProcessorRuns, Keeps, stored
<1>4. ASSUME NEW q \in wire, ProcessorDrops(q) PROVE Keeps
  BY <1>4, <1>t DEF ProcessorDrops, Keeps, Reads, stored, local
<1>5. CASE ProcessorRenews
  <2>1. [sub EXCEPT !.status = "canceled"] \in Remote
        /\ [sub EXCEPT !.period_end = @ + Period] \in Remote
    BY WindowTypes DEF Remote, Statuses
  <2>2. sub.version =< sub'.version /\ (sub.status = "canceled" => sub'.status = "canceled")
    BY <1>5, <2>1, <1>a DEF ProcessorRenews, terminalSubscription
  <2> QED BY <1>5, <2>2 DEF ProcessorRenews, Keeps, Reads, stored, local
<1>6. CASE ProcessorUpdates
  <2>1. \A s \in Statuses, x \in BOOLEAN : [sub EXCEPT !.status = s, !.external = x] \in Remote
    BY DEF Remote
  <2>2. sub.version =< sub'.version /\ (sub.status = "canceled" => sub'.status = "canceled")
    BY <1>6, <2>1, <1>a DEF ProcessorUpdates, terminalSubscription
  <2> QED BY <1>6, <2>2 DEF ProcessorUpdates, Keeps, Reads, stored, local
<1>7. CASE Tick \/ UNCHANGED vars
  BY <1>7, <1>t DEF Tick, Keeps, Reads, vars, processor, stored, local
<1> QED BY <1>1, <1>2, <1>3, <1>4, <1>5, <1>6, <1>7 DEF Next, ProcessorStep

\* Whatever order snapshots are read and saved in, by requests and workers, a
\* save never replaces a newer stored state by an older one.
THEOREM SyncsNeverOlder == Spec => NeverOlder
<1> DEFINE Newer == row'.version >= row.version
<1>1. Init => TypeOK /\ SnapshotsFresh
  BY InitTypeOK DEF Init, SnapshotsFresh, Reads, Processes
<1>2. TypeOK /\ SnapshotsFresh /\ [Next]_vars => TypeOK' /\ SnapshotsFresh' /\ Newer
  <2> SUFFICES ASSUME TypeOK, SnapshotsFresh, [Next]_vars PROVE TypeOK' /\ SnapshotsFresh' /\ Newer
    OBVIOUS
  <2>1. TypeOK'
    BY NextTypeOK
  <2>2. /\ row.version \in Nat /\ sub.version \in Nat
        /\ row'.version \in Nat /\ sub'.version \in Nat
        /\ \A p \in Processes : snap[p].remote.version \in Nat /\ snap'[p].remote.version \in Nat
    BY <2>1 DEF TypeOK, Remote, Snapshot
  <2>3. CASE Keeps
    <3>1. row'.version = row.version /\ row.version =< sub'.version
      BY <2>2, <2>3 DEF Keeps, SnapshotsFresh
    <3>2. ASSUME NEW p \in Processes, snap'[p].current, Reads(p)'
          PROVE  row.version =< snap'[p].remote.version /\ snap'[p].remote.version =< sub'.version
      BY <2>2, <2>3, <3>2 DEF Keeps, SnapshotsFresh
    <3>3. SnapshotsFresh'
      BY <3>1, <3>2 DEF SnapshotsFresh
    <3> QED BY <2>1, <2>2, <3>1, <3>3
  <2>4. ASSUME NEW p \in Processes, Saves(p) PROVE SnapshotsFresh' /\ Newer
    <3>1. row.version =< row'.version /\ row'.version =< sub.version
      BY <2>2, <2>4 DEF Saves, SnapshotsFresh, currentSubscription
    <3>2. SnapshotsFresh'
      BY <2>2, <2>4, <3>1 DEF Saves, SnapshotsFresh
    <3> QED BY <2>2, <3>1, <3>2
  <2> QED BY <2>1, <2>3, <2>4, SavesOrKeeps
<1>3. TypeOK /\ SnapshotsFresh /\ [Next]_vars => [Newer]_vars
  BY <1>2
<1> QED BY <1>1, <1>2, <1>3, PTL DEF Spec, NeverOlder

(***************************************************************************)
(* The reservation lasts as long as the subscription.                      *)
(***************************************************************************)

\* A subscription that anyone still current has seen ended, has ended.
EndsSeen ==
  \A p \in Processes : snap[p].current /\ Reads(p) =>
    (snap[p].remote.status = "canceled" => sub.status = "canceled")

\* No sync, from whatever snapshot, releases the donor's reservation while the
\* subscription can still charge at the processor.
THEOREM ReservationLasts == Spec => []ReservedWhileLive
<1> DEFINE ReservedInv == TypeOK /\ EndsSeen /\ ReservedWhileLive
<1>1. Init => ReservedInv
  BY InitTypeOK DEF Init, EndsSeen, ReservedWhileLive, Reads, Processes
<1>2. ReservedInv /\ [Next]_vars => ReservedInv'
  <2> SUFFICES ASSUME ReservedInv, [Next]_vars PROVE ReservedInv'
    OBVIOUS
  <2>1. TypeOK'
    BY NextTypeOK
  <2>2. CASE Keeps
    <3>1. EndsSeen'
      BY <2>2 DEF Keeps, EndsSeen
    <3> QED BY <2>1, <2>2, <3>1 DEF Keeps, ReservedWhileLive
  <2>3. ASSUME NEW p \in Processes, Saves(p) PROVE ReservedInv'
    <3>1. row'.status = "canceled" => sub'.status = "canceled"
      BY <2>3 DEF Saves, EndsSeen, currentSubscription
    <3>2. EndsSeen'
      BY <2>3, <3>1 DEF Saves, EndsSeen
    <3>3. ReservedWhileLive'
      BY <2>3, <3>1 DEF Saves, ReservedWhileLive
    <3> QED BY <2>1, <3>2, <3>3
  <2> QED BY <2>2, <2>3, SavesOrKeeps
<1>3. ReservedInv => ReservedWhileLive
  OBVIOUS
<1> QED BY <1>1, <1>2, <1>3, PTL DEF Spec

(***************************************************************************)
(* No command runs twice.                                                  *)
(***************************************************************************)

\* The times of a command: it is recorded, then its requests are prepared
\* within RetryWindow, sent within SubmitWindow and run within LateBound. Its
\* key, remembered from its first run on, is therefore known to all of them.
ClockInv == now > 0 /\ \A c \in Commands : ledger[c].created =< now

KeysInv ==
  \A c \in Commands :
    /\ applied[c] =< 1
    /\ keys[c] = Never => applied[c] = 0
    /\ keys[c] # Never => Recorded(c) /\ ledger[c].created =< keys[c]

LeasedInv ==
  \A p \in Requests : Leased(p) =>
    /\ Recorded(cmd[p])
    /\ now =< deadline[p]
    /\ deadline[p] < ledger[cmd[p]].created + RetryWindow + SubmitWindow

WireInv ==
  \A q \in wire :
    /\ Recorded(q.command)
    /\ now =< q.until
    /\ q.until < ledger[q.command].created + RetryWindow + SubmitWindow + LateBound

OnceInv == TypeOK /\ ClockInv /\ KeysInv /\ LeasedInv /\ WireInv

\* A command's recording time is set once.
CreatedKept ==
  \A c \in Commands : \/ ledger'[c].created = ledger[c].created
                      \/ ~Recorded(c) /\ ledger'[c].created = now

\* A request that is leased after the step was so before, on the same terms, or
\* was leased by the step.
LeasedKept(p) ==
  Leased(p)' => \/ Leased(p) /\ deadline'[p] = deadline[p] /\ cmd'[p] = cmd[p]
                \/ /\ deadline'[p] = now + SubmitWindow /\ cmd'[p] = cmd[p]
                   /\ cmd[p] \in Commands /\ WithinRetryWindow(cmd[p])
                   /\ Recorded(cmd[p])'

\* The operators on the ledger keep recording times.
LEMMA LedgerTimes ==
  ASSUME TypeOK, NEW p \in Processes, cmd[p] \in Commands, NEW r \in Remote
  PROVE  LET recorded(e) == \A c \in Commands : e[c].created = ledger[c].created
             new(e) == \A c \in Commands :
                         e[c].created = IF c = cmd[p] /\ ~Recorded(c) THEN now ELSE ledger[c].created
         IN  /\ recorded(reconcileAmount(r))
             /\ recorded(Settle(reconcileAmount(r), cmd[p]))
             /\ new(Record(p, reconcileAmount(r)))
             /\ new(Settle(Record(p, reconcileAmount(r)), cmd[p]))
<1>1. /\ reconcileAmount(r) \in [Commands -> Entry]
      /\ Record(p, reconcileAmount(r)) \in [Commands -> Entry]
  BY OperatorTypes
<1>2. \A c \in Commands : reconcileAmount(r)[c].created = ledger[c].created
  BY DEF reconcileAmount, TypeOK, Entry
<1>3. ASSUME NEW e \in [Commands -> Entry]
      PROVE  \A c \in Commands : Settle(e, cmd[p])[c].created = e[c].created
  BY DEF Settle, Entry
<1>4. \A c \in Commands : Record(p, reconcileAmount(r))[c].created
                            = IF c = cmd[p] /\ ~Recorded(c) THEN now ELSE ledger[c].created
  BY <1>1, <1>2 DEF Record
<1> QED BY <1>1, <1>2, <1>3, <1>4

\* What a step of a request does to recording times and leases.
LEMMA RequestTimes ==
  ASSUME TypeOK, ClockInv, NEW p \in Requests, RequestStep(p)
  PROVE  CreatedKept /\ (\A q \in Requests : LeasedKept(q)) /\ UNCHANGED <<now, keys, applied>>
<1> USE DEF TypeOK
<1>p. p \in Processes /\ (pc[p] # "idle" => cmd[p] \in Commands) /\ currentSubscription(p) \in Remote
  BY OperatorTypes DEF Processes
<1>q. \A q \in Requests : q \in Processes
  BY DEF Processes
<1>o. ASSUME \A q \in Requests \ {p} : pc'[q] = pc[q] /\ deadline'[q] = deadline[q] /\ cmd'[q] = cmd[q],
             LeasedKept(p)
      PROVE  \A q \in Requests : LeasedKept(q)
  BY <1>o DEF LeasedKept, Leased
<1>e. ASSUME End(p) PROVE \A q \in Requests : LeasedKept(q)
  BY <1>e, <1>p, <1>q DEF End, LeasedKept, Leased
<1>u. ASSUME UNCHANGED ledger PROVE CreatedKept
  BY <1>u DEF CreatedKept
<1>1. ASSUME NEW c \in Commands, NEW f \in Forms(c), BeginCommand(p, c, f)
      PROVE  CreatedKept /\ (\A q \in Requests : LeasedKept(q)) /\ UNCHANGED <<now, keys, applied>>
  BY <1>1, <1>p, <1>q, <1>o, <1>u DEF BeginCommand, LeasedKept, Leased, processor, stored
<1>2. ASSUME NEW from, NEW to, FetchSubscription(p, from, to),
             to = "refresh" \/ (from = "fetchResult" /\ to = "complete")
      PROVE  CreatedKept /\ (\A q \in Requests : LeasedKept(q)) /\ UNCHANGED <<now, keys, applied>>
  BY <1>2, <1>p, <1>q, <1>u DEF FetchSubscription, LeasedKept, Leased, processor, stored
<1>3. CASE Refresh(p)
  <2>1. CreatedKept
    BY <1>3, <1>p, LedgerTimes DEF Refresh, CreatedKept
  <2> QED BY <1>3, <2>1, <1>p, <1>q DEF Refresh, LeasedKept, Leased, processor
<1>4. CASE CancelSettled(p)
  <2>1. CreatedKept
    BY <1>4, <1>p, LedgerTimes DEF CancelSettled, CreatedKept
  <2> QED BY <1>4, <2>1, <1>e DEF CancelSettled, processor
<1>5. ASSUME CancelLeased(p) \/ ChangeLeased(p)
      PROVE  CreatedKept /\ (\A q \in Requests : LeasedKept(q)) /\ UNCHANGED <<now, keys, applied>>
  <2>1. /\ cmd[p] \in Commands /\ WithinRetryWindow(cmd[p]) /\ LeaseSubscription(p)
        /\ ledger' = Record(p, reconcileAmount(currentSubscription(p)))
        /\ UNCHANGED <<now, keys, applied>>
    BY <1>5, <1>p DEF CancelLeased, ChangeLeased, processor
  <2>2. CreatedKept /\ Recorded(cmd[p])'
    <3>1. \A c \in Commands : ledger'[c].created
            = IF c = cmd[p] /\ ~Recorded(c) THEN now ELSE ledger[c].created
      BY <2>1, <1>p, LedgerTimes
    <3>2. UNCHANGED cmd /\ now # Never
      BY <2>1 DEF LeaseSubscription, ClockInv
    <3> QED BY <2>1, <3>1, <3>2 DEF CreatedKept, Recorded
  <2>3. /\ deadline'[p] = now + SubmitWindow /\ cmd'[p] = cmd[p]
        /\ \A q \in Requests \ {p} : pc'[q] = pc[q] /\ deadline'[q] = deadline[q] /\ cmd'[q] = cmd[q]
    BY <2>1, <1>p, <1>q DEF LeaseSubscription
  <2>4. LeasedKept(p)
    BY <2>1, <2>2, <2>3 DEF LeasedKept
  <2> QED BY <2>1, <2>2, <2>3, <2>4, <1>o
<1>6. CASE ChangeConfirmed(p)
  BY <1>6, <1>e, <1>u DEF ChangeConfirmed, processor
<1>7. CASE ChangeSettled(p)
  <2>1. CreatedKept
    BY <1>7, <1>p, LedgerTimes DEF ChangeSettled, CreatedKept
  <2> QED BY <1>7, <2>1, <1>e DEF ChangeSettled, processor
<1>8. CASE Mutate(p)
  BY <1>8, <1>p, <1>q, <1>u DEF Mutate, LeasedKept, Leased, stored
<1>9. CASE ObserveResult(p)
  BY <1>9, <1>p, <1>q, <1>u DEF ObserveResult, LeasedKept, Leased, processor, stored
<1>10. ASSUME CompleteCancel(p) \/ CompleteChange(p)
       PROVE  CreatedKept /\ (\A q \in Requests : LeasedKept(q)) /\ UNCHANGED <<now, keys, applied>>
  <2>1. \A c \in Commands : ledger'[c].created = ledger[c].created
    BY <1>10, <1>p, LedgerTimes DEF CompleteCancel, CompleteChange
  <2> QED BY <1>10, <2>1, <1>e DEF CompleteCancel, CompleteChange, CreatedKept, processor
<1>11. CASE FailLeased(p)
  BY <1>11, <1>e, <1>u DEF FailLeased, processor
<1>12. CASE Stop(p)
  BY <1>12, <1>e, <1>u DEF Stop, processor, stored
<1> QED BY <1>1, <1>2, <1>3, <1>4, <1>5, <1>6, <1>7, <1>8, <1>9, <1>10, <1>11, <1>12,
           RequestStep(p) DEF RequestStep

\* A command keeps its recording time, and is recorded once and for all.
LEMMA StaysRecorded ==
  ASSUME TypeOK, ClockInv, CreatedKept, NEW c \in Commands
  PROVE  /\ Recorded(c) => Recorded(c)' /\ ledger'[c].created = ledger[c].created
         /\ ledger'[c].created =< now
BY DEF TypeOK, Entry, ClockInv, CreatedKept, Recorded

\* A request that is leased after a step has its times in order.
LEMMA LeasedTimes ==
  ASSUME TypeOK, TypeOK', ClockInv, LeasedInv, CreatedKept, UNCHANGED now,
         NEW p \in Requests, LeasedKept(p), Leased(p)'
  PROVE  /\ Recorded(cmd[p])' /\ cmd'[p] = cmd[p] /\ cmd[p] \in Commands
         /\ now =< deadline'[p]
         /\ deadline'[p] < ledger'[cmd[p]].created + RetryWindow + SubmitWindow
<1> DEFINE c == cmd[p]
<1>p. p \in Processes
  BY DEF Processes
<1>1. CASE Leased(p) /\ deadline'[p] = deadline[p] /\ cmd'[p] = cmd[p]
  <2>1. cmd[p] \in Commands
    BY <1>1 DEF TypeOK, Leased
  <2> QED BY <1>1, <2>1, StaysRecorded DEF LeasedInv, Recorded
<1>2. CASE /\ deadline'[p] = now + SubmitWindow /\ cmd'[p] = cmd[p]
           /\ cmd[p] \in Commands /\ WithinRetryWindow(cmd[p]) /\ Recorded(cmd[p])'
  <2>1. now \in Nat /\ ledger[c].created \in Nat /\ ledger'[c].created \in Nat
    BY <1>2 DEF TypeOK, Entry
  <2>2. now - ledger'[c].created < RetryWindow
    <3>1. CASE Recorded(c)
      BY <1>2, <3>1, StaysRecorded DEF WithinRetryWindow
    <3>2. CASE ~Recorded(c)
      <4>1. ledger'[c].created = now
        BY <1>2, <3>2 DEF CreatedKept, Recorded
      <4> QED BY <2>1, <4>1, WindowTypes
    <3> QED BY <3>1, <3>2
  <2>3. now + SubmitWindow < ledger'[c].created + RetryWindow + SubmitWindow /\ now =< now + SubmitWindow
    BY <2>1, <2>2, WindowTypes
  <2> QED BY <1>2, <2>3
<1> QED BY <1>1, <1>2 DEF LeasedKept

\* The invariant behind AppliedAtMostOnce is inductive.
LEMMA OnceStep == OnceInv /\ [Next]_vars => OnceInv'
<1> SUFFICES ASSUME OnceInv, [Next]_vars PROVE OnceInv'
  OBVIOUS
<1> USE DEF OnceInv
<1>t. TypeOK'
  BY NextTypeOK
<1>n. /\ now \in Nat /\ now' \in Nat
      /\ \A c \in Commands : /\ ledger[c].created \in Nat /\ ledger'[c].created \in Nat
                             /\ keys[c] \in Nat /\ applied[c] \in Nat
      /\ \A q \in wire : q.until \in Nat /\ q.command \in Commands /\ q.by \in Requests
      /\ \A p \in Requests : deadline[p] \in Nat /\ p \in Processes
  BY <1>t DEF TypeOK, Entry, Processes
\* Steps that neither move the clock nor run a request.
<1>f. ASSUME CreatedKept, UNCHANGED <<now, keys, applied>>, \A p \in Requests : LeasedKept(p),
             \A q \in wire' \ wire : \E p \in Requests : /\ Leased(p) /\ q.command = cmd[p]
                                                          /\ q.until = now + LateBound
      PROVE  OnceInv'
  <2>1. ClockInv'
    BY <1>f, StaysRecorded DEF ClockInv
  <2>2. KeysInv'
    BY <1>f, StaysRecorded DEF KeysInv
  <2>3. LeasedInv'
    <3> SUFFICES ASSUME NEW p \in Requests, Leased(p)'
                 PROVE  /\ Recorded(cmd[p])' /\ now' =< deadline'[p]
                        /\ deadline'[p] < ledger'[cmd'[p]].created + RetryWindow + SubmitWindow
      BY DEF LeasedInv, Recorded
    <3>1. LeasedKept(p)
      BY <1>f
    <3>2. /\ Recorded(cmd[p])' /\ cmd'[p] = cmd[p] /\ now =< deadline'[p]
          /\ deadline'[p] < ledger'[cmd[p]].created + RetryWindow + SubmitWindow
      BY <1>f, <1>t, <3>1, LeasedTimes
    <3> QED BY <1>f, <3>2 DEF Recorded
  <2>4. WireInv'
    <3> SUFFICES ASSUME NEW q \in wire'
                 PROVE  /\ Recorded(q.command)' /\ now =< q.until
                        /\ q.until < ledger'[q.command].created + RetryWindow + SubmitWindow + LateBound
      BY <1>f DEF WireInv, Recorded
    <3>1. CASE q \in wire
      BY <1>f, <1>n, <3>1, StaysRecorded DEF WireInv
    <3>2. CASE q \notin wire
      <4>1. PICK p \in Requests : Leased(p) /\ q.command = cmd[p] /\ q.until = now + LateBound
        BY <1>f, <3>2
      <4>2. cmd[p] \in Commands
        BY <4>1 DEF TypeOK, Leased
      <4>3. /\ Recorded(cmd[p]) /\ now =< deadline[p]
            /\ deadline[p] < ledger[cmd[p]].created + RetryWindow + SubmitWindow
        BY <4>1 DEF LeasedInv
      <4>4. q.command \in Commands /\ Recorded(q.command)
        BY <4>1, <4>2, <4>3
      <4>5. Recorded(q.command)' /\ ledger'[q.command].created = ledger[q.command].created
        BY <1>f, <4>4, StaysRecorded
      <4> QED BY <1>n, <4>1, <4>2, <4>3, <4>4, <4>5, WindowTypes
    <3> QED BY <3>1, <3>2
  <2> QED BY <1>t, <2>1, <2>2, <2>3, <2>4
<1>1. ASSUME NEW p \in Requests, RequestStep(p) PROVE OnceInv'
  <2>1. CreatedKept /\ (\A q \in Requests : LeasedKept(q)) /\ UNCHANGED <<now, keys, applied>>
    BY <1>1, RequestTimes
  <2>2. \/ wire' = wire
        \/ pc[p] = "submit" /\ wire' = wire \cup {[by |-> p, command |-> cmd[p], form |-> form[p],
                                                   until |-> now + LateBound]}
    BY <1>1 DEF RequestStep, BeginCommand, FetchSubscription, Refresh, CancelSettled, CancelLeased,
                ChangeConfirmed, ChangeSettled, ChangeLeased, Mutate, ObserveResult,
                CompleteCancel, CompleteChange,
                FailLeased, Stop, processor
  <2>3. \A q \in wire' \ wire : Leased(p) /\ q.command = cmd[p] /\ q.until = now + LateBound
    BY <2>2 DEF Leased
  <2> QED BY <2>1, <2>3, <1>f
<1>2. ASSUME NEW w \in Workers, WorkerStep(w) PROVE OnceInv'
  <2>w. w \in Processes /\ w \notin Requests
    BY ProcessesDisjoint DEF Processes
  <2>1. CreatedKept
    <3>1. CASE ApplyEvent(w)
      <4>1. currentSubscription(w) \in Remote
        BY <2>w, OperatorTypes
      <4>2. \A c \in Commands : reconcileAmount(currentSubscription(w))[c].created = ledger[c].created
        BY DEF reconcileAmount, TypeOK, Entry
      <4> QED BY <3>1, <4>2 DEF ApplyEvent, CreatedKept
    <3>2. CASE UNCHANGED ledger
      BY <3>2 DEF CreatedKept
    <3> QED BY <3>1, <3>2, <1>2 DEF WorkerStep, BeginEvent, FetchSubscription, StopEvent, stored
  <2>2. /\ UNCHANGED <<now, keys, applied, wire>>
        /\ \A p \in Requests : pc'[p] = pc[p] /\ cmd'[p] = cmd[p] /\ deadline'[p] = deadline[p]
    BY <1>2, <1>n, <2>w DEF WorkerStep, BeginEvent, FetchSubscription, ApplyEvent, StopEvent, End,
                            processor, TypeOK
  <2>3. \A p \in Requests : LeasedKept(p)
    BY <2>2 DEF LeasedKept, Leased
  <2> QED BY <2>1, <2>2, <2>3, <1>f
<1>3. ASSUME NEW q \in wire, ProcessorRuns(q) PROVE OnceInv'
  <2> DEFINE c == q.command
  <2>0. /\ c \in Commands /\ q.by \in Processes
        /\ UNCHANGED <<now, ledger, cmd, deadline>> /\ wire' \subseteq wire
    BY <1>3, <1>n DEF ProcessorRuns, stored, Processes
  <2>1. CreatedKept /\ \A p \in Requests : LeasedKept(p)
    <3>1. \A p \in Requests : pc'[p] = pc[p] \/ (pc[p] = "await" /\ pc'[p] = "accepted")
      BY <1>3, <1>n, <2>0 DEF ProcessorRuns, Reply, TypeOK
    <3> QED BY <3>1, <2>0 DEF CreatedKept, LeasedKept, Leased
  <2>2. CASE UNCHANGED <<keys, applied>>
    BY <2>0, <2>1, <2>2, <1>f
  <2>3. CASE /\ ~KeyKnown(c) /\ keys' = [keys EXCEPT ![c] = now]
             /\ applied' = [applied EXCEPT ![c] = @ + 1]
    <3>1. /\ Recorded(c) /\ now =< q.until
          /\ q.until < ledger[c].created + RetryWindow + SubmitWindow + LateBound
      BY DEF WireInv
    <3>2. keys[c] = Never
      <4> SUFFICES ASSUME keys[c] # Never PROVE FALSE
        OBVIOUS
      <4>1. ledger[c].created =< keys[c] /\ now - keys[c] >= KeyMemory
        BY <2>0, <2>3, <1>n, WindowTypes DEF KeysInv, KeyKnown
      <4> QED BY <3>1, <4>1, <1>n, <2>0, WindowTypes
    <3>3. applied[c] = 0 /\ ledger[c].created =< now /\ now # Never
      BY <3>2, <2>0 DEF KeysInv, ClockInv
    <3>4. KeysInv'
      <4> SUFFICES ASSUME NEW d \in Commands
                   PROVE  /\ applied'[d] =< 1 /\ (keys'[d] = Never => applied'[d] = 0)
                          /\ (keys'[d] # Never => Recorded(d) /\ ledger[d].created =< keys'[d])
        BY <2>0 DEF KeysInv, Recorded
      <4>0. keys \in [Commands -> Nat] /\ applied \in [Commands -> Nat]
        BY DEF TypeOK
      <4> HIDE DEF c
      <4>1. CASE d = c
        <5>1. keys'[d] = now /\ applied'[d] = 1
          BY <2>0, <2>3, <3>3, <4>0, <4>1
        <5> QED BY <5>1, <3>1, <3>3, <4>1
      <4>2. CASE d # c
        <5>1. keys'[d] = keys[d] /\ applied'[d] = applied[d]
          BY <2>0, <2>3, <4>0, <4>2
        <5> QED BY <5>1 DEF KeysInv
      <4> QED BY <4>1, <4>2
    <3>5. ClockInv' /\ WireInv'
      BY <2>0 DEF ClockInv, WireInv, Recorded
    <3>6. LeasedInv'
      <4>1. \A p \in Requests : Leased(p)' => Leased(p)
        BY <1>3, <1>n, <2>0 DEF ProcessorRuns, Reply, TypeOK, Leased
      <4> QED BY <4>1, <2>0 DEF LeasedInv, Recorded
    <3> QED BY <1>t, <3>4, <3>5, <3>6
  <2> QED BY <1>3, <2>2, <2>3 DEF ProcessorRuns
<1>4. ASSUME (\E q \in wire : ProcessorDrops(q)) \/ ProcessorRenews \/ ProcessorUpdates \/ UNCHANGED vars
      PROVE  OnceInv'
  <2>1. UNCHANGED <<now, keys, applied, ledger, pc, cmd, deadline>> /\ wire' \subseteq wire
    BY <1>4 DEF ProcessorDrops, ProcessorRenews, ProcessorUpdates, vars, processor, stored, local
  <2> QED BY <1>t, <2>1 DEF ClockInv, KeysInv, LeasedInv, WireInv, Leased, Recorded
<1>5. CASE Tick
  <2>1. /\ UNCHANGED <<keys, applied, wire, ledger, pc, cmd, deadline>> /\ now' = now + 1
        /\ \A p \in Requests : Leased(p) => now < deadline[p]
        /\ \A q \in wire : now < q.until
    BY <1>5 DEF Tick, processor, stored, local
  <2>2. ClockInv'
    BY <2>1, <1>n DEF ClockInv
  <2>3. KeysInv'
    BY <2>1 DEF KeysInv, Recorded
  <2>4. LeasedInv'
    BY <2>1, <1>n DEF LeasedInv, Leased, Recorded
  <2>5. WireInv'
    BY <2>1, <1>n DEF WireInv, Recorded
  <2> QED BY <1>t, <2>2, <2>3, <2>4, <2>5
<1> QED BY <1>1, <1>2, <1>3, <1>4, <1>5 DEF Next, ProcessorStep

\* commandRetryWindow is short enough: however often a command is retried, and
\* however late its requests run, the processor runs it at most once.
THEOREM RunsOnce == Spec => []AppliedAtMostOnce
<1>1. Init => OnceInv
  <2> SUFFICES ASSUME Init PROVE OnceInv
    OBVIOUS
  <2>1. TypeOK
    BY InitTypeOK
  <2>2. ClockInv /\ KeysInv
    BY DEF Init, ClockInv, KeysInv, NoEntry, Recorded
  <2>3. LeasedInv /\ WireInv
    BY DEF Init, LeasedInv, WireInv, Leased, Processes
  <2> QED BY <2>1, <2>2, <2>3 DEF OnceInv
<1>2. OnceInv => AppliedAtMostOnce
  BY DEF OnceInv, KeysInv, AppliedAtMostOnce
<1> QED BY <1>1, <1>2, OnceStep, PTL DEF Spec

-----------------------------------------------------------------------------
(***************************************************************************)
(* The ledger: what the donor is told about a recurring gift is so at the  *)
(* processor. It rests on the invariant OnceInv.                           *)
(***************************************************************************)

(***************************************************************************)
(* The inductive invariant.                                                *)
(***************************************************************************)

Count == Cardinality(Inserted)

\* c is the change recorded last.
Latest(c) == c \in Inserted /\ ledger[c].nth = Count

\* Amount changes are numbered in the order they were recorded in.
Ordered ==
  /\ \A c \in Inserted : ledger[c].nth \in 1 .. Count
  /\ \A c, d \in Inserted : ledger[c].nth = ledger[d].nth => c = d
  /\ \A n \in 1 .. Count : \E c \in Inserted : ledger[c].nth = n

\* Each change starts from the amount the one before it set.
Chained ==
  \A c \in Inserted :
    /\ ledger[c].form.amount # ledger[c].form.previous
    /\ ledger[c].nth = 1 => ledger[c].form.previous = DraftAmount
    /\ \A d \in Inserted : ledger[d].nth = ledger[c].nth + 1
                             => ledger[d].form.previous = ledger[c].form.amount

\* Only the change recorded last may be unconfirmed.
LastOpen ==
  /\ \A c \in Commands : ledger[c].settled => Recorded(c)
  /\ \A c \in Inserted : ledger[c].nth < Count => ledger[c].settled

\* The processor charges what the last change asks for, or what it replaces.
Charged ==
  /\ Inserted = {} => sub.amount = DraftAmount
  /\ \A c \in Changes : Latest(c) =>
       sub.amount = IF applied[c] > 0 THEN ledger[c].form.amount ELSE ledger[c].form.previous

\* t is the end of the current billing period, or of one that is over.
Passed(t) == t =< sub.period_end /\ (t = sub.period_end \/ t =< now)

\* What may be concluded from reading r at the processor.
Seen(r) ==
  /\ \A c \in Changes : Latest(c) /\ r.amount = ledger[c].form.amount => applied[c] > 0
  /\ StopsAt(r) => StopsAt(sub)
  /\ Passed(r.period_end)

SnapsTrue == \A p \in Processes : snap[p].current /\ Reads(p) => Seen(snap[p].remote)

\* A request asks the processor for what was recorded.
FormsSame ==
  /\ \A p \in Requests : Leased(p) => form[p] = ledger[cmd[p]].form
  /\ \A q \in wire : q.form = ledger[q.command].form

\* Every time in the store is the end of a period that was current once.
TimesPassed ==
  /\ Passed(row.period_end)
  /\ \A p \in Processes : Passed(form[p].at)
  /\ \A c \in Commands : Passed(ledger[c].form.at)
  /\ sub.cancel_at \in {Never, sub.period_end}

\* An amount change runs before the renewal it was prepared for.
Timely ==
  /\ \A p \in Requests : Leased(p) /\ cmd[p] \in Changes => deadline[p] + LateBound < form[p].at
  /\ \A q \in wire : q.command \in Changes => q.until < q.form.at
  /\ \A c \in Changes : keys[c] # Never => keys[c] < ledger[c].form.at

\* A request whose change is not in effect yet holds the lease beyond its deadline.
Held ==
  /\ \A p \in Requests : Leased(p) /\ ~InEffect(cmd[p])
                           => lease.command = cmd[p] /\ deadline[p] < lease.expires
  /\ \A p, q \in Requests : Leased(p) /\ Leased(q) /\ p # q
                              => InEffect(cmd[p]) \/ InEffect(cmd[q])

LedgerInv == Ordered /\ Chained /\ LastOpen
ChargeInv == Charged /\ SettledIsDone /\ SnapsTrue
CallInv   == FormsSame /\ TimesPassed /\ Timely /\ Held

StoreInv == OnceInv /\ LedgerInv /\ ChargeInv /\ CallInv

(***************************************************************************)
(* The order of amount changes.                                            *)
(***************************************************************************)

\* Changes are finitely many, so they can be counted.
LEMMA CountType == IsFiniteSet(Inserted) /\ Count \in Nat
<1>1. IsFiniteSet(Inserted)
  BY ChangesFinite, FS_Subset DEF Inserted
<1> QED BY <1>1, FS_CardinalityType DEF Count

\* LatestAmountChange finds the change recorded last.
LEMMA LatestIs ==
  ASSUME TypeOK, Ordered
  PROVE  /\ Inserted # {} => Latest(LatestAmountChange)
         /\ \A c \in Changes : Latest(c) => LatestAmountChange = c
<1>t. Count \in Nat /\ \A c \in Inserted : ledger[c].nth \in Nat
  BY CountType DEF TypeOK, Entry, Inserted, Commands
<1>1. ASSUME NEW c \in Inserted, ledger[c].nth = Count
      PROVE  LatestAmountChange = c
  <2>1. \A d \in Inserted : ledger[d].nth =< ledger[c].nth
    BY <1>1, <1>t DEF Ordered
  <2>2. /\ LatestAmountChange \in Inserted
        /\ \A d \in Inserted : ledger[d].nth =< ledger[LatestAmountChange].nth
    BY <2>1 DEF LatestAmountChange
  <2>3. ledger[LatestAmountChange].nth = ledger[c].nth
    BY <2>1, <2>2, <1>t
  <2> QED BY <2>2, <2>3 DEF Ordered
<1>2. ASSUME NEW c \in Inserted PROVE \E d \in Inserted : ledger[d].nth = Count
  <2>1. Count \in 1 .. Count
    BY <1>t DEF Ordered
  <2> QED BY <2>1 DEF Ordered
<1> QED BY <1>1, <1>2 DEF Latest

\* reconcileAmount confirms the last change if the processor charges it.
LEMMA ConfirmsIs ==
  ASSUME TypeOK, Ordered, NEW r, NEW c
  PROVE  c \in Confirms(r) <=> Latest(c) /\ r.amount = ledger[c].form.amount
<1>1. c \in Inserted => c \in Changes
  BY DEF Inserted
<1> QED BY <1>1, LatestIs DEF Confirms, Latest

\* The next amount is that of the confirmed change with the greatest number.
LEMMA NextAmountIs ==
  ASSUME NEW e \in [Commands -> Entry], NEW c \in Confirmed(e),
         \A d \in Confirmed(e) : d # c => e[d].nth < e[c].nth
  PROVE  nextAmount(e) = e[c].form.amount
<1> DEFINE m == CHOOSE x \in Confirmed(e) : \A d \in Confirmed(e) : e[d].nth =< e[x].nth
<1>t. \A d \in Confirmed(e) : e[d].nth \in Nat
  BY DEF Confirmed, Entry, Commands
<1>1. \A d \in Confirmed(e) : e[d].nth =< e[c].nth
  BY <1>t
<1>2. m \in Confirmed(e) /\ \A d \in Confirmed(e) : e[d].nth =< e[m].nth
  BY <1>1
<1>3. m = c
  <2> HIDE DEF m
  <2>1. e[c].nth =< e[m].nth
    BY <1>2
  <2> QED BY <1>2, <2>1, <1>t
<1>4. Confirmed(e) # {}
  OBVIOUS
<1> QED BY <1>3, <1>4 DEF nextAmount

(***************************************************************************)
(* What a step does to the ledger.                                         *)
(***************************************************************************)

\* p's step records its command.
New(p, rec) == rec /\ ~Recorded(cmd[p])

\* p's step brings the ledger up to date with what p read; rec says that it
\* records p's command, done that it marks it done.
Writes(p, rec, done) ==
  \A d \in Commands :
    IF New(p, rec) /\ d = cmd[p]
    THEN /\ ledger'[d].form = form[p] /\ ledger'[d].created = now
         /\ ledger'[d].nth = Count + 1
         /\ ledger'[d].settled <=> done
    ELSE /\ ledger'[d].form = ledger[d].form /\ ledger'[d].created = ledger[d].created
         /\ ledger'[d].nth = ledger[d].nth
         /\ ledger'[d].settled <=> \/ ledger[d].settled
                                   \/ d \in Confirms(currentSubscription(p))
                                   \/ done /\ d = cmd[p]

\* p saves what it read, and syncs the ledger with it.
Syncs(p, rec, done) ==
  LET r == currentSubscription(p) IN
  /\ Saves(p) /\ Writes(p, rec, done)
  /\ UNCHANGED <<now, keys, applied>>
  /\ rec \/ done => cmd[p] \in Commands
  /\ rec => ~snap'[p].current
  /\ done => cmd[p] \in Cancels /\ (ledger[cmd[p]].settled \/ StopsAt(r))
  /\ done /\ ~rec => p \in Requests /\ Leased(p)
  /\ New(p, rec) /\ cmd[p] \in Changes => InsertsAmountChange(p, r)

\* The ledger of reconcileAmount, entry by entry.
LEMMA ReconciledEntry ==
  ASSUME TypeOK, NEW r, NEW d \in Commands
  PROVE  LET e == reconcileAmount(r)[d] IN
         /\ e.form = ledger[d].form /\ e.created = ledger[d].created /\ e.nth = ledger[d].nth
         /\ e.settled <=> ledger[d].settled \/ d \in Confirms(r)
<1>1. ledger[d] \in Entry
  BY DEF TypeOK
<1>2. CASE d \in Confirms(r)
  <2>1. reconcileAmount(r)[d] = [ledger[d] EXCEPT !.settled = TRUE]
    BY <1>2 DEF reconcileAmount
  <2> QED BY <1>1, <1>2, <2>1 DEF Entry
<1>3. CASE d \notin Confirms(r)
  BY <1>3 DEF reconcileAmount
<1> QED BY <1>2, <1>3

\* The four ways a step writes the ledger.
LEMMA WritesLedger ==
  ASSUME TypeOK, NEW p \in Processes
  PROVE  LET e == reconcileAmount(currentSubscription(p)) IN
         /\ ledger' = e => Writes(p, FALSE, FALSE)
         /\ cmd[p] \in Commands =>
              /\ ledger' = Settle(e, cmd[p]) => Writes(p, FALSE, TRUE)
              /\ ledger' = Record(p, e) => Writes(p, TRUE, FALSE)
              /\ ledger' = Settle(Record(p, e), cmd[p]) => Writes(p, TRUE, TRUE)
<1> DEFINE r == currentSubscription(p)
           e == reconcileAmount(r)
<1>t. e \in [Commands -> Entry] /\ (cmd[p] \in Commands => Record(p, e) \in [Commands -> Entry])
  BY OperatorTypes
<1>e. \A d \in Commands : /\ e[d].form = ledger[d].form /\ e[d].created = ledger[d].created
                          /\ e[d].nth = ledger[d].nth
                          /\ e[d].settled <=> ledger[d].settled \/ d \in Confirms(r)
  BY ReconciledEntry
<1> HIDE DEF e, r
<1>s. ASSUME NEW f \in [Commands -> Entry], NEW c \in Commands, NEW d \in Commands
      PROVE  /\ Settle(f, c)[d].form = f[d].form /\ Settle(f, c)[d].created = f[d].created
             /\ Settle(f, c)[d].nth = f[d].nth
             /\ Settle(f, c)[d].settled <=> f[d].settled \/ d = c
  BY DEF Settle, Entry
<1>r. ASSUME cmd[p] \in Commands, NEW d \in Commands
      PROVE  IF d = cmd[p] /\ ~Recorded(cmd[p])
             THEN /\ Record(p, e)[d].form = form[p] /\ Record(p, e)[d].created = now
                  /\ Record(p, e)[d].nth = Count + 1 /\ ~Record(p, e)[d].settled
             ELSE Record(p, e)[d] = e[d]
  BY <1>t, <1>r DEF Record, Count
<1>1. ledger' = e => Writes(p, FALSE, FALSE)
  BY <1>e DEF Writes, New, r
<1>2. ASSUME cmd[p] \in Commands, ledger' = Settle(e, cmd[p]) PROVE Writes(p, FALSE, TRUE)
  <2>1. \A d \in Commands : /\ ledger'[d].form = e[d].form /\ ledger'[d].created = e[d].created
                            /\ ledger'[d].nth = e[d].nth
                            /\ ledger'[d].settled <=> e[d].settled \/ d = cmd[p]
    BY <1>2, <1>s, <1>t
  <2> QED BY <2>1, <1>e DEF Writes, New, r
<1>3. ASSUME cmd[p] \in Commands, ledger' = Record(p, e) PROVE Writes(p, TRUE, FALSE)
  BY <1>3, <1>r, <1>e DEF Writes, New, r
<1>4. ASSUME cmd[p] \in Commands, ledger' = Settle(Record(p, e), cmd[p]) PROVE Writes(p, TRUE, TRUE)
  <2> DEFINE f == Record(p, e)
  <2>1. \A d \in Commands : /\ ledger'[d].form = f[d].form /\ ledger'[d].created = f[d].created
                            /\ ledger'[d].nth = f[d].nth
                            /\ ledger'[d].settled <=> f[d].settled \/ d = cmd[p]
    BY <1>4, <1>s, <1>t
  <2> QED BY <2>1, <1>4, <1>r, <1>e DEF Writes, New, r
<1> QED BY <1>1, <1>2, <1>3, <1>4 DEF e, r

\* The steps that save a subscription are syncs.
LEMMA RequestSyncs ==
  ASSUME TypeOK, NEW p \in Requests,
         \/ Refresh(p) \/ CancelSettled(p) \/ CancelLeased(p) \/ ChangeSettled(p)
         \/ ChangeLeased(p) \/ CompleteCancel(p) \/ CompleteChange(p)
  PROVE  \E rec, done \in BOOLEAN : Syncs(p, rec, done)
<1> DEFINE r == currentSubscription(p)
<1>p. p \in Processes /\ (pc[p] # "idle" => cmd[p] \in Commands)
  BY DEF Processes, TypeOK
<1>t. r \in Remote /\ NoSnap \in Snapshot /\ ~NoSnap.current
  BY <1>p, OperatorTypes DEF NoSnap
\* A step that saves and drops its snapshot.
<1>s. ASSUME Reads(p), SaveSubscription(p, r, NoSnap), UNCHANGED <<now, processor>>
      PROVE  Saves(p) /\ ~snap'[p].current /\ UNCHANGED <<now, keys, applied>>
  <2>1. Saves(p)
    BY <1>p, <1>s, <1>t, SaveOutdates DEF processor
  <2>2. snap'[p] = NoSnap
    BY <1>p, <1>s DEF SaveSubscription, Outdate
  <2> QED BY <1>s, <1>t, <2>1, <2>2 DEF processor
<1>1. CASE Refresh(p)
  <2>1. [current |-> TRUE, remote |-> r] \in Snapshot
    BY <1>t DEF Snapshot
  <2>2. Saves(p)
    BY <1>1, <1>p, <2>1, SaveOutdates DEF Refresh, Reads, processor
  <2>3. Writes(p, FALSE, FALSE) /\ UNCHANGED <<now, keys, applied>>
    BY <1>1, <1>p, WritesLedger DEF Refresh, processor
  <2> QED BY <2>2, <2>3 DEF Syncs, New
<1>2. CASE CancelSettled(p)
  <2>1. Reads(p) /\ cmd[p] \in Commands
    BY <1>2, <1>p DEF CancelSettled, Reads
  <2>2. Saves(p) /\ ~snap'[p].current /\ UNCHANGED <<now, keys, applied>>
    BY <1>2, <1>s, <2>1 DEF CancelSettled
  <2>3. Writes(p, TRUE, TRUE)
    BY <1>2, <1>p, <2>1, WritesLedger DEF CancelSettled
  <2>4. cmd[p] \in Cancels /\ cmd[p] \notin Changes /\ (ledger[cmd[p]].settled \/ StopsAt(r))
    BY <1>2, CommandsDisjoint DEF CancelSettled
  <2> QED BY <2>1, <2>2, <2>3, <2>4 DEF Syncs
<1>3. CASE CancelLeased(p)
  <2>1. Reads(p) /\ cmd[p] \in Commands /\ cmd[p] \notin Changes
    BY <1>3, <1>p, CommandsDisjoint DEF CancelLeased, Reads
  <2>2. Saves(p) /\ ~snap'[p].current /\ UNCHANGED <<now, keys, applied>>
    BY <1>3, <1>s, <2>1 DEF CancelLeased
  <2>3. Writes(p, TRUE, FALSE)
    BY <1>3, <1>p, <2>1, WritesLedger DEF CancelLeased
  <2> QED BY <2>1, <2>2, <2>3 DEF Syncs
<1>4. CASE ChangeSettled(p)
  <2>1. Reads(p)
    BY <1>4 DEF ChangeSettled, Reads
  <2>2. Saves(p) /\ ~snap'[p].current /\ UNCHANGED <<now, keys, applied>>
    BY <1>4, <1>s, <2>1 DEF ChangeSettled
  <2>3. Writes(p, FALSE, FALSE)
    BY <1>4, <1>p, WritesLedger DEF ChangeSettled
  <2> QED BY <2>2, <2>3 DEF Syncs, New
<1>5. CASE ChangeLeased(p)
  <2>1. Reads(p) /\ cmd[p] \in Commands
    BY <1>5, <1>p DEF ChangeLeased, Reads
  <2>2. Saves(p) /\ ~snap'[p].current /\ UNCHANGED <<now, keys, applied>>
    BY <1>5, <1>s, <2>1 DEF ChangeLeased
  <2>3. Writes(p, TRUE, FALSE)
    BY <1>5, <1>p, <2>1, WritesLedger DEF ChangeLeased
  <2>4. New(p, TRUE) => InsertsAmountChange(p, r)
    BY <1>5 DEF ChangeLeased, New
  <2> QED BY <2>1, <2>2, <2>3, <2>4 DEF Syncs
<1>6. CASE CompleteCancel(p)
  <2>1. Reads(p) /\ Leased(p) /\ cmd[p] \in Commands
    BY <1>6, <1>p DEF CompleteCancel, Reads, Leased
  <2>2. Saves(p) /\ ~snap'[p].current /\ UNCHANGED <<now, keys, applied>>
    BY <1>6, <1>s, <2>1 DEF CompleteCancel
  <2>3. Writes(p, FALSE, TRUE)
    BY <1>6, <1>p, <2>1, WritesLedger DEF CompleteCancel
  <2>4. cmd[p] \in Cancels /\ (ledger[cmd[p]].settled \/ StopsAt(r))
    BY <1>6 DEF CompleteCancel
  <2> QED BY <2>1, <2>2, <2>3, <2>4 DEF Syncs, New
<1>7. CASE CompleteChange(p)
  <2>1. Reads(p)
    BY <1>7 DEF CompleteChange, Reads
  <2>2. Saves(p) /\ ~snap'[p].current /\ UNCHANGED <<now, keys, applied>>
    BY <1>7, <1>s, <2>1 DEF CompleteChange
  <2>3. Writes(p, FALSE, FALSE)
    BY <1>7, <1>p, WritesLedger DEF CompleteChange
  <2> QED BY <2>2, <2>3 DEF Syncs, New
<1> QED BY <1>1, <1>2, <1>3, <1>4, <1>5, <1>6, <1>7

\* Every step syncs, leaves the ledger and the processor alone, or is one of
\* the processor or of time.
LEMMA StepKinds ==
  ASSUME TypeOK, [Next]_vars
  PROVE  \/ \E p \in Processes, rec, done \in BOOLEAN : Syncs(p, rec, done)
         \/ UNCHANGED <<now, sub, keys, applied, ledger>>
         \/ \E q \in wire : ProcessorRuns(q)
         \/ ProcessorRenews
         \/ ProcessorUpdates
         \/ Tick
<1>1. ASSUME NEW p \in Requests, RequestStep(p)
      PROVE  \/ \E rec, done \in BOOLEAN : Syncs(p, rec, done)
             \/ UNCHANGED <<now, sub, keys, applied, ledger>>
  <2>1. CASE \/ Refresh(p) \/ CancelSettled(p) \/ CancelLeased(p) \/ ChangeSettled(p)
             \/ ChangeLeased(p) \/ CompleteCancel(p) \/ CompleteChange(p)
    BY <2>1, RequestSyncs
  <2>2. CASE \/ \E c \in Commands : \E f \in Forms(c) : BeginCommand(p, c, f)
             \/ \E from, to \in RequestStates : FetchSubscription(p, from, to)
             \/ ChangeConfirmed(p) \/ Mutate(p) \/ ObserveResult(p) \/ FailLeased(p) \/ Stop(p)
    BY <2>2 DEF BeginCommand, FetchSubscription, ChangeConfirmed, Mutate, ObserveResult,
                FailLeased, Stop, processor, stored
  <2> QED BY <1>1, <2>1, <2>2 DEF RequestStep, RequestStates
<1>2. ASSUME NEW w \in Workers, WorkerStep(w)
      PROVE  \/ Syncs(w, FALSE, FALSE)
             \/ UNCHANGED <<now, sub, keys, applied, ledger>>
  <2>w. w \in Processes
    BY DEF Processes
  <2>1. CASE ApplyEvent(w)
    <3>1. NoSnap \in Snapshot /\ ~NoSnap.current
      BY OperatorTypes DEF NoSnap
    <3>2. Saves(w)
      BY <2>1, <2>w, <3>1, SaveOutdates DEF ApplyEvent, Reads, processor
    <3>3. Writes(w, FALSE, FALSE) /\ UNCHANGED <<now, keys, applied>>
      BY <2>1, <2>w, WritesLedger DEF ApplyEvent, processor
    <3> QED BY <3>2, <3>3 DEF Syncs, New
  <2>2. CASE BeginEvent(w) \/ FetchSubscription(w, "fetchEvent", "apply") \/ StopEvent(w)
    BY <2>2 DEF BeginEvent, FetchSubscription, StopEvent, processor, stored
  <2> QED BY <1>2, <2>1, <2>2 DEF WorkerStep
<1>3. ASSUME NEW q \in wire, ProcessorDrops(q) PROVE UNCHANGED <<now, sub, keys, applied, ledger>>
  BY <1>3 DEF ProcessorDrops, stored
<1>4. CASE UNCHANGED vars
  BY <1>4 DEF vars, processor, stored
<1>5. Requests \subseteq Processes /\ Workers \subseteq Processes /\ FALSE \in BOOLEAN
  BY DEF Processes
<1> QED BY <1>1, <1>2, <1>3, <1>4, <1>5 DEF Next, ProcessorStep

(***************************************************************************)
(* Syncs keep the ledger in order and in step with the processor.          *)
(***************************************************************************)

\* A sync adds at most its own change to the recorded ones.
LEMMA Grows ==
  ASSUME TypeOK, ClockInv, NEW p \in Processes, NEW rec \in BOOLEAN, NEW done \in BOOLEAN,
         Syncs(p, rec, done)
  PROVE  IF New(p, rec) /\ cmd[p] \in Changes
         THEN Inserted' = Inserted \cup {cmd[p]} /\ cmd[p] \notin Inserted /\ Count' = Count + 1
         ELSE Inserted' = Inserted /\ Count' = Count
<1>1. Inserted' = {c \in Changes : ledger'[c].created # Never}
  BY DEF Inserted, Recorded
<1>2. now # Never /\ Changes \subseteq Commands
  BY DEF TypeOK, ClockInv, Commands
<1>3. CASE New(p, rec) /\ cmd[p] \in Changes
  <2>1. \A c \in Commands : IF c = cmd[p] THEN ledger'[c].created = now
                            ELSE ledger'[c].created = ledger[c].created
    BY <1>3 DEF Syncs, Writes
  <2>2. Inserted' = Inserted \cup {cmd[p]} /\ cmd[p] \notin Inserted
    BY <1>1, <1>2, <1>3, <2>1 DEF Inserted, Recorded, New
  <2>3. Cardinality(Inserted \cup {cmd[p]}) = Cardinality(Inserted) + 1
    BY <2>2, CountType, FS_AddElement
  <2> QED BY <1>3, <2>2, <2>3 DEF Count
<1>4. CASE ~(New(p, rec) /\ cmd[p] \in Changes)
  <2>1. \A c \in Changes : ledger'[c].created = ledger[c].created
    BY <1>2, <1>4 DEF Syncs, Writes
  <2>2. Inserted' = Inserted
    BY <1>1, <2>1 DEF Inserted, Recorded
  <2> QED BY <1>4, <2>2 DEF Count
<1> QED BY <1>3, <1>4

\* insertAmountChange: every earlier change is confirmed, and the new one
\* starts from what the last of them set.
LEMMA Preceding ==
  ASSUME TypeOK, LedgerInv, NEW p \in Processes, NEW r \in Remote, InsertsAmountChange(p, r)
  PROVE  /\ \A c \in Inserted : ledger[c].settled \/ c \in Confirms(r)
         /\ Inserted = {} => form[p].previous = DraftAmount
         /\ \A c \in Changes : Latest(c) => form[p].previous = ledger[c].form.amount
<1> DEFINE e == reconcileAmount(r)
<1>t. /\ Count \in Nat /\ Inserted \subseteq Changes /\ Changes \subseteq Commands
      /\ \A c \in Inserted : ledger[c].nth \in 1 .. Count
      /\ e \in [Commands -> Entry]
  BY CountType, OperatorTypes DEF LedgerInv, Ordered, Inserted, Commands
<1>e. \A d \in Commands : /\ e[d].form = ledger[d].form /\ e[d].nth = ledger[d].nth
                          /\ e[d].settled <=> ledger[d].settled \/ d \in Confirms(r)
  BY ReconciledEntry
<1>i. form[p].previous = nextAmount(e) /\ (Inserted # {} => e[LatestAmountChange].settled)
  BY DEF InsertsAmountChange
<1> HIDE DEF e
<1>1. ASSUME NEW c \in Inserted PROVE ledger[c].settled \/ c \in Confirms(r)
  <2>1. CASE ledger[c].nth < Count
    BY <2>1 DEF LedgerInv, LastOpen
  <2>2. CASE ledger[c].nth = Count
    <3>1. LatestAmountChange = c
      BY <1>t, <2>2, LatestIs DEF LedgerInv, Latest
    <3> QED BY <1>t, <1>e, <1>i, <3>1
  <2> QED BY <1>t, <2>1, <2>2
<1>2. Confirmed(e) = Inserted
  <2>1. \A c \in Changes : e[c].settled <=> c \in Inserted
    BY <1>t, <1>e, <1>1 DEF LedgerInv, LastOpen, Inserted, Confirms
  <2> QED BY <2>1, <1>t DEF Confirmed
<1>3. ASSUME Inserted = {} PROVE form[p].previous = DraftAmount
  BY <1>2, <1>3, <1>i DEF nextAmount
<1>4. ASSUME NEW c \in Changes, Latest(c) PROVE form[p].previous = ledger[c].form.amount
  <2>1. c \in Inserted /\ ledger[c].nth = Count
    BY <1>4 DEF Latest
  <2>2. \A d \in Inserted : d # c => e[d].nth < e[c].nth
    <3> TAKE d \in Inserted
    <3> HAVE d # c
    <3>1. ledger[d].nth # Count
      BY <2>1 DEF LedgerInv, Ordered
    <3>2. ledger[d].nth < ledger[c].nth
      BY <1>t, <2>1, <3>1
    <3> QED BY <1>t, <1>e, <2>1, <3>2
  <2>3. nextAmount(e) = e[c].form.amount
    BY <1>2, <1>t, <2>1, <2>2, NextAmountIs
  <2> QED BY <1>t, <1>e, <1>i, <2>3
<1> QED BY <1>1, <1>3, <1>4

\* Syncs keep the order and the chain of amount changes.
LEMMA SyncsLedger ==
  ASSUME OnceInv, LedgerInv, NEW p \in Processes, NEW rec \in BOOLEAN, NEW done \in BOOLEAN,
         Syncs(p, rec, done)
  PROVE  LedgerInv'
<1> DEFINE r == currentSubscription(p)
           n == cmd[p]
<1>t. /\ TypeOK /\ ClockInv /\ Count \in Nat /\ Inserted \subseteq Changes /\ Changes \subseteq Commands
      /\ r \in Remote
      /\ \A c \in Inserted : ledger[c].nth \in 1 .. Count
  BY CountType, OperatorTypes DEF OnceInv, LedgerInv, Ordered, Inserted, Commands
<1>w. Writes(p, rec, done)
  BY DEF Syncs
<1>r. \A c \in Commands : ledger'[c].settled => Recorded(c)'
  <2> SUFFICES ASSUME NEW c \in Commands, ledger'[c].settled PROVE ledger'[c].created # Never
    BY DEF Recorded
  <2>1. CASE New(p, rec) /\ c = cmd[p]
    BY <1>t, <1>w, <2>1 DEF Writes, TypeOK, ClockInv
  <2>2. CASE ~(New(p, rec) /\ c = cmd[p])
    <3>1. /\ ledger'[c].created = ledger[c].created
          /\ ledger[c].settled \/ c \in Confirms(r) \/ (done /\ c = cmd[p])
      BY <1>w, <2>2 DEF Writes
    <3>2. c \in Confirms(r) => Recorded(c)
      BY DEF Confirms, Inserted
    <3>3. ledger[c].settled => Recorded(c)
      BY DEF LedgerInv, LastOpen
    <3>4. done /\ c = cmd[p] => Recorded(c)
      BY <2>2 DEF Syncs, New, OnceInv, LeasedInv
    <3> QED BY <3>1, <3>2, <3>3, <3>4 DEF Recorded
  <2> QED BY <2>1, <2>2
\* The entries of the changes recorded before, after the sync.
<1>k. ASSUME NEW c \in Inserted
      PROVE  /\ ledger'[c].form = ledger[c].form /\ ledger'[c].nth = ledger[c].nth
             /\ ledger'[c].settled <=> ledger[c].settled \/ c \in Confirms(r)
  <2>1. c \in Commands /\ Recorded(c) /\ c \notin Cancels
    BY <1>t, CommandsDisjoint DEF Inserted
  <2>2. ~(done /\ c = cmd[p]) /\ ~(New(p, rec) /\ c = cmd[p])
    BY <2>1 DEF Syncs, New
  <2> QED BY <1>w, <2>1, <2>2 DEF Writes
<1>1. CASE New(p, rec) /\ n \in Changes
  <2>g. Inserted' = Inserted \cup {n} /\ n \notin Inserted /\ Count' = Count + 1
    BY <1>t, <1>1, Grows
  <2>n. ledger'[n].form = form[p] /\ ledger'[n].nth = Count + 1
    BY <1>t, <1>w, <1>1 DEF Writes
  <2>i. InsertsAmountChange(p, r)
    BY <1>1 DEF Syncs
  <2>p. /\ \A c \in Inserted : ledger[c].settled \/ c \in Confirms(r)
        /\ Inserted = {} => form[p].previous = DraftAmount
        /\ \A c \in Changes : Latest(c) => form[p].previous = ledger[c].form.amount
        /\ form[p].amount # form[p].previous
    BY <1>t, <2>i, Preceding DEF InsertsAmountChange
  <2> HIDE DEF n
  <2>1. Ordered'
    <3>1. \A c \in Inserted' : ledger'[c].nth \in 1 .. Count'
      BY <1>t, <1>k, <2>g, <2>n
    <3>2. \A c, d \in Inserted' : ledger'[c].nth = ledger'[d].nth => c = d
      <4> TAKE c, d \in Inserted'
      <4> HAVE ledger'[c].nth = ledger'[d].nth
      <4>1. \A x \in Inserted : ledger'[x].nth # Count + 1
        BY <1>t, <1>k
      <4>2. CASE c \in Inserted /\ d \in Inserted
        BY <1>k, <4>2 DEF LedgerInv, Ordered
      <4> QED BY <2>g, <2>n, <4>1, <4>2
    <3>3. \A k \in 1 .. Count' : \E c \in Inserted' : ledger'[c].nth = k
      <4> TAKE k \in 1 .. Count'
      <4>1. CASE k = Count + 1
        BY <2>g, <2>n, <4>1
      <4>2. CASE k \in 1 .. Count
        <5>1. PICK c \in Inserted : ledger[c].nth = k
          BY <4>2 DEF LedgerInv, Ordered
        <5> QED BY <1>k, <2>g, <5>1
      <4> QED BY <1>t, <2>g, <4>1, <4>2
    <3> QED BY <3>1, <3>2, <3>3 DEF Ordered
  <2>2. Chained'
    <3> SUFFICES ASSUME NEW c \in Inserted'
                 PROVE  /\ ledger'[c].form.amount # ledger'[c].form.previous
                        /\ ledger'[c].nth = 1 => ledger'[c].form.previous = DraftAmount
                        /\ \A d \in Inserted' : ledger'[d].nth = ledger'[c].nth + 1
                             => ledger'[d].form.previous = ledger'[c].form.amount
      BY DEF Chained
    <3>1. CASE c \in Inserted
      <4>1. /\ ledger'[c].form.amount # ledger'[c].form.previous
            /\ ledger'[c].nth = 1 => ledger'[c].form.previous = DraftAmount
        BY <1>k, <3>1 DEF LedgerInv, Chained
      <4>2. ASSUME NEW d \in Inserted', ledger'[d].nth = ledger'[c].nth + 1
            PROVE  ledger'[d].form.previous = ledger'[c].form.amount
        <5>1. CASE d \in Inserted
          BY <1>k, <3>1, <4>2, <5>1 DEF LedgerInv, Chained
        <5>2. CASE d = n
          <6>1. ledger[c].nth = Count
            BY <1>t, <1>k, <2>n, <3>1, <4>2, <5>2
          <6> QED BY <1>t, <1>k, <2>n, <2>p, <3>1, <5>2, <6>1 DEF Latest
        <5> QED BY <2>g, <5>1, <5>2
      <4> QED BY <4>1, <4>2
    <3>2. CASE c = n
      <4>1. ledger'[c].nth = 1 => Inserted = {}
        BY <1>t, <2>n, <3>2
      <4>2. \A d \in Inserted' : ledger'[d].nth # ledger'[c].nth + 1
        BY <1>t, <1>k, <2>g, <2>n, <3>2
      <4> QED BY <2>n, <2>p, <3>2, <4>1, <4>2
    <3> QED BY <2>g, <3>1, <3>2
  <2>3. LastOpen'
    <3>1. \A c \in Inserted' : ledger'[c].nth < Count' => ledger'[c].settled
      BY <1>t, <1>k, <2>g, <2>n, <2>p
    <3> QED BY <1>r, <3>1 DEF LastOpen
  <2> QED BY <2>1, <2>2, <2>3 DEF LedgerInv
<1>2. CASE ~(New(p, rec) /\ n \in Changes)
  <2>g. Inserted' = Inserted /\ Count' = Count
    BY <1>t, <1>2, Grows
  <2>1. Ordered'
    BY <1>k, <2>g DEF LedgerInv, Ordered
  <2>2. Chained'
    BY <1>k, <2>g DEF LedgerInv, Chained
  <2>3. LastOpen'
    BY <1>r, <1>k, <2>g DEF LedgerInv, LastOpen
  <2> QED BY <2>1, <2>2, <2>3 DEF LedgerInv
<1> QED BY <1>1, <1>2

\* What the processor says now is true.
LEMMA SubSeen ==
  ASSUME TypeOK, LedgerInv, ChargeInv
  PROVE  Seen(sub)
<1>1. sub.period_end \in Nat
  BY DEF TypeOK, Remote
<1>2. ASSUME NEW c \in Changes, Latest(c), sub.amount = ledger[c].form.amount PROVE applied[c] > 0
  BY <1>2 DEF ChargeInv, Charged, LedgerInv, Chained, Latest
<1> QED BY <1>1, <1>2 DEF Seen, Passed

\* What a process reads under the donor lock, stored or fetched, is true.
LEMMA CurrentSeen ==
  ASSUME TypeOK, LedgerInv, ChargeInv, NEW p \in Processes, Reads(p)
  PROVE  Seen(currentSubscription(p))
BY SubSeen DEF currentSubscription, ChargeInv, SnapsTrue

\* Syncs keep the ledger's promises about the processor.
LEMMA SyncsCharge ==
  ASSUME OnceInv, LedgerInv, ChargeInv, NEW p \in Processes,
         NEW rec \in BOOLEAN, NEW done \in BOOLEAN, Syncs(p, rec, done)
  PROVE  Charged' /\ SettledIsDone'
<1> DEFINE r == currentSubscription(p)
           n == cmd[p]
<1>t. /\ TypeOK /\ ClockInv /\ KeysInv /\ Count \in Nat /\ r \in Remote
      /\ Inserted \subseteq Changes /\ Changes \subseteq Commands
  BY CountType, OperatorTypes DEF OnceInv, Inserted, Commands
<1>u. UNCHANGED <<now, sub, keys, applied>>
  BY DEF Syncs, Saves
<1>s. Seen(r)
  BY <1>t, CurrentSeen DEF Syncs, Saves
<1>w. Writes(p, rec, done)
  BY DEF Syncs
<1>c. \A c \in Confirms(r) : c \in Inserted /\ applied[c] > 0
  BY <1>t, <1>s, ConfirmsIs DEF Confirms, Seen, LedgerInv
<1>1. SettledIsDone'
  <2> SUFFICES ASSUME NEW c \in Commands, ledger'[c].settled PROVE InEffect(c)
    BY <1>u DEF SettledIsDone, InEffect, StopsAt
  <2>1. ledger[c].settled \/ c \in Confirms(r) \/ (done /\ c = cmd[p])
    BY <1>w DEF Writes
  <2>2. CASE ledger[c].settled
    BY <2>2 DEF ChargeInv, SettledIsDone
  <2>3. CASE c \in Confirms(r)
    BY <1>t, <1>c, <2>3, CommandsDisjoint DEF InEffect
  <2>4. CASE done /\ c = cmd[p]
    <3>1. c \in Cancels /\ (ledger[c].settled \/ StopsAt(r))
      BY <2>4 DEF Syncs
    <3> QED BY <1>s, <2>2, <3>1 DEF Seen, InEffect
  <2> QED BY <2>1, <2>2, <2>3, <2>4
<1>2. CASE New(p, rec) /\ n \in Changes
  <2>g. Inserted' = Inserted \cup {n} /\ n \notin Inserted /\ Count' = Count + 1
    BY <1>t, <1>2, Grows
  <2>n. ledger'[n].form = form[p] /\ ledger'[n].nth = Count + 1
    BY <1>t, <1>w, <1>2 DEF Writes
  <2>a. applied[n] = 0
    BY <1>t, <1>2 DEF KeysInv, New
  <2>p. /\ \A c \in Inserted : ledger[c].settled \/ c \in Confirms(r)
        /\ Inserted = {} => form[p].previous = DraftAmount
        /\ \A c \in Changes : Latest(c) => form[p].previous = ledger[c].form.amount
    BY <1>t, <1>2, Preceding DEF Syncs
  <2>1. sub.amount = form[p].previous
    <3>1. CASE Inserted = {}
      BY <2>p, <3>1 DEF ChargeInv, Charged
    <3>2. CASE Inserted # {}
      <4>1. PICK c \in Changes : Latest(c)
        BY <1>t, <3>2, LatestIs DEF Latest, LedgerInv
      <4>2. applied[c] > 0
        <5>1. ledger[c].settled \/ c \in Confirms(r)
          BY <2>p, <4>1 DEF Latest
        <5> QED BY <1>t, <1>c, <4>1, <5>1, CommandsDisjoint DEF ChargeInv, SettledIsDone, InEffect
      <4> QED BY <2>p, <4>1, <4>2 DEF ChargeInv, Charged
    <3> QED BY <3>1, <3>2
  <2>2. \A c \in Changes : Latest(c)' => c = n
    <3>1. \A c \in Inserted : ledger'[c].nth = ledger[c].nth /\ ledger[c].nth =< Count /\ ledger[c].nth \in Nat
      BY <1>t, <1>w, <2>g DEF Writes, LedgerInv, Ordered
    <3> QED BY <1>t, <2>g, <3>1 DEF Latest
  <2> HIDE DEF n
  <2> QED BY <1>1, <1>u, <2>g, <2>n, <2>a, <2>1, <2>2 DEF Charged
<1>3. CASE ~(New(p, rec) /\ n \in Changes)
  <2>g. Inserted' = Inserted /\ Count' = Count
    BY <1>t, <1>3, Grows
  <2>1. \A c \in Changes : ledger'[c].form = ledger[c].form /\ ledger'[c].nth = ledger[c].nth
    BY <1>t, <1>w, <1>3 DEF Writes
  <2>2. \A c \in Changes : Latest(c)' => Latest(c)
    BY <2>g, <2>1 DEF Latest
  <2> QED BY <1>1, <1>u, <2>g, <2>1, <2>2 DEF ChargeInv, Charged
<1> QED BY <1>2, <1>3

(***************************************************************************)
(* The processor.                                                          *)
(***************************************************************************)

\* A request whose key is not known runs for the first time.
LEMMA FirstRun ==
  ASSUME OnceInv, NEW q \in wire, ~KeyKnown(q.command)
  PROVE  keys[q.command] = Never /\ applied[q.command] = 0 /\ Recorded(q.command)
<1> DEFINE c == q.command
<1>t. /\ c \in Commands /\ now \in Nat /\ keys[c] \in Nat /\ ledger[c].created \in Nat /\ q.until \in Nat
  BY DEF OnceInv, TypeOK, Entry
<1>1. /\ Recorded(c) /\ now =< q.until
      /\ q.until < ledger[c].created + RetryWindow + SubmitWindow + LateBound
  BY DEF OnceInv, WireInv
<1> HIDE DEF c
<1>2. keys[c] = Never
  <2> SUFFICES ASSUME keys[c] # Never PROVE FALSE
    OBVIOUS
  <2>1. ledger[c].created =< keys[c] /\ now - keys[c] >= KeyMemory
    BY <1>t, WindowTypes DEF OnceInv, KeysInv, KeyKnown, c
  <2> QED BY <1>t, <1>1, <2>1, WindowTypes
<1>3. applied[c] = 0
  BY <1>t, <1>2 DEF OnceInv, KeysInv
<1> QED BY <1>1, <1>2, <1>3 DEF c

\* What the processor's own steps leave true: an end stays, an amount too.
LEMMA RunsEffect ==
  ASSUME StoreInv, NEW q \in wire, ProcessorRuns(q)
  PROVE  /\ UNCHANGED <<now, ledger>>
         /\ sub'.period_end = sub.period_end
         /\ \/ UNCHANGED <<sub, keys, applied>>
            \/ /\ keys[q.command] = Never /\ applied[q.command] = 0 /\ Recorded(q.command)
               /\ q.command \in Commands
               /\ keys' = [keys EXCEPT ![q.command] = now]
               /\ applied' = [applied EXCEPT ![q.command] = 1]
               /\ sub'.status = sub.status
               /\ IF q.command \in Cancels
                  THEN sub'.amount = sub.amount /\ sub'.cancel_at = sub.period_end /\ sub'.cancel_at # Never
                  ELSE sub'.amount = q.form.amount /\ sub'.cancel_at = sub.cancel_at
<1> DEFINE c == q.command
<1>t. /\ OnceInv /\ TypeOK /\ c \in Commands /\ q.form.at \in Nat /\ now \in Nat /\ sub \in Remote
      /\ sub.period_end \in Nat
  BY DEF StoreInv, OnceInv, TypeOK, Form, Remote
<1>0. UNCHANGED <<now, ledger>>
  BY DEF ProcessorRuns, stored
<1>1. CASE UNCHANGED <<sub, keys, applied>>
  BY <1>0, <1>1
<1>2. CASE /\ ~KeyKnown(c) /\ Accepts(q) /\ Announce(Changed(q))
           /\ keys' = [keys EXCEPT ![c] = now]
           /\ applied' = [applied EXCEPT ![c] = @ + 1]
  <2>1. keys[c] = Never /\ applied[c] = 0 /\ Recorded(c)
    BY <1>t, <1>2, FirstRun
  <2>2. applied' = [applied EXCEPT ![c] = 1]
    BY <1>2, <2>1
  <2>3. c \in Cancels => q.form.at = sub.period_end /\ q.form.at # Never
    <3>1. q.form = ledger[c].form /\ Passed(ledger[c].form.at)
      BY <1>t DEF StoreInv, CallInv, FormsSame, TimesPassed
    <3> QED BY <1>t, <1>2, <3>1 DEF Accepts, Passed
  <2>4. CASE c \in Cancels
    <3>1. Changed(q) = [sub EXCEPT !.cancel_at = q.form.at]
      BY <2>4 DEF Changed
    <3>2. /\ sub'.period_end = sub.period_end /\ sub'.status = sub.status
          /\ sub'.amount = sub.amount /\ sub'.cancel_at = q.form.at
      BY <1>t, <1>2, <3>1 DEF Announce, Remote
    <3> QED BY <1>0, <1>t, <1>2, <2>1, <2>2, <2>3, <2>4, <3>2
  <2>5. CASE c \notin Cancels
    <3>1. Changed(q) = [sub EXCEPT !.amount = q.form.amount]
      BY <2>5 DEF Changed
    <3>2. /\ sub'.period_end = sub.period_end /\ sub'.status = sub.status
          /\ sub'.amount = q.form.amount /\ sub'.cancel_at = sub.cancel_at
      BY <1>t, <1>2, <3>1 DEF Announce, Remote
    <3> QED BY <1>0, <1>t, <1>2, <2>1, <2>2, <2>5, <3>2
  <2> QED BY <2>4, <2>5
<1> QED BY <1>1, <1>2 DEF ProcessorRuns

\* A renewal or an update: the amount stays, an end stays, periods only end.
LEMMA MovesEffect ==
  ASSUME StoreInv, ProcessorRenews \/ ProcessorUpdates
  PROVE  /\ UNCHANGED <<now, keys, applied, ledger, wire>>
         /\ sub'.amount = sub.amount /\ sub'.cancel_at = sub.cancel_at
         /\ sub.status # "canceled"
         /\ \/ sub'.period_end = sub.period_end
            \/ /\ sub'.period_end = sub.period_end + Period /\ sub.period_end =< now
               /\ sub.cancel_at = Never
<1>t. sub \in Remote /\ now \in Nat /\ sub.period_end \in Nat
  BY DEF StoreInv, OnceInv, TypeOK, Remote
<1>1. UNCHANGED <<now, keys, applied, ledger, wire>> /\ sub.status # "canceled"
  BY DEF ProcessorRenews, ProcessorUpdates, stored, terminalSubscription
<1>2. CASE ProcessorRenews
  <2>1. CASE sub.cancel_at # Never
    <3>1. sub' = [[sub EXCEPT !.status = "canceled"] EXCEPT !.version = sub.version + 1]
      BY <1>2, <2>1 DEF ProcessorRenews, Announce
    <3> QED BY <1>t, <1>1, <3>1 DEF Remote
  <2>2. CASE sub.cancel_at = Never
    <3>1. sub' = [[sub EXCEPT !.period_end = @ + Period] EXCEPT !.version = sub.version + 1]
      BY <1>2, <2>2 DEF ProcessorRenews, Announce
    <3>2. sub.period_end =< now
      BY <1>2, <1>t DEF ProcessorRenews
    <3> QED BY <1>t, <1>1, <2>2, <3>1, <3>2 DEF Remote
  <2> QED BY <2>1, <2>2
<1>3. CASE ProcessorUpdates
  <2>1. PICK s \in Statuses, x \in BOOLEAN : Announce([sub EXCEPT !.status = s, !.external = x])
    BY <1>3 DEF ProcessorUpdates
  <2>2. sub' = [[sub EXCEPT !.status = s, !.external = x] EXCEPT !.version = sub.version + 1]
    BY <2>1 DEF Announce
  <2> QED BY <1>t, <1>1, <2>2 DEF Remote
<1> QED BY <1>2, <1>3

\* What no step undoes: an end, a run, a period that is over, a record.
LEMMA Lasts ==
  ASSUME StoreInv, [Next]_vars
  PROVE  /\ StopsAt(sub) => StopsAt(sub')
         /\ \A c \in Commands : applied[c] > 0 => applied'[c] > 0
         /\ \A t \in Nat : Passed(t) => Passed(t)'
         /\ \A c \in Commands : Recorded(c) => Recorded(c)' /\ ledger'[c].form = ledger[c].form
<1>t. TypeOK /\ now \in Nat /\ sub.period_end \in Nat /\ ClockInv
  BY DEF StoreInv, OnceInv, TypeOK, Remote
<1>a. applied \in [Commands -> Nat] /\ keys \in [Commands -> Nat]
  BY <1>t DEF TypeOK
<1>1. ASSUME NEW p \in Processes, NEW rec \in BOOLEAN, NEW done \in BOOLEAN, Syncs(p, rec, done)
      PROVE  /\ UNCHANGED <<now, sub, applied>>
             /\ \A c \in Commands : Recorded(c) => Recorded(c)' /\ ledger'[c].form = ledger[c].form
  <2>1. UNCHANGED <<now, sub, applied>>
    BY <1>1 DEF Syncs, Saves
  <2> QED BY <1>1, <2>1 DEF Syncs, Writes, New, Recorded
<1>2. CASE UNCHANGED <<now, sub, keys, applied, ledger>>
  BY <1>2 DEF Passed, Recorded
<1>3. ASSUME NEW q \in wire, ProcessorRuns(q)
      PROVE  /\ StopsAt(sub) => StopsAt(sub')
             /\ \A c \in Commands : applied[c] > 0 => applied'[c] > 0
             /\ UNCHANGED <<now, ledger>> /\ sub'.period_end = sub.period_end
  <2>1. UNCHANGED <<now, ledger>> /\ sub'.period_end = sub.period_end
    BY <1>3, RunsEffect
  <2>2. StopsAt(sub) => StopsAt(sub')
    BY <1>3, RunsEffect DEF StopsAt
  <2>3. \A c \in Commands : applied[c] > 0 => applied'[c] > 0
    BY <1>3, <1>a, RunsEffect
  <2> QED BY <2>1, <2>2, <2>3
<1>4. CASE ProcessorRenews \/ ProcessorUpdates
  <2>1. UNCHANGED <<now, applied, ledger>>
    BY <1>4, MovesEffect
  <2>2. StopsAt(sub) => StopsAt(sub')
    BY <1>4, MovesEffect DEF StopsAt, terminalSubscription
  <2>3. ASSUME NEW t \in Nat, Passed(t) PROVE Passed(t)'
    BY <1>4, <1>t, <2>1, <2>3, MovesEffect, WindowTypes DEF Passed
  <2> QED BY <2>1, <2>2, <2>3 DEF Recorded
<1>5. CASE Tick
  <2>1. UNCHANGED <<sub, applied, ledger>> /\ now' = now + 1
    BY <1>5 DEF Tick, processor, stored
  <2> QED BY <1>t, <2>1 DEF Passed, Recorded
<1>6. ASSUME UNCHANGED now, sub'.period_end = sub.period_end PROVE \A t \in Nat : Passed(t) => Passed(t)'
  BY <1>6 DEF Passed
<1>7. ASSUME UNCHANGED ledger
      PROVE  \A c \in Commands : Recorded(c) => Recorded(c)' /\ ledger'[c].form = ledger[c].form
  BY <1>7 DEF Recorded
<1>8. (\E p \in Processes, rec, done \in BOOLEAN : Syncs(p, rec, done)) =>
         /\ StopsAt(sub) => StopsAt(sub')
         /\ \A c \in Commands : applied[c] > 0 => applied'[c] > 0
         /\ \A t \in Nat : Passed(t) => Passed(t)'
         /\ \A c \in Commands : Recorded(c) => Recorded(c)' /\ ledger'[c].form = ledger[c].form
  BY <1>1, <1>6
<1> QED BY <1>t, <1>2, <1>3, <1>4, <1>5, <1>6, <1>7, <1>8, StepKinds

\* A run of the processor keeps the ledger's promises.
LEMMA RunsCharge ==
  ASSUME StoreInv, NEW q \in wire, ProcessorRuns(q)
  PROVE  Charged' /\ SettledIsDone'
<1> DEFINE c == q.command
<1>t. /\ TypeOK /\ c \in Commands /\ Changes \subseteq Commands /\ Count \in Nat
      /\ Inserted \subseteq Changes /\ applied \in [Commands -> Nat]
  BY CountType DEF StoreInv, OnceInv, TypeOK, Commands, Inserted
<1>u. UNCHANGED <<now, ledger>> /\ Inserted' = Inserted /\ Count' = Count
  BY RunsEffect DEF Inserted, Recorded, Count
<1>l. \A d : Latest(d)' <=> Latest(d)
  BY <1>u DEF Latest
<1>1. CASE UNCHANGED <<sub, keys, applied>>
  BY <1>1, <1>u, <1>l DEF StoreInv, ChargeInv, Charged, SettledIsDone, InEffect
<1>2. CASE ~UNCHANGED <<sub, keys, applied>>
  <2>e. /\ applied[c] = 0 /\ Recorded(c) /\ applied' = [applied EXCEPT ![c] = 1]
        /\ sub'.status = sub.status
        /\ IF c \in Cancels
           THEN sub'.amount = sub.amount /\ sub'.cancel_at # Never
           ELSE sub'.amount = q.form.amount /\ sub'.cancel_at = sub.cancel_at
    BY <1>2, RunsEffect
  <2>f. q.form = ledger[c].form
    BY DEF StoreInv, CallInv, FormsSame
  <2>d. \A d \in Commands : applied'[d] = IF d = c THEN 1 ELSE applied[d]
    BY <1>t, <2>e
  <2> HIDE DEF c
  <2>1. SettledIsDone'
    <3> SUFFICES ASSUME NEW d \in Commands, ledger[d].settled
                 PROVE  IF d \in Cancels THEN StopsAt(sub') ELSE applied'[d] > 0
      BY <1>u DEF SettledIsDone, InEffect
    <3>1. IF d \in Cancels THEN StopsAt(sub) ELSE applied[d] > 0
      BY DEF StoreInv, ChargeInv, SettledIsDone, InEffect
    <3>2. StopsAt(sub) => StopsAt(sub')
      BY <2>e DEF StopsAt
    <3> QED BY <2>d, <3>1, <3>2
  <2>2. CASE c \in Cancels
    <3>1. c \notin Changes /\ sub'.amount = sub.amount
      BY <2>2, <2>e, CommandsDisjoint
    <3> QED BY <1>t, <1>u, <1>l, <2>1, <2>d, <3>1 DEF StoreInv, ChargeInv, Charged
  <2>3. CASE c \notin Cancels
    <3>1. c \in Changes /\ c \in Inserted
      BY <1>t, <2>3, <2>e DEF Commands, Inserted
    <3>2. ~ledger[c].settled
      BY <1>t, <2>3, <2>e DEF StoreInv, ChargeInv, SettledIsDone, InEffect
    <3>3. ledger[c].nth = Count
      <4>1. ledger[c].nth \in 1 .. Count /\ ~(ledger[c].nth < Count)
        BY <3>1, <3>2 DEF StoreInv, LedgerInv, Ordered, LastOpen
      <4> QED BY <1>t, <4>1
    <3>4. \A d \in Changes : Latest(d) => d = c
      BY <3>1, <3>3 DEF StoreInv, LedgerInv, Ordered, Latest
    <3>5. sub'.amount = ledger[c].form.amount /\ applied'[c] > 0 /\ Inserted # {}
      BY <1>t, <2>3, <2>e, <2>f, <2>d, <3>1
    <3> QED BY <1>u, <1>l, <2>1, <3>4, <3>5 DEF Charged
  <2> QED BY <2>2, <2>3
<1> QED BY <1>1, <1>2

\* Every step keeps the ledger in order and its promises about the processor.
LEMMA LedgerStep ==
  ASSUME StoreInv, [Next]_vars
  PROVE  LedgerInv' /\ Charged' /\ SettledIsDone'
<1>t. TypeOK
  BY DEF StoreInv, OnceInv
<1>1. ASSUME NEW p \in Processes, NEW rec \in BOOLEAN, NEW done \in BOOLEAN, Syncs(p, rec, done)
      PROVE  LedgerInv' /\ Charged' /\ SettledIsDone'
  BY <1>1, SyncsLedger, SyncsCharge DEF StoreInv
<1>l. ASSUME UNCHANGED ledger PROVE LedgerInv' /\ Inserted' = Inserted /\ \A c : Latest(c)' <=> Latest(c)
  <2>1. Inserted' = Inserted /\ Count' = Count
    BY <1>l DEF Inserted, Recorded, Count
  <2>2. Ordered' /\ Chained' /\ LastOpen'
    BY <1>l, <2>1 DEF StoreInv, LedgerInv, Ordered, Chained, LastOpen, Recorded
  <2> QED BY <1>l, <2>1, <2>2 DEF LedgerInv, Latest
<1>c. ASSUME UNCHANGED <<ledger, applied>>, sub'.amount = sub.amount, StopsAt(sub) => StopsAt(sub')
      PROVE  LedgerInv' /\ Charged' /\ SettledIsDone'
  <2>1. LedgerInv' /\ Inserted' = Inserted /\ \A c : Latest(c)' <=> Latest(c)
    BY <1>c, <1>l
  <2>2. Charged'
    BY <1>c, <2>1 DEF StoreInv, ChargeInv, Charged
  <2>3. SettledIsDone'
    BY <1>c DEF StoreInv, ChargeInv, SettledIsDone, InEffect
  <2> QED BY <2>1, <2>2, <2>3
<1>2. CASE UNCHANGED <<now, sub, keys, applied, ledger>>
  BY <1>2, <1>c
<1>3. ASSUME NEW q \in wire, ProcessorRuns(q) PROVE LedgerInv' /\ Charged' /\ SettledIsDone'
  <2>1. UNCHANGED ledger
    BY <1>3, RunsEffect
  <2> QED BY <1>3, <2>1, <1>l, RunsCharge
<1>4. CASE ProcessorRenews \/ ProcessorUpdates
  <2>1. UNCHANGED <<ledger, applied>> /\ sub'.amount = sub.amount
    BY <1>4, MovesEffect
  <2> QED BY <1>c, <2>1, Lasts
<1>5. CASE Tick
  BY <1>5, <1>c DEF Tick, processor, stored
<1> QED BY <1>t, <1>1, <1>2, <1>3, <1>4, <1>5, StepKinds

(***************************************************************************)
(* Snapshots.                                                              *)
(***************************************************************************)

\* What is read stays true as long as no change is recorded.
LEMMA SeenLasts ==
  ASSUME StoreInv, [Next]_vars,
         \A c \in Changes : Latest(c)' => Latest(c) /\ ledger'[c].form = ledger[c].form
  PROVE  \A r \in Remote : Seen(r) => Seen(r)'
<1> SUFFICES ASSUME NEW r \in Remote, Seen(r) PROVE Seen(r)'
  OBVIOUS
<1>1. r.period_end \in Nat /\ Changes \subseteq Commands
  BY DEF Remote, Commands
<1>2. ASSUME NEW c \in Changes, Latest(c)', r.amount = ledger'[c].form.amount PROVE applied'[c] > 0
  BY <1>1, <1>2, Lasts DEF Seen
<1>3. StopsAt(r) => StopsAt(sub')
  BY Lasts DEF Seen
<1>4. Passed(r.period_end)'
  BY <1>1, Lasts DEF Seen
<1> QED BY <1>2, <1>3, <1>4 DEF Seen

\* Every step keeps the snapshots true.
LEMMA SnapsStep ==
  ASSUME StoreInv, [Next]_vars
  PROVE  SnapsTrue'
<1>t. /\ TypeOK /\ ClockInv /\ LedgerInv /\ ChargeInv
      /\ sub \in Remote /\ \A p \in Processes : snap[p].remote \in Remote /\ currentSubscription(p) \in Remote
  BY OperatorTypes DEF StoreInv, OnceInv, TypeOK, Snapshot
<1>s. Seen(sub)
  BY <1>t, SubSeen
<1>1. ASSUME NEW p \in Processes, NEW rec \in BOOLEAN, NEW done \in BOOLEAN, Syncs(p, rec, done)
      PROVE  SnapsTrue'
  <2>0. /\ \A q \in Processes \ {p} : ~snap'[q].current
        /\ snap'[p].current => snap'[p].remote = currentSubscription(p) /\ ~rec
        /\ Seen(currentSubscription(p))
    BY <1>1, <1>t, CurrentSeen DEF Syncs, Saves
  <2>1. CASE ~snap'[p].current
    BY <2>0, <2>1 DEF SnapsTrue
  <2>2. CASE snap'[p].current
    <3>1. ~New(p, rec)
      BY <2>0, <2>2 DEF New
    <3>2. Inserted' = Inserted /\ Count' = Count
      BY <1>1, <1>t, <3>1, Grows
    <3>3. \A c \in Commands : ledger'[c].nth = ledger[c].nth /\ ledger'[c].form = ledger[c].form
      BY <1>1, <3>1 DEF Syncs, Writes
    <3>4. \A c \in Changes : Latest(c)' => Latest(c) /\ ledger'[c].form = ledger[c].form
      BY <3>2, <3>3 DEF Latest, Commands
    <3>5. \A r \in Remote : Seen(r) => Seen(r)'
      BY <3>4, SeenLasts
    <3>6. Seen(snap[p].remote)'
      BY <1>t, <2>0, <2>2, <3>5 DEF Seen
    <3> QED BY <2>0, <3>6 DEF SnapsTrue
  <2> QED BY <2>1, <2>2
<1>2. ASSUME UNCHANGED ledger PROVE SnapsTrue'
  <2>1. \A c \in Changes : Latest(c)' => Latest(c) /\ ledger'[c].form = ledger[c].form
    BY <1>2 DEF Latest, Inserted, Count, Recorded
  <2>2. \A r \in Remote : Seen(r) => Seen(r)'
    BY <2>1, SeenLasts
  <2> SUFFICES ASSUME NEW q \in Processes, snap'[q].current, Reads(q)'
               PROVE  Seen(snap[q].remote)'
    BY DEF SnapsTrue
  <2>3. \/ snap'[q] = snap[q] /\ Reads(q)
        \/ snap'[q].remote = sub
        \/ snap'[q].remote = currentSubscription(q) /\ Reads(q)
    <3>1. CASE Keeps
      BY <3>1 DEF Keeps
    <3>2. ASSUME NEW p \in Processes, Saves(p)
          PROVE  snap'[q].remote = currentSubscription(q) /\ Reads(q)
      BY <3>2 DEF Saves
    <3> QED BY <1>t, <3>1, <3>2, SavesOrKeeps
  <2>4. PICK r \in Remote : snap'[q].remote = r /\ Seen(r)
    <3>1. CASE snap'[q] = snap[q] /\ Reads(q)
      BY <1>t, <3>1 DEF ChargeInv, SnapsTrue
    <3>2. CASE snap'[q].remote = sub
      BY <1>t, <1>s, <3>2
    <3>3. CASE snap'[q].remote = currentSubscription(q) /\ Reads(q)
      <4>1. Seen(currentSubscription(q))
        BY <1>t, <3>3, CurrentSeen
      <4> QED BY <1>t, <3>3, <4>1
    <3> QED BY <2>3, <3>1, <3>2, <3>3
  <2> QED BY <2>2, <2>4 DEF Seen
<1>3. ASSUME NEW q \in wire, ProcessorRuns(q) PROVE UNCHANGED ledger
  BY <1>3 DEF ProcessorRuns, stored
<1>4. ASSUME ProcessorRenews \/ ProcessorUpdates \/ Tick PROVE UNCHANGED ledger
  BY <1>4 DEF ProcessorRenews, ProcessorUpdates, Tick, stored
<1> QED BY <1>t, <1>1, <1>2, <1>3, <1>4, StepKinds

(***************************************************************************)
(* Calls to the processor and the lease.                                   *)
(***************************************************************************)

\* If p holds a call after the step, it held it before, on the same terms.
SameCall(p) ==
  Leased(p)' => Leased(p) /\ cmd'[p] = cmd[p] /\ form'[p] = form[p] /\ deadline'[p] = deadline[p]

\* The step leases the subscription to p.
Grants(p) ==
  /\ LeaseSubscription(p) /\ cmd[p] \in Commands
  /\ cmd[p] \in Changes => amountChangeable(currentSubscription(p), form[p].at)
  /\ ledger'[cmd[p]].form = form[p]
  /\ \A q \in Requests \ {p} : SameCall(q)

\* The step leases nothing, and releases at most the lease of a command that is
\* done or whose call ends with the step.
Returns ==
  /\ \A p \in Requests : SameCall(p)
  /\ \/ lease' = lease
     \/ \E c \in Commands :
          /\ lease' = releaseLease(c)
          /\ ledger'[c].settled \/ \E p \in Requests : Leased(p) /\ ~Leased(p)' /\ cmd[p] = c

\* A request sent by the step is that of a leased command.
Sends ==
  \A q \in wire' \ wire : \E p \in Requests :
    Leased(p) /\ q.command = cmd[p] /\ q.form = form[p] /\ q.until = now + LateBound

\* A form filled in by the step names a period end the store knows.
Fills ==
  \A p \in Processes :
    \/ form'[p] = form[p]
    \/ form'[p].at \in {Never, row.period_end}
    \/ \E c \in Commands : form'[p].at = ledger[c].form.at

CallStep == ((\E p \in Requests : Grants(p)) \/ Returns) /\ Sends /\ Fills

\* A step of a request, as far as calls are concerned.
LEMMA RequestCalls ==
  ASSUME TypeOK, NEW p \in Requests, RequestStep(p)
  PROVE  CallStep
<1> USE DEF TypeOK
<1> DEFINE c == cmd[p]
           r == currentSubscription(p)
<1>p. /\ p \in Processes /\ (pc[p] # "idle" => c \in Commands) /\ r \in Remote
      /\ Requests \subseteq Processes
  BY OperatorTypes DEF Processes
<1>e. ASSUME End(p) PROVE (\A q \in Requests : SameCall(q)) /\ Fills /\ ~Leased(p)'
  <2>1. NoForm.at = Never
    BY DEF NoForm
  <2>2. /\ pc'[p] = "idle" /\ form'[p] = NoForm
        /\ \A q \in Processes \ {p} : pc'[q] = pc[q] /\ cmd'[q] = cmd[q] /\ form'[q] = form[q]
                                      /\ deadline'[q] = deadline[q]
    BY <1>e, <1>p DEF End
  <2>3. ~Leased(p)'
    BY <2>2 DEF Leased
  <2> QED BY <1>p, <2>1, <2>2, <2>3 DEF SameCall, Leased, Fills
<1>w. ASSUME UNCHANGED wire PROVE Sends
  BY <1>w DEF Sends
<1>f. ASSUME UNCHANGED form PROVE Fills
  BY <1>f DEF Fills
<1>k. ASSUME UNCHANGED <<cmd, form, deadline>>, pc' = [pc EXCEPT ![p] = pc'[p]], Leased(p)' => Leased(p)
      PROVE  \A q \in Requests : SameCall(q)
  BY <1>k, <1>p DEF SameCall, Leased
<1>1. ASSUME NEW d \in Commands, NEW f \in Forms(d), BeginCommand(p, d, f) PROVE CallStep
  <2>1. f.at = row.period_end \/ f = ledger[d].form
    BY DEF Forms
  <2>2. /\ pc' = [pc EXCEPT ![p] = "fetch"] /\ cmd' = [cmd EXCEPT ![p] = d]
        /\ form' = [form EXCEPT ![p] = f] /\ UNCHANGED <<deadline, lease, wire>>
    BY <1>1 DEF BeginCommand, processor, stored
  <2>3. \A q \in Requests : SameCall(q)
    BY <1>p, <2>2 DEF SameCall, Leased
  <2>4. Fills
    BY <1>p, <2>1, <2>2 DEF Fills
  <2> QED BY <2>2, <2>3, <2>4, <1>w DEF CallStep, Returns
<1>2. ASSUME NEW from, NEW to, FetchSubscription(p, from, to),
             to = "refresh" \/ (from = "fetchResult" /\ to = "complete")
      PROVE  CallStep
  <2>1. UNCHANGED <<cmd, form, deadline, lease, wire>> /\ pc' = [pc EXCEPT ![p] = to]
    BY <1>2 DEF FetchSubscription, processor, stored
  <2>2. Leased(p)' => Leased(p)
    BY <1>2, <1>p, <2>1 DEF FetchSubscription, Leased
  <2> QED BY <1>p, <1>k, <1>w, <1>f, <2>1, <2>2 DEF CallStep, Returns
<1>3. CASE Refresh(p)
  <2>1. UNCHANGED <<cmd, form, deadline, lease, wire>> /\ pc' = [pc EXCEPT ![p] = "prepare"]
    BY <1>3 DEF Refresh, processor
  <2>2. ~Leased(p)'
    BY <1>p, <2>1 DEF Leased
  <2> QED BY <1>p, <1>k, <1>w, <1>f, <2>1, <2>2 DEF CallStep, Returns
<1>s. ASSUME c \in Commands, lease' = releaseLease(c), ledger'[c].settled, End(p), UNCHANGED wire
      PROVE  CallStep
  BY <1>s, <1>e, <1>w DEF CallStep, Returns
<1>4. CASE CancelSettled(p)
  <2>1. c \in Commands /\ lease' = releaseLease(c) /\ End(p) /\ UNCHANGED wire
    BY <1>4, <1>p DEF CancelSettled, processor
  <2>2. Writes(p, TRUE, TRUE)
    BY <1>4, <1>p, <2>1, WritesLedger DEF CancelSettled
  <2>3. ledger'[c].settled
    BY <2>1, <2>2 DEF Writes
  <2> QED BY <2>1, <2>3, <1>s
<1>5. ASSUME CancelLeased(p) \/ ChangeLeased(p) PROVE CallStep
  <2>1. /\ c \in Commands /\ Matches(p) /\ LeaseSubscription(p) /\ UNCHANGED wire
        /\ ledger' = Record(p, reconcileAmount(r))
    BY <1>5, <1>p DEF CancelLeased, ChangeLeased, processor
  <2>2. c \in Changes => amountChangeable(r, form[p].at)
    BY <1>5, CommandsDisjoint DEF CancelLeased, ChangeLeased
  <2>3. Writes(p, TRUE, FALSE)
    BY <1>p, <2>1, WritesLedger
  <2>4. ledger'[c].form = form[p]
    BY <2>1, <2>3 DEF Writes, New, Matches
  <2>5. \A q \in Requests \ {p} : SameCall(q)
    BY <1>p, <2>1 DEF LeaseSubscription, SameCall, Leased
  <2>6. UNCHANGED form
    BY <2>1 DEF LeaseSubscription
  <2> QED BY <2>1, <2>2, <2>4, <2>5, <2>6, <1>w, <1>f DEF CallStep, Grants
<1>6. CASE ChangeConfirmed(p)
  <2>1. c \in Commands /\ lease' = releaseLease(c) /\ End(p) /\ UNCHANGED <<wire, ledger>> /\ ledger[c].settled
    BY <1>6, <1>p DEF ChangeConfirmed, processor
  <2> QED BY <2>1, <1>s
<1>7. CASE ChangeSettled(p)
  <2>1. c \in Commands /\ lease' = releaseLease(c) /\ End(p) /\ UNCHANGED wire /\ ledger'[c].settled
    BY <1>7, <1>p DEF ChangeSettled, processor
  <2> QED BY <2>1, <1>s
<1>8. CASE Mutate(p)
  <2>1. /\ UNCHANGED <<cmd, form, deadline, lease>> /\ pc' = [pc EXCEPT ![p] = "await"] /\ Leased(p)
        /\ wire' = wire \cup {[by |-> p, command |-> c, form |-> form[p], until |-> now + LateBound]}
    BY <1>8 DEF Mutate, stored, Leased
  <2>2. Sends
    BY <2>1 DEF Sends
  <2> QED BY <1>p, <1>k, <1>f, <2>1, <2>2 DEF CallStep, Returns
<1>9. CASE ObserveResult(p)
  <2>1. UNCHANGED <<cmd, form, deadline, lease, wire>> /\ pc' = [pc EXCEPT ![p] = "fetchResult"] /\ Leased(p)
    BY <1>9 DEF ObserveResult, processor, stored, Leased
  <2> QED BY <1>p, <1>k, <1>w, <1>f, <2>1 DEF CallStep, Returns
<1>10. CASE CompleteCancel(p)
  <2>1. c \in Commands /\ lease' = releaseLease(c) /\ End(p) /\ UNCHANGED wire
    BY <1>10, <1>p DEF CompleteCancel, processor
  <2>2. Writes(p, FALSE, TRUE)
    BY <1>10, <1>p, <2>1, WritesLedger DEF CompleteCancel
  <2>3. ledger'[c].settled
    BY <2>1, <2>2 DEF Writes, New
  <2> QED BY <2>1, <2>3, <1>s
<1>11. CASE CompleteChange(p)
  <2>1. c \in Commands /\ lease' = releaseLease(c) /\ End(p) /\ UNCHANGED wire /\ ledger'[c].settled
    BY <1>11, <1>p DEF CompleteChange, processor
  <2> QED BY <2>1, <1>s
<1>12. CASE FailLeased(p)
  <2>1. Leased(p) /\ c \in Commands /\ lease' = releaseLease(c) /\ End(p) /\ UNCHANGED wire
    BY <1>12, <1>p DEF FailLeased, Leased, processor
  <2> QED BY <2>1, <1>e, <1>w DEF CallStep, Returns
<1>13. CASE Stop(p)
  <2>1. End(p) /\ UNCHANGED <<wire, lease>>
    BY <1>13 DEF Stop, processor, stored
  <2> QED BY <2>1, <1>e, <1>w DEF CallStep, Returns
<1> QED BY <1>1, <1>2, <1>3, <1>4, <1>5, <1>6, <1>7, <1>8, <1>9, <1>10, <1>11, <1>12, <1>13,
           RequestStep(p) DEF RequestStep

\* Every step, as far as calls are concerned.
LEMMA CallSteps ==
  ASSUME TypeOK, [Next]_vars
  PROVE  CallStep
<1>1. ASSUME NEW p \in Requests, RequestStep(p) PROVE CallStep
  BY <1>1, RequestCalls
<1>q. ASSUME UNCHANGED lease, wire' \subseteq wire, Fills,
             \A p \in Requests : /\ pc'[p] = pc[p] \/ (pc[p] = "await" /\ pc'[p] = "accepted")
                                 /\ cmd'[p] = cmd[p] /\ form'[p] = form[p] /\ deadline'[p] = deadline[p]
      PROVE  CallStep
  BY <1>q DEF CallStep, Returns, Sends, SameCall, Leased
<1>2. ASSUME NEW w \in Workers, WorkerStep(w) PROVE CallStep
  <2>w. w \in Processes /\ w \notin Requests /\ Requests \subseteq Processes
    BY ProcessesDisjoint DEF Processes
  <2>1. /\ UNCHANGED <<lease, wire>>
        /\ \A p \in Processes \ {w} : pc'[p] = pc[p] /\ cmd'[p] = cmd[p] /\ form'[p] = form[p]
                                      /\ deadline'[p] = deadline[p]
        /\ form'[w] = form[w] \/ form'[w] = NoForm
    BY <1>2, <2>w DEF WorkerStep, BeginEvent, FetchSubscription, ApplyEvent, StopEvent, End,
                      processor, stored, TypeOK
  <2>2. Fills
    BY <2>1 DEF Fills, NoForm
  <2> QED BY <2>1, <2>2, <2>w, <1>q
<1>3. ASSUME NEW q \in wire, ProcessorRuns(q) PROVE CallStep
  <2>1. q.by \in Processes /\ Requests \subseteq Processes
    BY DEF TypeOK, Processes
  <2>2. UNCHANGED <<lease, cmd, form, deadline>> /\ wire' \subseteq wire /\ Reply(q)
    BY <1>3 DEF ProcessorRuns, stored
  <2>3. \A p \in Requests : pc'[p] = pc[p] \/ (pc[p] = "await" /\ pc'[p] = "accepted")
    BY <2>1, <2>2 DEF Reply, TypeOK
  <2>4. Fills
    BY <2>2 DEF Fills
  <2> QED BY <2>2, <2>3, <2>4, <1>q
<1>4. ASSUME (\E q \in wire : ProcessorDrops(q)) \/ ProcessorRenews \/ ProcessorUpdates \/ Tick \/ UNCHANGED vars
      PROVE  CallStep
  <2>1. UNCHANGED <<lease, pc, cmd, form, deadline>> /\ wire' \subseteq wire
    BY <1>4 DEF ProcessorDrops, ProcessorRenews, ProcessorUpdates, Tick, vars, processor, stored, local
  <2>2. Fills
    BY <2>1 DEF Fills
  <2> QED BY <2>1, <2>2, <1>q
<1> QED BY <1>1, <1>2, <1>3, <1>4 DEF Next, ProcessorStep

\* Every step keeps the recorded forms, and their times those of real periods.
LEMMA FormsStep ==
  ASSUME StoreInv, [Next]_vars
  PROVE  FormsSame' /\ TimesPassed'
<1>t. /\ OnceInv /\ TypeOK /\ TypeOK' /\ LedgerInv /\ ChargeInv /\ CallStep
      /\ \A q \in wire : q.command \in Commands
      /\ \A p \in Requests : Leased(p) => cmd[p] \in Commands /\ Recorded(cmd[p])
  BY NextTypeOK, CallSteps DEF StoreInv, OnceInv, TypeOK, LeasedInv, Leased
<1>n. /\ row.period_end \in Nat /\ row'.period_end \in Nat /\ sub.period_end \in Nat /\ now \in Nat
      /\ \A p \in Processes : form[p].at \in Nat /\ form'[p].at \in Nat
      /\ \A c \in Commands : ledger[c].form.at \in Nat
  BY <1>t DEF TypeOK, Remote, Form, Entry
<1>r. \A c \in Commands : Recorded(c) => ledger'[c].form = ledger[c].form
  BY Lasts
<1>f. TimesPassed /\ FormsSame /\ WireInv
  BY DEF StoreInv, CallInv, OnceInv
<1>1. FormsSame'
  <2>1. ASSUME NEW p \in Requests, Leased(p)' PROVE form'[p] = ledger'[cmd'[p]].form
    <3>1. CASE SameCall(p)
      BY <1>t, <1>r, <1>f, <2>1, <3>1 DEF SameCall, FormsSame
    <3>2. CASE Grants(p)
      BY <3>2 DEF Grants, LeaseSubscription
    <3> QED BY <1>t, <3>1, <3>2 DEF CallStep, Grants, Returns
  <2>2. ASSUME NEW q \in wire' PROVE q.form = ledger'[q.command].form
    <3>1. CASE q \in wire
      BY <1>t, <1>r, <1>f, <3>1 DEF FormsSame, WireInv
    <3>2. CASE q \notin wire
      <4>1. PICK p \in Requests : Leased(p) /\ q.command = cmd[p] /\ q.form = form[p]
        BY <1>t, <3>2 DEF CallStep, Sends
      <4> QED BY <1>t, <1>r, <1>f, <4>1 DEF FormsSame
    <3> QED BY <3>1, <3>2
  <2> QED BY <2>1, <2>2 DEF FormsSame
<1>p. \A t \in Nat : Passed(t) => Passed(t)'
  BY Lasts
<1>2. Passed(row.period_end)'
  <2>1. \E t \in Nat : row'.period_end = t /\ Passed(t)
    <3>1. CASE row' = row
      BY <1>n, <1>f, <3>1 DEF TimesPassed
    <3>2. ASSUME NEW p \in Processes, Saves(p) PROVE Passed(row'.period_end)
      BY <1>t, <3>2, CurrentSeen DEF Saves, Seen
    <3> QED BY <1>t, <1>n, <3>1, <3>2, SavesOrKeeps DEF Keeps
  <2> QED BY <1>p, <2>1 DEF Passed
<1>3. ASSUME NEW p \in Processes PROVE Passed(form[p].at)'
  <2>1. \E t \in Nat : form'[p].at = t /\ Passed(t)
    <3>1. Passed(Never)
      BY <1>n DEF Passed
    <3> QED BY <1>t, <1>n, <1>f, <3>1 DEF CallStep, Fills, TimesPassed
  <2> QED BY <1>p, <2>1 DEF Passed
<1>4. ASSUME NEW c \in Commands PROVE Passed(ledger[c].form.at)'
  <2>1. \E t \in Nat : ledger'[c].form.at = t /\ Passed(t)
    <3>1. ledger'[c].form = ledger[c].form \/ \E p \in Processes : ledger'[c].form = form[p]
      <4>1. ASSUME NEW p \in Processes, NEW rec \in BOOLEAN, NEW done \in BOOLEAN, Syncs(p, rec, done)
            PROVE  ledger'[c].form = ledger[c].form \/ ledger'[c].form = form[p]
        BY <4>1 DEF Syncs, Writes
      <4>2. ASSUME \E q \in wire : ProcessorRuns(q) PROVE UNCHANGED ledger
        BY <4>2 DEF ProcessorRuns, stored
      <4>3. ASSUME ProcessorRenews \/ ProcessorUpdates \/ Tick PROVE UNCHANGED ledger
        BY <4>3 DEF ProcessorRenews, ProcessorUpdates, Tick, stored
      <4> QED BY <1>t, <4>1, <4>2, <4>3, StepKinds
    <3> QED BY <1>n, <1>f, <3>1 DEF TimesPassed
  <2> QED BY <1>p, <2>1 DEF Passed
<1>5. sub'.cancel_at \in {Never, sub'.period_end}
  <2>0. sub.cancel_at \in {Never, sub.period_end}
    BY <1>f DEF TimesPassed
  <2>1. ASSUME NEW q \in wire, ProcessorRuns(q) PROVE sub'.cancel_at \in {Never, sub'.period_end}
    BY <2>0, <2>1, RunsEffect
  <2>2. ASSUME ProcessorRenews \/ ProcessorUpdates PROVE sub'.cancel_at \in {Never, sub'.period_end}
    BY <2>0, <2>2, MovesEffect
  <2>3. ASSUME NEW p \in Processes, NEW rec \in BOOLEAN, NEW done \in BOOLEAN, Syncs(p, rec, done)
        PROVE  UNCHANGED sub
    BY <2>3 DEF Syncs, Saves
  <2>4. ASSUME Tick PROVE UNCHANGED sub
    BY <2>4 DEF Tick, processor
  <2> QED BY <1>t, <2>0, <2>1, <2>2, <2>3, <2>4, StepKinds
<1> QED BY <1>1, <1>2, <1>3, <1>4, <1>5 DEF TimesPassed

\* Every step keeps amount changes ahead of their renewal.
LEMMA TimelyStep ==
  ASSUME StoreInv, [Next]_vars
  PROVE  Timely'
<1>t. /\ OnceInv /\ TypeOK /\ CallStep /\ Timely /\ Changes \subseteq Commands
      /\ \A q \in wire : q.command \in Commands /\ q.until \in Nat /\ q.form.at \in Nat
      /\ \A p \in Requests : /\ deadline[p] \in Nat /\ form[p].at \in Nat
                             /\ Leased(p) => cmd[p] \in Commands /\ Recorded(cmd[p]) /\ now =< deadline[p]
      /\ now \in Nat /\ keys \in [Commands -> Nat]
  BY CallSteps DEF StoreInv, OnceInv, CallInv, TypeOK, LeasedInv, Leased, Form, Processes, Commands
<1>1. ASSUME NEW p \in Requests, Leased(p)', cmd'[p] \in Changes
      PROVE  deadline'[p] + LateBound < form'[p].at
  <2>1. CASE SameCall(p)
    BY <1>t, <1>1, <2>1 DEF SameCall, Timely
  <2>2. CASE Grants(p)
    <3>1. /\ deadline'[p] = now + SubmitWindow /\ form'[p] = form[p] /\ cmd'[p] = cmd[p]
      BY <1>t, <2>2 DEF Grants, LeaseSubscription, TypeOK, Processes
    <3>2. now < form[p].at - RenewalMargin
      BY <1>1, <2>2, <3>1 DEF Grants, amountChangeable
    <3> QED BY <1>t, <3>1, <3>2, WindowTypes
  <2> QED BY <1>t, <2>1, <2>2 DEF CallStep, Grants, Returns
<1>2. ASSUME NEW q \in wire', q.command \in Changes PROVE q.until < q.form.at
  <2>1. CASE q \in wire
    BY <1>t, <1>2, <2>1 DEF Timely
  <2>2. CASE q \notin wire
    <3>1. PICK p \in Requests : /\ Leased(p) /\ q.command = cmd[p] /\ q.form = form[p]
                                /\ q.until = now + LateBound
      BY <1>t, <2>2 DEF CallStep, Sends
    <3>2. deadline[p] + LateBound < form[p].at
      BY <1>t, <1>2, <3>1 DEF Timely
    <3> QED BY <1>t, <3>1, <3>2, WindowTypes
  <2> QED BY <2>1, <2>2
<1>3. ASSUME NEW c \in Changes, keys'[c] # Never PROVE keys'[c] < ledger'[c].form.at
  <2>1. CASE keys'[c] = keys[c]
    <3>1. Recorded(c) /\ keys[c] < ledger[c].form.at
      BY <1>t, <1>3, <2>1 DEF OnceInv, KeysInv, Timely
    <3> QED BY <1>t, <2>1, <3>1, Lasts
  <2>2. CASE keys'[c] # keys[c]
    <3>1. PICK q \in wire : ProcessorRuns(q)
      <4>1. ASSUME NEW p \in Processes, NEW rec \in BOOLEAN, NEW done \in BOOLEAN, Syncs(p, rec, done)
            PROVE  UNCHANGED keys
        BY <4>1 DEF Syncs
      <4>2. ASSUME ProcessorRenews \/ ProcessorUpdates \/ Tick PROVE UNCHANGED keys
        BY <4>2 DEF ProcessorRenews, ProcessorUpdates, Tick, processor
      <4> QED BY <1>t, <2>2, <4>1, <4>2, StepKinds
    <3>2. c = q.command /\ keys'[c] = now /\ UNCHANGED ledger
      BY <1>t, <2>2, <3>1, RunsEffect
    <3>3. now =< q.until /\ q.until < q.form.at /\ q.form = ledger[c].form
      BY <1>t, <3>1, <3>2 DEF StoreInv, OnceInv, WireInv, CallInv, FormsSame, Timely
    <3> QED BY <1>t, <3>1, <3>2, <3>3
  <2> QED BY <2>1, <2>2
<1> QED BY <1>1, <1>2, <1>3 DEF Timely

\* Every step keeps the lease with the call that is not in effect yet.
LEMMA HeldStep ==
  ASSUME StoreInv, [Next]_vars
  PROVE  Held'
<1>t. /\ OnceInv /\ TypeOK /\ CallStep /\ Held /\ now \in Nat /\ SettledIsDone'
      /\ \A p \in Requests : /\ deadline[p] \in Nat
                             /\ Leased(p) => cmd[p] \in Commands /\ now =< deadline[p]
      /\ lease.expires \in Nat
  BY CallSteps, LedgerStep DEF StoreInv, OnceInv, CallInv, TypeOK, LeasedInv, Leased, Processes
<1>e. \A c \in Commands : InEffect(c) => InEffect(c)'
  BY Lasts DEF InEffect
<1>1. ASSUME NEW p \in Requests, Grants(p) PROVE Held'
  <2>1. /\ lease' = [command |-> cmd[p], expires |-> now + LeaseTerm] /\ cmd' = cmd
        /\ deadline'[p] = now + SubmitWindow /\ lease.expires =< now
    BY <1>1, <1>t DEF Grants, LeaseSubscription, LeaseFree, AcquireLease, TypeOK, Processes
  <2>2. ASSUME NEW q \in Requests, q # p, Leased(q)' PROVE InEffect(cmd[q])'
    <3>1. Leased(q) /\ cmd'[q] = cmd[q]
      BY <1>1, <2>2 DEF Grants, SameCall
    <3>2. InEffect(cmd[q])
      BY <1>t, <2>1, <3>1 DEF Held
    <3>3. cmd[q] \in Commands
      BY <1>t, <3>1
    <3> QED BY <1>e, <3>1, <3>2, <3>3 DEF InEffect
  <2>3. lease'.command = cmd'[p] /\ deadline'[p] < lease'.expires
    BY <1>t, <2>1, WindowTypes
  <2> QED BY <2>2, <2>3 DEF Held
<1>2. CASE Returns
  <2>k. \A p \in Requests : Leased(p)' => /\ Leased(p) /\ cmd'[p] = cmd[p] /\ deadline'[p] = deadline[p]
                                          /\ cmd[p] \in Commands
    BY <1>t, <1>2 DEF Returns, SameCall
  <2>1. ASSUME NEW p \in Requests, Leased(p)', ~InEffect(cmd[p])'
        PROVE  lease'.command = cmd'[p] /\ deadline'[p] < lease'.expires
    <3>1. /\ Leased(p) /\ cmd'[p] = cmd[p] /\ cmd[p] \in Commands /\ ~InEffect(cmd[p])
      BY <1>e, <2>k, <2>1 DEF InEffect
    <3>2. lease.command = cmd[p] /\ deadline[p] < lease.expires
      BY <1>t, <3>1 DEF Held
    <3>3. lease' = lease
      <4> SUFFICES ASSUME NEW c \in Commands, lease' = releaseLease(c),
                          ledger'[c].settled \/ \E q \in Requests : Leased(q) /\ ~Leased(q)' /\ cmd[q] = c
                   PROVE  c # cmd[p]
        BY <1>2, <3>2 DEF Returns, releaseLease
      <4>1. CASE ledger'[c].settled
        <5>1. InEffect(c)'
          BY <1>t, <4>1 DEF SettledIsDone
        <5> QED BY <2>1, <3>1, <5>1 DEF InEffect
      <4>2. ASSUME NEW q \in Requests, Leased(q), ~Leased(q)', cmd[q] = c PROVE c # cmd[p]
        <5>1. p # q
          BY <2>1, <4>2
        <5>2. InEffect(cmd[p]) \/ InEffect(cmd[q])
          BY <1>t, <3>1, <4>2, <5>1 DEF Held
        <5> QED BY <3>1, <4>2, <5>2
      <4> QED BY <4>1, <4>2
    <3> QED BY <2>1, <2>k, <3>2, <3>3
  <2>2. ASSUME NEW p \in Requests, NEW q \in Requests, Leased(p)', Leased(q)', p # q
        PROVE  InEffect(cmd[p])' \/ InEffect(cmd[q])'
    <3>1. InEffect(cmd[p]) \/ InEffect(cmd[q])
      BY <1>t, <2>k, <2>2 DEF Held
    <3> QED BY <1>e, <2>k, <2>2, <3>1 DEF InEffect
  <2> QED BY <2>1, <2>2 DEF Held
<1> QED BY <1>t, <1>1, <1>2 DEF CallStep

(***************************************************************************)
(* The theorems.                                                           *)
(***************************************************************************)

\* The initial state satisfies the invariant.
LEMMA StoreInit == Init => StoreInv
<1> SUFFICES ASSUME Init PROVE StoreInv
  OBVIOUS
<1>0. TypeOK
  BY InitTypeOK
<1>1. OnceInv
  <2>1. ClockInv /\ KeysInv
    BY DEF Init, ClockInv, KeysInv, NoEntry, Recorded
  <2>2. LeasedInv /\ WireInv
    BY DEF Init, LeasedInv, WireInv, Leased, Processes
  <2> QED BY <1>0, <2>1, <2>2 DEF OnceInv
<1>2. \A c \in Commands : ledger[c] = NoEntry /\ ~ledger[c].settled /\ ~Recorded(c) /\ ledger[c].form.at = 0
  BY DEF Init, NoEntry, NoForm, Recorded
<1>3. Inserted = {} /\ Count = 0
  <2>1. Inserted = {}
    BY <1>2 DEF Inserted, Commands
  <2> QED BY <2>1, FS_EmptySet DEF Count
<1>4. LedgerInv
  BY <1>2, <1>3 DEF LedgerInv, Ordered, Chained, LastOpen
<1>5. /\ sub.amount = DraftAmount /\ sub.cancel_at = Never /\ sub.period_end \in Nat /\ row = sub
      /\ now = 1 /\ \A p \in Processes : form[p].at = 0 /\ pc[p] = "idle" /\ ~snap[p].current
  BY <1>0 DEF Init, NoForm, NoSnap, TypeOK, Remote
<1>6. ChargeInv
  BY <1>2, <1>3, <1>5 DEF ChargeInv, Charged, SettledIsDone, SnapsTrue, Latest
<1>7. FormsSame /\ Held
  BY <1>5 DEF FormsSame, Held, Leased, Processes, Init
<1>8. TimesPassed
  BY <1>2, <1>5 DEF TimesPassed, Passed
<1>9. Timely
  <2>1. \A p \in Requests : ~Leased(p)
    BY <1>5 DEF Leased, Processes
  <2>2. wire = {} /\ \A c \in Changes : keys[c] = Never
    BY DEF Init, Commands
  <2> QED BY <2>1, <2>2 DEF Timely
<1> QED BY <1>1, <1>4, <1>6, <1>7, <1>8, <1>9 DEF StoreInv, CallInv

\* The invariant is inductive.
LEMMA StoreStep == StoreInv /\ [Next]_vars => StoreInv'
<1> SUFFICES ASSUME StoreInv, [Next]_vars PROVE StoreInv'
  OBVIOUS
<1>1. OnceInv'
  BY OnceStep DEF StoreInv
<1> QED BY <1>1, LedgerStep, SnapsStep, FormsStep, TimelyStep, HeldStep DEF StoreInv, ChargeInv, CallInv

\* leaseSubscription serialises the processor calls that matter: of two requests
\* in a call at the same time, at most one asks for a change not yet in effect,
\* through lost answers, crashes, expired leases and retries of either.
THEOREM CallsSerialized == Spec => []OneEffectiveCall
<1>1. StoreInv => OneEffectiveCall
  BY DEF StoreInv, CallInv, Held, OneEffectiveCall, Calling, Leased
<1> QED BY <1>1, StoreInit, StoreStep, PTL DEF Spec

\* What the store reports as done was done: a confirmed change ran at the
\* processor, and a completed cancellation ends the subscription.
THEOREM ReportsTrue == Spec => []SettledIsDone
<1>1. StoreInv => SettledIsDone
  BY DEF StoreInv, ChargeInv
<1> QED BY <1>1, StoreInit, StoreStep, PTL DEF Spec

\* The donor's view of the amount is right: the processor charges the store's
\* next amount, or that of the one change the store still waits for.
THEOREM AmountsTrue == Spec => []AmountAuthorized
<1>1. StoreInv => AmountAuthorized
  <2> SUFFICES ASSUME StoreInv PROVE AmountAuthorized
    OBVIOUS
  <2>t. /\ TypeOK /\ Count \in Nat /\ Inserted \subseteq Changes /\ Changes \subseteq Commands
        /\ ledger \in [Commands -> Entry]
        /\ \A c \in Inserted : ledger[c].nth \in 1 .. Count
        /\ \A c, d \in Inserted : ledger[c].nth = ledger[d].nth => c = d
        /\ \A n \in 1 .. Count : \E c \in Inserted : ledger[c].nth = n
    BY CountType DEF StoreInv, OnceInv, TypeOK, LedgerInv, Ordered, Inserted, Commands
  <2>c. Confirmed(ledger) \subseteq Inserted
    BY DEF Confirmed, StoreInv, LedgerInv, LastOpen, Inserted, Commands
  \* A confirmed change that every confirmed one precedes gives the next amount.
  <2>n. ASSUME NEW c \in Inserted, ledger[c].settled,
               \A d \in Confirmed(ledger) : ledger[d].nth =< ledger[c].nth
        PROVE  nextAmount(ledger) = ledger[c].form.amount
    <3>1. c \in Confirmed(ledger)
      BY <2>t, <2>n DEF Confirmed
    <3>2. \A d \in Confirmed(ledger) : d # c => ledger[d].nth < ledger[c].nth
      BY <2>t, <2>c, <2>n
    <3> QED BY <2>t, <3>1, <3>2, NextAmountIs
  <2>1. CASE Inserted = {}
    <3>1. sub.amount = DraftAmount /\ Confirmed(ledger) = {}
      BY <2>c, <2>1 DEF StoreInv, ChargeInv, Charged
    <3> QED BY <3>1 DEF AmountAuthorized, nextAmount
  <2>2. CASE Inserted # {}
    <3>1. PICK c \in Inserted : ledger[c].nth = Count
      BY <2>t, <2>2, LatestIs DEF Latest, StoreInv, LedgerInv
    <3>2. sub.amount = IF applied[c] > 0 THEN ledger[c].form.amount ELSE ledger[c].form.previous
      BY <2>t, <3>1 DEF Latest, StoreInv, ChargeInv, Charged
    <3>3. CASE applied[c] > 0 /\ ~ledger[c].settled
      BY <3>2, <3>3 DEF AmountAuthorized
    <3>4. CASE applied[c] > 0 /\ ledger[c].settled
      <4>1. nextAmount(ledger) = ledger[c].form.amount
        BY <2>t, <2>c, <2>n, <3>1, <3>4
      <4> QED BY <3>2, <3>4, <4>1 DEF AmountAuthorized
    <3>5. CASE ~(applied[c] > 0)
      <4>1. ~ledger[c].settled
        BY <2>t, <3>5, CommandsDisjoint DEF StoreInv, ChargeInv, SettledIsDone, InEffect
      <4>2. \A d \in Confirmed(ledger) : ledger[d].nth < Count
        BY <2>t, <2>c, <3>1, <4>1 DEF Confirmed
      <4>3. CASE Count = 1
        <5>1. Confirmed(ledger) = {}
          BY <2>t, <2>c, <4>2, <4>3
        <5>2. ledger[c].form.previous = DraftAmount
          BY <3>1, <4>3 DEF StoreInv, LedgerInv, Chained
        <5> QED BY <3>2, <3>5, <5>1, <5>2 DEF AmountAuthorized, nextAmount
      <4>4. CASE Count # 1
        <5>1. Count - 1 \in 1 .. Count
          BY <2>t, <3>1, <4>4
        <5>2. PICK b \in Inserted : ledger[b].nth = Count - 1
          BY <2>t, <5>1
        <5>3. ledger[b].settled
          BY <2>t, <5>2 DEF StoreInv, LedgerInv, LastOpen
        <5>4. nextAmount(ledger) = ledger[b].form.amount
          BY <2>t, <2>c, <2>n, <4>2, <5>2, <5>3
        <5>5. ledger[c].form.previous = ledger[b].form.amount
          BY <2>t, <3>1, <5>2 DEF StoreInv, LedgerInv, Chained
        <5> QED BY <3>2, <3>5, <5>4, <5>5 DEF AmountAuthorized
      <4> QED BY <4>3, <4>4
    <3> QED BY <3>3, <3>4, <3>5
  <2> QED BY <2>1, <2>2
<1> QED BY <1>1, StoreInit, StoreStep, PTL DEF Spec

\* reconcileRemoteSubscription accepts whatever lost, late and repeated requests
\* left at the processor, unless a change ran and its renewal came before any
\* sync saw it.
THEOREM SyncsAccepted == Spec => []ReconcilableUntilRenewal
<1>1. StoreInv => ReconcilableUntilRenewal
  <2> SUFFICES ASSUME StoreInv, ~MissedRenewal PROVE Reconcilable(sub)
    BY DEF ReconcilableUntilRenewal
  <2>t. /\ TypeOK /\ Inserted \subseteq Changes /\ Changes \subseteq Commands /\ KeysInv
        /\ sub.period_end \in Nat
        /\ \A c \in Changes : keys[c] \in Nat /\ ledger[c].form.at \in Nat
    BY DEF StoreInv, OnceInv, TypeOK, Remote, Entry, Form, Inserted, Commands
  <2>1. sub.cancel_at \in {Never, sub.period_end}
    BY DEF StoreInv, CallInv, TimesPassed
  <2>2. AmountReconciles(sub)
    <3>1. CASE Inserted = {}
      BY <3>1 DEF AmountReconciles, StoreInv, ChargeInv, Charged
    <3>2. CASE Inserted # {}
      <4> DEFINE c == LatestAmountChange
      <4>1. Latest(c) /\ c \in Inserted /\ c \in Changes
        BY <2>t, <3>2, LatestIs DEF Latest, StoreInv, LedgerInv
      <4> HIDE DEF c
      <4>2. sub.amount = IF applied[c] > 0 THEN ledger[c].form.amount ELSE ledger[c].form.previous
        BY <4>1 DEF StoreInv, ChargeInv, Charged
      <4>3. CASE applied[c] > 0
        <5>1. keys[c] # Never /\ keys[c] < ledger[c].form.at
          BY <2>t, <4>1, <4>3 DEF KeysInv, StoreInv, CallInv, Timely
        <5>2. ledger[c].form.at =< sub.period_end
          BY <2>t, <4>1 DEF StoreInv, CallInv, TimesPassed, Passed
        <5>3. ledger[c].settled \/ sub.period_end = ledger[c].form.at
          <6> SUFFICES ASSUME ~ledger[c].settled, sub.period_end # ledger[c].form.at PROVE FALSE
            OBVIOUS
          <6>1. keys[c] \in 1 .. ledger[c].form.at - 1 /\ sub.period_end > ledger[c].form.at
            BY <2>t, <4>1, <5>1, <5>2
          <6> QED BY <4>1, <6>1 DEF MissedRenewal, c
        <5> QED BY <3>2, <4>2, <4>3, <5>3 DEF AmountReconciles, c
      <4>4. CASE ~(applied[c] > 0)
        <5>1. ~ledger[c].settled
          BY <2>t, <4>1, <4>4, CommandsDisjoint DEF StoreInv, ChargeInv, SettledIsDone, InEffect
        <5> QED BY <3>2, <4>2, <4>4, <5>1 DEF AmountReconciles, c
      <4> QED BY <4>3, <4>4
    <3> QED BY <3>1, <3>2
  <2> QED BY <2>1, <2>2 DEF Reconcilable
<1> QED BY <1>1, StoreInit, StoreStep, PTL DEF Spec
=============================================================================
