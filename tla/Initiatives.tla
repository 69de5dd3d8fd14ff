---------------------------- MODULE Initiatives ----------------------------
(***************************************************************************)
(* Initiatives, their figures and the daily rotation                       *)
(* (internal/store/initiatives.go, initiative_staff.go,                    *)
(* initiative_read.go, and LinkInitiative of partner_application.go).      *)
(*                                                                         *)
(* Staff edit drafts and publish them; two members of staff may work on    *)
(* one initiative at once, because a staff write locks its actor's account *)
(* and not what it edits. Statements of one transaction that others may    *)
(* come between are separate steps. A figure is named by its version.      *)
(***************************************************************************)
EXTENDS Integers, FiniteSets, FiniteSetsExt, Functions, SequencesExt

CONSTANTS
  Initiatives, Order,      \* and the order of their start
  Partners, Approved,      \* organizations, and those that are partners
  Positions, Categories,
  Staff, Readers,          \* requests in flight
  Donors, Offset,          \* donors, and the hash of each
  MaxVersions, MaxDay      \* bounds: edits of a figure, days

InitiativesAssumption ==
  /\ Order \in [1 .. Cardinality(Initiatives) -> Initiatives] /\ IsInjective(Order)
  /\ Approved \subseteq Partners /\ Offset \in [Donors -> Nat] /\ {MaxVersions, MaxDay} \subseteq Nat

VARIABLES
  day,
  ini,       \* donor_initiatives
  cofunder,  \* donor_initiative_partners
  metric,    \* donor_initiative_metrics
  draft, spend,  \* donor_initiative_spend_drafts, donor_initiative_spend
  saved,     \* the figure last saved for a category, 0 once deleted
  told,      \* donor_partner_messages, by key: a metric's position, or the completion
  shown,     \* what each donor was shown each day
  since,     \* the day the rotation last changed
  req

vars == <<day, ini, cofunder, metric, draft, spend, saved, told, shown, since, req>>

NoInitiative == [state |-> "none", approval |-> FALSE, status |-> "ACTIVE", rotates |-> TRUE]
NoFigure == [version |-> 0, verified |-> FALSE]
NoMetric == [version |-> 0, verified |-> FALSE, state |-> "none"]
Idle == [pc |-> "idle", i |-> "none", at |-> "none", sum |-> 0, figure |-> NoFigure]
Rows == Initiatives \X Categories
Edits == <<ini, cofunder, since>>
Figures == <<metric, draft, spend, saved>>

(***************************************************************************)
(* Initiatives. The input is valid and cites a stored approval or none.    *)
(* PublishSpend holds its initiative: a write of that row waits, and so    *)
(* does a new row that refers to it, but not an edit of a row that exists. *)
(***************************************************************************)
LockInitiative(i) == \A r \in Staff : req[r].pc = "spend" => req[r].i # i
requireApprovedPartner(p) == p = "none" \/ p \in Approved
(* The trigger on the primary partner adds a co-funder and removes none. *)
SyncPrimaryPartner(i, p) == IF p = "none" THEN cofunder ELSE cofunder \cup {<<i, p>>}
RotatableInitiatives(table) == {i \in Initiatives : table[i].state = "PUBLISHED" /\ table[i].status = "ACTIVE" /\ table[i].rotates}
Changed(table) == since' = IF RotatableInitiatives(table) = RotatableInitiatives(ini) THEN since ELSE day
queueInitiativePartners(i, kind) == told \cup {<<kind, i, p>> : p \in {q \in Partners : <<i, q>> \in cofunder'}}

InsertInitiative(i, approval, status) == ini' = [ini EXCEPT ![i] = [@ EXCEPT !.state = "DRAFT", !.approval = approval, !.status = status]]
Create(i, approval, status, p) ==
  /\ ini[i] = NoInitiative /\ requireApprovedPartner(p)
  /\ InsertInitiative(i, approval, status)
  /\ cofunder' = SyncPrimaryPartner(i, p)
  /\ UNCHANGED <<day, Figures, told, shown, since, req>>
ApprovalKept(i, approval) == ini[i].state = "PUBLISHED" /\ ini[i].approval => approval
UpdateInitiative(i, approval, status) == ini' = [ini EXCEPT ![i].approval = approval, ![i].status = status]
Update(i, approval, status, p) ==
  /\ ini[i] # NoInitiative /\ LockInitiative(i) /\ requireApprovedPartner(p) /\ ApprovalKept(i, approval)
  /\ UpdateInitiative(i, approval, status)
  /\ cofunder' = SyncPrimaryPartner(i, p)
  /\ told' = IF ini[i].status # "COMPLETE" /\ status = "COMPLETE" THEN queueInitiativePartners(i, "INITIATIVE_COMPLETE") ELSE told
  /\ Changed(ini')
  /\ UNCHANGED <<day, Figures, shown, req>>
PublishInitiative(i) == ini' = [ini EXCEPT ![i].state = "PUBLISHED"]
Publish(i) ==
  /\ ini[i] # NoInitiative /\ LockInitiative(i) /\ ini[i].approval
  /\ PublishInitiative(i)
  /\ Changed(ini')
  /\ UNCHANGED <<day, cofunder, Figures, told, shown, req>>
SetInitiativeRotation(i, rotates) == ini[i] # NoInitiative /\ ini' = [ini EXCEPT ![i].rotates = rotates]
SetRotation(i, rotates) ==
  /\ LockInitiative(i) /\ SetInitiativeRotation(i, rotates)
  /\ Changed(ini')
  /\ UNCHANGED <<day, cofunder, Figures, told, shown, req>>
LinkInitiativeToPartner(i, p) == ini[i] # NoInitiative /\ cofunder' = cofunder \cup {<<i, p>>}
LinkInitiative(i, p) ==
  /\ p \in Approved /\ LockInitiative(i) /\ LinkInitiativeToPartner(i, p)
  /\ UNCHANGED <<day, ini, Figures, told, shown, since, req>>

(***************************************************************************)
(* Headline metrics. Publishing reads the metric, and then writes it.      *)
(***************************************************************************)
(* An edited metric is a draft again. *)
UpsertInitiativeMetric(x, verified) == metric' = [metric EXCEPT ![x] = [version |-> @.version + 1, verified |-> verified, state |-> "DRAFT"]]
DeleteInitiativeMetric(x) == metric' = [metric EXCEPT ![x] = [NoMetric EXCEPT !.version = metric[x].version]]
SetMetric(i, at, verified) ==
  /\ ini[i] # NoInitiative /\ metric[<<i, at>>].version < MaxVersions /\ (metric[<<i, at>>].state # "none" \/ LockInitiative(i))
  /\ UpsertInitiativeMetric(<<i, at>>, verified)
  /\ UNCHANGED <<day, Edits, draft, spend, saved, told, shown, req>>
DeleteMetric(i, at) ==
  /\ metric[<<i, at>>].state # "none"
  /\ DeleteInitiativeMetric(<<i, at>>)
  /\ UNCHANGED <<day, Edits, draft, spend, saved, told, shown, req>>
Publishable(i, at) == metric[<<i, at>>].state # "none" /\ metric[<<i, at>>].verified
InitiativeMetrics(r, i, at) ==
  /\ req[r] = Idle /\ Publishable(i, at)
  /\ req' = [req EXCEPT ![r] = [Idle EXCEPT !.pc = "metric", !.i = i, !.at = at]]
  /\ UNCHANGED <<day, Edits, Figures, told, shown>>
CheckedAbove(i, at) == metric[<<i, at>>].state # "none"  \* mutant
(* The table refuses a published metric that is not verified. *)
PublishInitiativeMetric(i, at) == metric[<<i, at>>].state # "none" /\ metric[<<i, at>>].verified
PublishMetric(r) ==
  LET i == req[r].i
      at == req[r].at
  IN /\ req[r].pc = "metric"
     /\ IF PublishInitiativeMetric(i, at)
        THEN metric' = [metric EXCEPT ![<<i, at>>].state = "PUBLISHED"]
        ELSE UNCHANGED metric
     /\ UNCHANGED <<day, Edits, draft, spend, saved, shown>>
     /\ told' = IF metric[<<i, at>>].state = "none" \/ PublishInitiativeMetric(i, at)
                THEN queueInitiativePartners(i, at) ELSE told
     /\ req' = [req EXCEPT ![r] = Idle]

(***************************************************************************)
(* Spend by category.                                                      *)
(***************************************************************************)
SaveSpendDraft(x, figure) == draft' = [draft EXCEPT ![x] = figure]
DeleteSpendDraft(x) == draft' = [draft EXCEPT ![x] = NoFigure]
DeleteInitiativeSpend(x) == spend' = [spend EXCEPT ![x] = NoFigure]
SetSpend(i, c, verified) ==
  /\ ini[i] # NoInitiative /\ saved[<<i, c>>] < MaxVersions /\ (draft[<<i, c>>] # NoFigure \/ LockInitiative(i))
  /\ SaveSpendDraft(<<i, c>>, [version |-> saved[<<i, c>>] + 1, verified |-> verified])
  /\ saved' = [saved EXCEPT ![<<i, c>>] = @ + 1]
  /\ UNCHANGED <<day, Edits, metric, spend, told, shown, req>>
DeleteSpend(i, c) ==
  /\ (draft[<<i, c>>] # NoFigure \/ spend[<<i, c>>] # NoFigure) /\ (spend[<<i, c>>] = NoFigure \/ LockInitiative(i))
  /\ DeleteSpendDraft(<<i, c>>) /\ DeleteInitiativeSpend(<<i, c>>)
  /\ saved' = [saved EXCEPT ![<<i, c>>] = 0]
  /\ UNCHANGED <<day, Edits, metric, told, shown, req>>
Verified(i, c) == draft[<<i, c>>] # NoFigure /\ draft[<<i, c>>].verified
PublishSpendDraft(r, i, c) ==
  /\ req[r] = Idle /\ Verified(i, c) /\ LockInitiative(i)
  /\ req' = [req EXCEPT ![r] = [Idle EXCEPT !.pc = "spend", !.i = i, !.at = c, !.figure = draft[<<i, c>>]]]
  /\ UNCHANGED <<day, Edits, Figures, told, shown>>
PublishSpend(r) ==
  LET row == <<req[r].i, req[r].at>>
  IN /\ req[r].pc = "spend"
     /\ spend' = [spend EXCEPT ![row] = req[r].figure]
     /\ DeleteSpendDraft(row)
     /\ req' = [req EXCEPT ![r] = Idle]
     /\ UNCHANGED <<day, Edits, metric, saved, told, shown>>

(***************************************************************************)
(* What donors and visitors read.                                          *)
(***************************************************************************)
Total(i) == FoldSet(LAMBDA c, sum : sum + spend[<<i, c>>].version, 0, Categories)
Spend(r, i) ==
  /\ req[r] = Idle /\ ini[i].state = "PUBLISHED"
  /\ req' = [req EXCEPT ![r] = [Idle EXCEPT !.pc = "read", !.i = i, !.sum = Total(i)]]
  /\ UNCHANGED <<day, Edits, Figures, told, shown>>
(* The categories and the total are two statements. *)
InitiativeSpendTotal(r) ==
  /\ req[r].pc = "read"
  /\ req' = [req EXCEPT ![r] = [@ EXCEPT !.pc = "answered", !.at = IF Total(req[r].i) = req[r].sum THEN "same" ELSE "other"]]
  /\ UNCHANGED <<day, Edits, Figures, told, shown>>

rotationIndex(offset, d, n) == ((offset % n) + (d % n)) % n
Actives == SelectSeq(Order, LAMBDA i : i \in RotatableInitiatives(ini))
RecordInitiativeExposure(d, i) == shown' = [shown EXCEPT ![d][day] = i]
Today(d) ==
  /\ RotatableInitiatives(ini) # {} /\ shown[d][day] = "none"
  /\ RecordInitiativeExposure(d, Actives[rotationIndex(Offset[d], day, Len(Actives)) + 1])
  /\ UNCHANGED <<day, Edits, Figures, told, req>>
NextDay == day < MaxDay /\ day' = day + 1 /\ UNCHANGED <<Edits, Figures, told, shown, req>>

Init ==
  /\ day = 0 /\ since = 0 /\ told = {} /\ cofunder = {}
  /\ ini = [i \in Initiatives |-> NoInitiative] /\ metric = [x \in Initiatives \X Positions |-> NoMetric]
  /\ draft = [x \in Rows |-> NoFigure] /\ spend = [x \in Rows |-> NoFigure] /\ saved = [x \in Rows |-> 0]
  /\ shown = [d \in Donors |-> [n \in 0 .. MaxDay |-> "none"]]
  /\ req = [r \in Staff \cup Readers |-> Idle]

Editing ==
  \/ \E i \in Initiatives, approval, verified \in BOOLEAN, status \in {"ACTIVE", "COMPLETE"}, p \in Partners \cup {"none"} :
       Create(i, approval, status, p) \/ Update(i, approval, status, p) \/ SetRotation(i, verified)
  \/ \E i \in Initiatives : Publish(i) \/ \E p \in Partners : LinkInitiative(i, p)
Measuring ==
  \/ \E i \in Initiatives, at \in Positions : DeleteMetric(i, at) \/ (\E verified \in BOOLEAN : SetMetric(i, at, verified))
       \/ \E r \in Staff : InitiativeMetrics(r, i, at)
  \/ \E r \in Staff : PublishMetric(r)
Spending ==
  \/ \E i \in Initiatives, c \in Categories : DeleteSpend(i, c) \/ (\E verified \in BOOLEAN : SetSpend(i, c, verified))
       \/ \E r \in Staff : PublishSpendDraft(r, i, c)
  \/ \E r \in Staff : PublishSpend(r)
Reading ==
  \/ \E r \in Readers : InitiativeSpendTotal(r) \/ \E i \in Initiatives : Spend(r, i)
Rotating == NextDay \/ \E d \in Donors : Today(d)

FigureSpec == Init /\ [][Editing \/ Measuring \/ Spending]_vars
ReadSpec == Init /\ [][Editing \/ Spending \/ Reading]_vars
RotationSpec == Init /\ [][Editing \/ Rotating]_vars

(***************************************************************************)
(* Properties.                                                             *)
(***************************************************************************)

(* The records have their types, and what is published is approved by the  *)
(* board, also after any number of edits (Update, Publish).                *)
TypeOK ==
  /\ cofunder \subseteq Initiatives \X Approved
  /\ \A i \in Initiatives : ini[i].state \in {"none", "DRAFT", "PUBLISHED"} /\ ini[i].status \in {"ACTIVE", "COMPLETE"}
  /\ \A i \in Initiatives : ini[i].state = "PUBLISHED" => ini[i].approval

(* A published metric is verified, also when it was edited between the     *)
(* check and the publication (PublishMetric), and so is published spend.   *)
PublishedVerified ==
  /\ \A x \in DOMAIN metric : metric[x].state = "PUBLISHED" => metric[x].verified
  /\ \A x \in Rows : spend[x] # NoFigure => spend[x].verified

(* Over any n consecutive days a donor sees each of the n initiatives in   *)
(* rotation once, while the rotation does not change (rotationIndex).      *)
EachSeenOnce ==
  LET n == Cardinality(RotatableInitiatives(ini))
  IN \A d \in Donors : \A j, k \in since + 1 .. day :
       j < k /\ k - j < n /\ shown[d][j] # "none" /\ shown[d][k] # "none" => shown[d][j] # shown[d][k]

(* The spend that was last saved for a category is its draft or what is    *)
(* published: an edit lasts until it is published or deleted (SetSpend,    *)
(* PublishSpend).                                                          *)
SavedSpendStays == \A x \in Rows : saved[x] \in {0, draft[x].version, spend[x].version}

(* The total a reader is shown is the sum of the categories shown with it  *)
(* (InitiativeReader.Spend).                                               *)
TotalIsTheSum == \A r \in Readers : req[r].at # "other"
=============================================================================
