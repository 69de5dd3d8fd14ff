------------------------------- MODULE Events -------------------------------
(***************************************************************************)
(* One event: its seats and waitlist, the staff who edit, publish and      *)
(* cancel it, the notices it queues, and the fan-out that tells nearby     *)
(* volunteers of it (internal/store/events.go, event_staff.go,             *)
(* event_alert_fanout.go, db/events.sql).                                  *)
(*                                                                         *)
(* Every decision about seats is made in one transaction that holds the    *)
(* event's row lock, and is one action here. Erasing an account is two:    *)
(* releaseEventPlaces reads the donor's places before it locks the event,  *)
(* so a step of another donor can fall between. A notice is the key its    *)
(* row is deduplicated by. Staff audit rows are not modelled: nothing      *)
(* reads them back.                                                        *)
(***************************************************************************)
EXTENDS Integers, FiniteSets, FiniteSetsExt

CONSTANTS
  Donors,       \* donor ids, in the order the fan-out walks them
  Bookers,      \* donors who use reservations
  Invited,      \* donors staff may put on the guest list
  Erased,       \* donors who may delete their account
  Movers,       \* donors whose profile may start or stop matching the event
  Captains,     \* donors with the Team Captain perk
  Qualified,    \* donors holding the perk of an INVITE_ONLY event
  Inputs,       \* what staff may enter for the event
  Windows,      \* reminderWindows: the lead time of each label
  EarlyLead,    \* earlyBookingLead
  CheckInLead,  \* how long before the start staff may check a donor in
  Batch,        \* EventAlertBatch
  MaxTime, MaxTickets  \* bounds: the clock, and bookings made

EventsAssumption ==
  /\ Donors \subseteq Nat /\ IsFiniteSet(Donors)
  /\ {EarlyLead, CheckInLead, Batch, MaxTime, MaxTickets} \subseteq Nat /\ Batch > 0
  /\ Bookers \cup Invited \cup Erased \cup Movers \cup Captains \cup Qualified \subseteq Donors

VARIABLES
  clock,
  ev,       \* the donor_events row
  guests,   \* donor_event_guests
  res,      \* donor_event_reservations, one row per donor
  ticket,   \* the last reserved_at given out: bookings are timed under the lock
  told,     \* keys of the queued pushes and messages
  badged,   \* donors with the Showed Up badge
  erasing,  \* donors being erased, with the place read before the lock
  leaked,   \* an erasure gave up a seat it had read as a waitlist place
  near,     \* volunteers in the event's city who want nearby alerts
  job,      \* donor_event_alert_jobs
  steady    \* donors the fan-out owes an alert: they matched it throughout

booking == <<guests, res, ticket, badged>>
vars == <<clock, ev, booking, told, erasing, leaked, near, job, steady>>

(***************************************************************************)
(* Data.                                                                   *)
(***************************************************************************)
NoEvent == [state |-> "NONE", cancelled |-> FALSE, type |-> "COMMUNITY", perk |-> FALSE,
            starts |-> 0, ends |-> 0, cap |-> 0, opens |-> 0]
NoPlace == [status |-> "NONE", at |-> 0, in |-> FALSE]
NoJob == [state |-> "NONE", last |-> -1]

Holding(status) == {d \in Donors : res[d].status = status}
Live == Holding("RESERVED") \cup Holding("WAITLISTED")

(* EventInput.validate: opens = 0 is no opening time, cap = 0 no capacity. *)
validate(in) == /\ in.cap >= 0 /\ in.ends > in.starts
                /\ in.opens = 0 \/ in.opens < in.starts
                /\ in.perk => in.type = "INVITE_ONLY"

InsertEvent(in) == [in EXCEPT !.state = "DRAFT"]
UpdateEvent(e, in) == [in EXCEPT !.state = e.state, !.cancelled = e.cancelled]
PublishEvent(e) == [e EXCEPT !.state = "PUBLISHED"]
CancelEvent(e) == [e EXCEPT !.cancelled = TRUE]

SetReservationStatus(rows, d, status) == [rows EXCEPT ![d].status = status]
UpsertReservation(rows, d, status, at) == [rows EXCEPT ![d].status = status, ![d].at = at]
PromoteReservation(rows, d) == [rows EXCEPT ![d].status = "RESERVED"]
ReservedCount(rows) == Cardinality({d \in Donors : rows[d].status = "RESERVED"})
ReservationFor(d) == res[d]
DonorVolunteerStats(rows, d) == IF rows[d].in THEN 1 ELSE 0

IsEventGuest(d) == d \in guests

canSeeInviteOnly(d) == (ev.perk /\ d \in Qualified) \/ IsEventGuest(d)

bookingOpen(d) == \/ ev.opens = 0 \/ clock >= ev.opens
                  \/ clock >= ev.opens - EarlyLead /\ d \in Captains

Unlimited == 0 - 1
spotsLeft(cap, rows) ==
  IF cap = 0 THEN Unlimited ELSE Max({0, cap - ReservedCount(rows)})

(***************************************************************************)
(* The read side: who is shown the event.                                  *)
(***************************************************************************)
DetailForDonor(d) == /\ ev.state = "PUBLISHED"
                     /\ ev.type = "INVITE_ONLY" => canSeeInviteOnly(d)
UpcomingInviteOnlyEvents ==
  ev.state = "PUBLISHED" /\ ~ev.cancelled /\ ev.type = "INVITE_ONLY" /\ ev.starts > clock
InviteOnlyEvents(d) ==
  UpcomingInviteOnlyEvents /\ ((ev.perk /\ d \in Qualified) \/ IsEventGuest(d))

(***************************************************************************)
(* Filling seats.                                                          *)
(***************************************************************************)
WaitlistHead(rows) ==
  CHOOSE d \in Donors : /\ rows[d].status = "WAITLISTED"
                        /\ \A o \in Donors : rows[o].status = "WAITLISTED" => rows[d].at <= rows[o].at

promotion(d, row) == {<<"push:event-promoted", d, row.at>>, <<"message:event-promoted", d, row.at>>}

(* fillSeats, promoteWaitlistHead: promote the head until the event is     *)
(* full or nobody waits.                                                   *)
fillSeats(cap, rows, keys) ==
  LET waiting == {d \in Donors : rows[d].status = "WAITLISTED"}
      rounds  == IF cap = 0 THEN Cardinality(waiting)
                 ELSE Min({Cardinality(waiting), spotsLeft(cap, rows)})
      fill[n \in Nat] ==
        IF n = 0 THEN <<rows, keys>>
        ELSE LET prev == fill[n - 1]
                 head == WaitlistHead(prev[1])
             IN  <<PromoteReservation(prev[1], head),
                   prev[2] \cup promotion(head, prev[1][head])>>
  IN  fill[rounds]

Filled(cap, rows) == LET f == fillSeats(cap, rows, told) IN res' = f[1] /\ told' = f[2]

(***************************************************************************)
(* Staff.                                                                  *)
(***************************************************************************)
Create(in) == /\ ev.state = "NONE" /\ validate(in)
              /\ ev' = InsertEvent(in)
              /\ UNCHANGED <<clock, booking, told, erasing, leaked, near, job>>

Update(in) == /\ ev.state # "NONE" /\ validate(in) /\ ~ev.cancelled
              /\ ev' = UpdateEvent(ev, in)
              /\ IF clock < in.starts THEN Filled(in.cap, res) ELSE UNCHANGED <<res, told>>
              /\ UNCHANGED <<clock, guests, ticket, badged, erasing, leaked, near, job>>

QueueEventAlertJob ==
  IF job.state = "NONE" /\ ev.type # "INVITE_ONLY" /\ ev.starts > clock
  THEN [state |-> "OPEN", last |-> -1] ELSE job

Publish == /\ ev.state # "NONE" /\ ~ev.cancelled
           /\ ev' = PublishEvent(ev)
           /\ job' = QueueEventAlertJob
           /\ UNCHANGED <<clock, booking, told, erasing, leaked, near>>

AddGuest(d) == /\ ev.state # "NONE" /\ guests' = guests \cup {d}
               /\ UNCHANGED <<clock, ev, res, ticket, badged, told, erasing, leaked, near, job>>
RemoveGuest(d) == /\ guests' = guests \ {d}
                  /\ UNCHANGED <<clock, ev, res, ticket, badged, told, erasing, leaked, near, job>>

awardBadges(rows, d) == IF DonorVolunteerStats(rows, d) >= 1 THEN badged \cup {d} ELSE badged

CheckInReservation(d) ==
  /\ ReservationFor(d).status = "RESERVED" /\ ~ReservationFor(d).in
  /\ res' = [res EXCEPT ![d].in = TRUE]
  /\ badged' = awardBadges(res', d)

CheckInAttendee(d) == /\ ev.state = "PUBLISHED" /\ ~ev.cancelled
                      /\ clock \in ev.starts - CheckInLead .. ev.ends
                      /\ CheckInReservation(d)
                      /\ UNCHANGED <<clock, ev, guests, ticket, told, erasing, leaked, near, job>>

ReleaseEventReservations(rows) ==
  [d \in Donors |-> IF d \in Live THEN [rows[d] EXCEPT !.status = "CANCELLED"] ELSE rows[d]]

CancelAll == /\ ev.state # "NONE" /\ ~ev.cancelled /\ clock <= ev.ends
             /\ ev' = CancelEvent(ev)
             /\ res' = ReleaseEventReservations(res)
             /\ told' = told \cup ({"push:event-cancelled", "message:event-cancelled"} \X Live)
             /\ UNCHANGED <<clock, guests, ticket, badged, erasing, leaked, near, job>>

(***************************************************************************)
(* Donors. A donor being erased is locked, so none of these runs for it.   *)
(***************************************************************************)
Unlocked(d) == erasing[d] = "NO"

OneTooMany ==  \* mutant
  IF ev.cap > 0 /\ Cardinality(Holding("RESERVED")) > ev.cap THEN "WAITLISTED" ELSE "RESERVED"

SeatOrWaitlist == IF spotsLeft(ev.cap, res) = 0 THEN "WAITLISTED" ELSE "RESERVED"

Reserve(d) == /\ Unlocked(d) /\ ev.state = "PUBLISHED" /\ ~ev.cancelled /\ clock < ev.starts
              /\ ev.type = "INVITE_ONLY" => canSeeInviteOnly(d)
              /\ bookingOpen(d)
              /\ d \notin Live /\ ticket < MaxTickets
              /\ ticket' = ticket + 1
              /\ res' = UpsertReservation(res, d, SeatOrWaitlist, ticket + 1)
              /\ UNCHANGED <<clock, ev, guests, badged, told, erasing, leaked, near, job>>

Cancel(d) == /\ Unlocked(d) /\ ev.state # "NONE" /\ clock < ev.starts /\ d \in Live
             /\ LET rows == SetReservationStatus(res, d, "CANCELLED")
                IN  IF res[d].status = "RESERVED" THEN Filled(ev.cap, rows)
                    ELSE res' = rows /\ told' = told
             /\ UNCHANGED <<clock, ev, guests, ticket, badged, erasing, leaked, near, job>>

CheckIn(d) == /\ Unlocked(d) /\ ev.state = "PUBLISHED" /\ ~ev.cancelled
              /\ clock \in ev.starts .. ev.ends
              /\ CheckInReservation(d)
              /\ UNCHANGED <<clock, ev, guests, ticket, told, erasing, leaked, near, job>>

(* DeleteAccount: releaseEventPlaces reads the place, then locks the event *)
(* and gives the place up by the status it read.                           *)
DonorUpcomingReservations(d) == IF d \in Live /\ ev.starts > clock THEN res[d].status ELSE "ERASED"

ReadPlaces(d) ==
  /\ Unlocked(d)
  /\ erasing' = [erasing EXCEPT ![d] = DonorUpcomingReservations(d)]
  /\ near' = near \ {d}
  /\ UNCHANGED <<clock, ev, booking, told, leaked, job>>

ReleasePlaces(d) ==
  /\ erasing[d] \in {"RESERVED", "WAITLISTED"}
  /\ LET rows == SetReservationStatus(res, d, "CANCELLED")
     IN  IF erasing[d] = "RESERVED" THEN Filled(ev.cap, rows) ELSE res' = rows /\ told' = told
  /\ erasing' = [erasing EXCEPT ![d] = "ERASED"]
  /\ leaked' = (leaked \/ (erasing[d] = "WAITLISTED" /\ res[d].status = "RESERVED"))
  /\ UNCHANGED <<clock, ev, guests, ticket, badged, near, job>>

(* The profile or the preferences of a donor change, or the event's city. *)
Move(d) == /\ Unlocked(d) /\ near' = IF d \in near THEN near \ {d} ELSE near \cup {d}
           /\ UNCHANGED <<clock, ev, booking, told, erasing, leaked, job>>

(***************************************************************************)
(* The projections worker.                                                 *)
(***************************************************************************)
QueueEventReminders(w) ==
  IF ev.state = "PUBLISHED" /\ ev.starts > clock /\ ev.starts <= clock + Windows[w]
  THEN {<<"push:event-reminder", d, w>> : d \in Holding("RESERVED")} ELSE {}

QueueDueReminders == /\ told' = told \cup UNION {QueueEventReminders(w) : w \in DOMAIN Windows}
                     /\ told' # told
                     /\ UNCHANGED <<clock, ev, booking, erasing, leaked, near, job>>

Alertable == /\ ev.state = "PUBLISHED" /\ ~ev.cancelled
             /\ ev.type # "INVITE_ONLY" /\ ev.starts > clock

(* The next Batch recipients after the cursor. *)
QueueEventAlertBatch ==
  LET after == {d \in near : Alertable /\ d > job.last}
  IN  {d \in after : Cardinality({o \in after : o < d}) < Batch}

SaveEventAlertProgress(batch) ==
  [state |-> IF Cardinality(batch) < Batch THEN "DONE" ELSE "OPEN",
   last  |-> IF batch = {} THEN job.last ELSE Max(batch)]

NextEventAlertJob == job.state = "OPEN"

QueueNext == /\ NextEventAlertJob
             /\ told' = told \cup ({"push:event-nearby"} \X QueueEventAlertBatch)
             /\ job' = SaveEventAlertProgress(QueueEventAlertBatch)
             /\ UNCHANGED <<clock, ev, booking, erasing, leaked, near>>

Tick == /\ clock < MaxTime /\ clock' = clock + 1
        /\ UNCHANGED <<ev, booking, told, erasing, leaked, near, job>>

(***************************************************************************)
(* The specification.                                                      *)
(***************************************************************************)
Init == /\ clock = 0 /\ ev = NoEvent /\ guests = {} /\ ticket = 0 /\ told = {} /\ badged = {}
        /\ res = [d \in Donors |-> NoPlace] /\ erasing = [d \in Donors |-> "NO"]
        /\ leaked = FALSE /\ near \in SUBSET Movers /\ job = NoJob /\ steady = {}

Staff == \/ \E in \in Inputs : Create(in) \/ Update(in)
         \/ Publish \/ CancelAll
         \/ \E d \in Invited : AddGuest(d) \/ RemoveGuest(d)
         \/ \E d \in Bookers : CheckInAttendee(d)

Donor == \/ \E d \in Bookers : Reserve(d) \/ Cancel(d) \/ CheckIn(d)
         \/ \E d \in Erased : ReadPlaces(d) \/ ReleasePlaces(d)
         \/ \E d \in Movers : Move(d)

Worker == QueueDueReminders \/ QueueNext

(* The fan-out owes an alert to the donors who match from its start on. *)
Owed == IF ~Alertable' THEN {} ELSE IF job.state = "NONE" THEN near' ELSE steady \cap near'

Next == (Staff \/ Donor \/ Worker \/ Tick) /\ steady' = Owed

Spec == Init /\ [][Next]_vars /\ WF_vars(QueueNext /\ steady' = Owed)

(***************************************************************************)
(* Properties.                                                             *)
(***************************************************************************)
TypeOK ==
  /\ clock \in 0 .. MaxTime /\ ticket \in 0 .. MaxTickets /\ leaked \in BOOLEAN
  /\ ev.state \in {"NONE", "DRAFT", "PUBLISHED"} /\ ev.cancelled \in BOOLEAN
  /\ guests \cup badged \cup near \cup steady \subseteq Donors
  /\ res \in [Donors -> [status : {"NONE", "RESERVED", "WAITLISTED", "CANCELLED"},
                         at : 0 .. MaxTickets, in : BOOLEAN]]
  /\ erasing \in [Donors -> {"NO", "RESERVED", "WAITLISTED", "ERASED"}]
  /\ job.state \in {"NONE", "OPEN", "DONE"}
  /\ ev.state = "NONE" => Live = {} /\ job = NoJob

(* The donors a step gives a seat, and those it moves up from the waitlist. *)
Seated == {d \in Donors : res'[d].status = "RESERVED" /\ res[d].status # "RESERVED"}
Promoted == {d \in Seated : res[d].status = "WAITLISTED"}

(* Before an event starts, nobody waits while a seat is shown as left: a   *)
(* cancellation, a raised capacity and an erased account all move the      *)
(* waitlist up (events.go fillSeats). The one exception is the seat of an  *)
(* account that was promoted while it was being erased.                    *)
NoIdleSeat == clock < ev.starts /\ Holding("WAITLISTED") # {} => leaked \/ spotsLeft(ev.cap, res) = 0

(* The same without the exception, which is what DeleteAccount says of it: *)
(* "It gives up the donor's places at upcoming events, so the waitlist     *)
(* moves up."                                                              *)
EverySeatUsed == clock < ev.starts /\ Holding("WAITLISTED") # {} => spotsLeft(ev.cap, res) = 0

(* A cancelled event has no live place left, whatever donors and staff did *)
(* before or after: the reminder query relies on it, it does not look at   *)
(* cancelled_at.                                                           *)
CancelledIsEmpty == ev.cancelled => Live = {}

(* Whoever was checked in held a seat: CheckIn "requires ... the donor to  *)
(* hold a seat, not a waitlist place". Volunteer hours and badges count    *)
(* checked-in rows whatever their status is now.                           *)
AttendedHeldSeat ==
  \A d \in Donors : DonorVolunteerStats(res, d) > 0 => res[d].status = "RESERVED"

(* The two codings of the invite-only gate agree: the list a donor is      *)
(* shown and the page of one event (InviteOnlyEvents, DetailForDonor).     *)
GatesAgree == UpcomingInviteOnlyEvents => \A d \in Donors : InviteOnlyEvents(d) <=> DetailForDonor(d)

(* A finished fan-out told every volunteer who matched the event from its  *)
(* publication on, in batches walked by donor id while profiles change.    *)
AlertsReachAll == job.state = "DONE" => \A d \in steady : <<"push:event-nearby", d>> \in told

(* No step gives out a seat beyond the capacity, a lowered one included,   *)
(* and seats go to whoever waits longest.                                  *)
SeatsWithinCapacity ==
  Seated # {} /\ ev'.cap > 0 => Cardinality({d \in Donors : res'[d].status = "RESERVED"}) <= ev'.cap
FirstComeFirstServed ==
  \A d \in Seated, w \in Donors :
    res'[w].status = "WAITLISTED" => leaked \/ (d \in Promoted /\ res[d].at < res[w].at)

(* Every promotion queues a notice of its own, a donor's second one too    *)
(* (promoteWaitlistHead keys it by the waitlist place).                    *)
PromotionIsTold ==
  \A d \in Promoted : \E k \in told' \ told : k[1] = "push:event-promoted" /\ k[2] = d

(* Nothing is queued about an event once it has been cancelled. *)
SilentOnceCancelled == ev.cancelled => told' = told
=============================================================================
