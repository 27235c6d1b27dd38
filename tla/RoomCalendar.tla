---------------------------- MODULE RoomCalendar ----------------------------
(***************************************************************************)
(* What the booking system promises about rooms: a calendar in which a     *)
(* booking holds one room from one day to another, or nothing, and in      *)
(* which no two bookings hold a room for the same night.  Nothing is said  *)
(* of requests, reads, statuses, mails or failures.                        *)
(***************************************************************************)
EXTENDS Integers

CONSTANTS
  Slots,    \* the bookings
  Rooms,
  Days,
  None      \* a booking that holds nothing

Stay == [room : Rooms, from : Days, to : Days]

VARIABLE calendar   \* the stay each booking holds

Clash(s, t) == s.room = t.room /\ s.from < t.to /\ t.from < s.to

FreeFor(b, s) ==
  \A c \in Slots \ {b} : calendar[c] # None => ~Clash(s, calendar[c])

Init == calendar = [b \in Slots |-> None]

\* A booking takes a stay, its first or another one, only where it is free.
Reserve(b, s) ==
  /\ FreeFor(b, s)
  /\ calendar' = [calendar EXCEPT ![b] = s]

Release(b) == calendar' = [calendar EXCEPT ![b] = None]

Next == \E b \in Slots : Release(b) \/ \E s \in Stay : Reserve(b, s)

Spec == Init /\ [][Next]_calendar

TypeOK == calendar \in [Slots -> Stay \cup {None}]

\* No two bookings hold the same room for the same night.
Exclusive ==
  \A b, c \in Slots :
    b # c /\ calendar[b] # None /\ calendar[c] # None =>
      ~Clash(calendar[b], calendar[c])

=============================================================================
