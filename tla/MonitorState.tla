---------------------------- MODULE MonitorState ----------------------------
(***************************************************************************)
(* The fields of an ObjectMonitor and what the straight-line parts of      *)
(* ObjectMonitor::enter and ObjectMonitor::exit do to them.  The           *)
(* condition variable is not here: who sleeps and who wakes belongs to the *)
(* modules that own the threads (ObjectMonitor, SyncBlock).                *)
(***************************************************************************)
EXTENDS Integers

CONSTANT NoThread   \* the default-constructed std::thread::id

\* A monitor as `new ObjectMonitor()` leaves it.
FreshMonitor == [cnt |-> 0, owner |-> NoThread, entered |-> FALSE]

\* enter: the monitor is free, whoever asks.
Free(m) == m.cnt = 0

\* Mutant of OwnedBy: any recorded owner will do.
OwnedByAnyone(m, t) == m.owner # NoThread

\* enter: the caller is the recorded owner (only asked when not Free).
OwnedBy(m, t) == m.owner = t

\* Mutant of Taken: entered is not set.
TakenUnmarked(m, t) == [cnt |-> 1, owner |-> t, entered |-> m.entered]

\* enter, free branch: count one, remember the owner.
Taken(m, t) == [cnt |-> 1, owner |-> t, entered |-> TRUE]

\* Mutant of Retaken: re-entry is not counted.
RetakenUncounted(m) == [cnt |-> m.cnt, owner |-> m.owner, entered |-> TRUE]

\* enter, owner branch: count one more.
Retaken(m) == [cnt |-> m.cnt + 1, owner |-> m.owner, entered |-> TRUE]

\* enter, wait branch, once the predicate monitorCnt == 0 held: neither the
\* count nor the owner is written.
Admitted(m) == [m EXCEPT !.entered = TRUE]

\* Mutant of Left: the count stops at zero.
LeftAtLeastZero(m) == [m EXCEPT !.cnt = IF @ > 0 THEN @ - 1 ELSE 0]

\* exit: one less, whoever calls.
Left(m) == [m EXCEPT !.cnt = @ - 1]

\* Mutant of Notifies: tested before the decrement.
NotifiesTooLate(m) == m.cnt = 0

\* exit: does it call notify_one?  m is the monitor before the decrement.
Notifies(m) == m.cnt - 1 = 0
=============================================================================
