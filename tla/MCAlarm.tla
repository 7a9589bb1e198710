------------------------------- MODULE MCAlarm -------------------------------
\* Alarm for programs that set timers and programs that sleep.
EXTENDS Alarm

\* Alarms that go off once, set by the program; ticks come in every place.
Once == [times |-> {0, 3, 6, 8}, intervals |-> {0}, naps |-> {}, handlers |-> TRUE,
         setters |-> {"main"}, switicks |-> TRUE, others |-> FALSE, maxcalls |-> 4, maxslept |-> 0]

\* The handler sets them as well.
Rearming == [Once EXCEPT !.times = {0, 3, 6}, !.setters = {"main", "handler"}, !.switicks = FALSE]

\* Interval timers, set by both.
Periodic == [Once EXCEPT !.times = {0, 3, 6}, !.intervals = {0, 2}, !.setters = {"main", "handler"},
                       !.maxcalls = 3]

\* Sleeps of whole seconds or less than one, by a program without alarms.
Sleeping == [Once EXCEPT !.times = {}, !.naps = {1, 2, 3, 6}, !.maxslept = 8]

\* Sleeps that other signals interrupt.
Woken == [Sleeping EXCEPT !.naps = {1, 2}, !.others = TRUE, !.maxslept = 4]

\* Sleeps of a second and a part of one, for which ualarm makes up an alarm.
Odd == [Sleeping EXCEPT !.naps = {1, 4, 5}, !.maxslept = 6, !.maxcalls = 2]

\* Sleeps, and alarms and interval timers of the program's own.
Mixed == [Periodic EXCEPT !.times = {0, 2, 6}, !.naps = {1, 4}, !.others = TRUE,
                          !.setters = {"main"}, !.switicks = FALSE, !.maxslept = 4]

MCPrograms == {Once, Rearming, Periodic, Sleeping, Woken, Odd, Mixed}
=============================================================================
