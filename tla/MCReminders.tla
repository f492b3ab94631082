---------------------------- MODULE MCReminders ----------------------------
(* Values of the constants of Reminders for the runs.                      *)
EXTENDS Reminders

Row(i, u, on, before_days, start, end) ==
  [id |-> i, user |-> u,
   set |-> [expiry_reminder_enabled |-> on, reminder_days_before |-> before_days,
            quiet_hours_start |-> start, quiet_hours_end |-> end]]

(* The second user has chosen nothing yet, or is not told during the hours *)
(* around midnight.                                                        *)
SomePrefs == {{Row(1, 1, TRUE, 1, None, None)},
              {Row(1, 1, TRUE, 0, 1, 0), Row(2, 2, TRUE, 1, 2, 1)}}

SomeClocks == {[day |-> 0, hour |-> 0]}

SomeUpdates == {[expiry_reminder_enabled |-> FALSE],
                [expiry_reminder_enabled |-> TRUE, quiet_hours_start |-> 0, quiet_hours_end |-> 1]}
=============================================================================
