--------------------------- MODULE MCScheduleSweep ---------------------------
(* ScheduleSweep on small instances, for TLC: a day of four minutes.         *)
EXTENDS ScheduleSweep

W(s, e) == [start_minute |-> s, end_minute |-> e]
Row(w, i, c) == [window |-> w, interval |-> i, include_cached |-> c]

MCBase == Row(W(1, 3), 2, FALSE)

\* A window that no longer parses
MCStored == {Row(W(2, 2), NULL, NULL)}

\* A window over midnight with the cache and a longer interval; until 24:00 and
\* the interval cleared; disabled; refused for one of two keys
MCPatch == {Row(W(3, 1), 3, TRUE), Row(W(2, 4), NULL, KEEP),
            Row(BLANK, KEEP, KEEP), Row(W(4, 1), 1, KEEP)}

MCInstalled == {{1}, {2}}
=============================================================================
