---------------------------- MODULE MCTaskTable ----------------------------
(* TaskTable with four boot tasks: the second never runs (its TID is the    *)
(* sentinel when SCAN = 2), the first and third may return.                 *)
EXTENDS TaskTable

CONSTANTS task_idle0, task_idle1, task_idle2, task_idle3

MCBootFuncs == <<task_idle0, task_idle1, task_idle2, task_idle3>>
MCMayReturn == {task_idle0, task_idle1, task_idle2}
=============================================================================
