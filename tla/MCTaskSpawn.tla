---------------------------- MODULE MCTaskSpawn ----------------------------
(* TaskSpawn with one boot task and room for two more.                      *)
EXTENDS TaskSpawn

CONSTANTS task_idle0, task_idle1

MCBootFuncs == <<task_idle0, task_idle1>>
=============================================================================
