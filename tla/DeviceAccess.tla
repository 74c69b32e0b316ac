---------------------------- MODULE DeviceAccess ----------------------------
(***************************************************************************)
(* What the exporter promises about its hardware: users get the devices    *)
(* one at a time, each in one session with a beginning and an end, and no  *)
(* user gets a second session ("only one session can exist at one time",   *)
(* docs/source/introduction/service.md).                                   *)
(***************************************************************************)
CONSTANT Users

VARIABLES open,     \* the users whose session is open
          served    \* the users that have had a session

accessVars == <<open, served>>

AccessInit == open = {} /\ served = {}

Begin(u) == /\ open = {}
            /\ u \notin served
            /\ open' = {u}
            /\ served' = served \cup {u}

End(u) == /\ open = {u}
          /\ open' = {}
          /\ UNCHANGED served

AccessNext == \E u \in Users : Begin(u) \/ End(u)

AccessSpec == AccessInit /\ [][AccessNext]_accessVars
=============================================================================
