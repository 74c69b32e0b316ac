---------------------------- MODULE ExporterConfig ----------------------------
(***************************************************************************)
(* The exporter configs of a host and the commands of jmp-exporter: a      *)
(* directory with one file per exporter.  Every command reads the file of  *)
(* its alias first; create and the user's editor write it.                 *)
(***************************************************************************)
EXTENDS Naturals

CONSTANTS Alias,            \* names of exporters, without a dot
          MaxCommandCuts    \* bound on interrupted commands

ASSUME CutAssumption == MaxCommandCuts \in Nat

VARIABLES config,      \* each file: "absent", "empty", "broken", "whole"
          verb,        \* the command that runs
          alias,       \* its argument
          doing,       \* what it does next
          served,      \* the exporters that run
          cuts         \* commands interrupted so far

exporterConfigVars == <<config, verb, alias, doing, served, cuts>>

Over == {"done", "refused"}

ConfigInit == /\ config = [a \in Alias |-> "absent"]
              /\ verb = "list" /\ alias \in Alias /\ doing = "done"
              /\ served = {} /\ cuts = 0

Issue(c, a) == /\ doing \in Over
               /\ verb' = c /\ alias' = a
               /\ doing' = IF c = "list" THEN "listing" ELSE "load"
               /\ UNCHANGED <<config, served, cuts>>

Does(step) == doing' = step /\ UNCHANGED <<verb, alias, cuts>>

-----------------------------------------------------------------------------
(* What a command does with what it has found; an empty or broken file      *)
(* raises an error that no command expects.                                 *)
Loaded == CASE config[alias] = "absent" -> IF verb = "create" THEN "open" ELSE "refused"
            [] config[alias] = "whole" -> [create |-> "refused", delete |-> "unlink", edit |-> "edit",
                                           run |-> "serve", shell |-> "serve"][verb]
            [] OTHER -> "refused"

(* Mutant of Load: the file of delete is not read.                          *)
LoadOrDelete == /\ doing = "load"
                /\ Does(IF verb = "delete" THEN "unlink" ELSE Loaded)
                /\ UNCHANGED <<config, served>>

Load == /\ doing = "load"
        /\ Does(Loaded)
        /\ UNCHANGED <<config, served>>

(* One file that cannot be loaded keeps the others from being listed. *)
List == /\ doing = "listing"
        /\ Does(IF \A a \in Alias : config[a] \in {"absent", "whole"} THEN "done" ELSE "refused")
        /\ UNCHANGED <<config, served>>

(* save: opening the file to write empties it. *)
Open == /\ doing = "open"
        /\ config' = [config EXCEPT ![alias] = "empty"]
        /\ Does("fill")
        /\ UNCHANGED served

Fill == /\ doing = "fill"
        /\ config' = [config EXCEPT ![alias] = "whole"]
        /\ Does("done")
        /\ UNCHANGED served

(* The user's editor saves what the user wrote. *)
Edit == /\ doing = "edit"
        /\ \E text \in {"whole", "broken"} : config' = [config EXCEPT ![alias] = text]
        /\ Does("done")
        /\ UNCHANGED served

Unlink == /\ doing = "unlink"
          /\ config' = [config EXCEPT ![alias] = "absent"]
          /\ Does("done")
          /\ UNCHANGED served

(* The exporter runs on with what was loaded, until it is stopped. *)
Serve == /\ doing = "serve"
         /\ served' = served \cup {alias}
         /\ Does("done")
         /\ UNCHANGED config

Stop(a) == /\ a \in served /\ served' = served \ {a}
           /\ UNCHANGED <<config, verb, alias, doing, cuts>>

Cut == /\ doing \notin Over /\ cuts < MaxCommandCuts
       /\ cuts' = cuts + 1 /\ doing' = "refused"
       /\ UNCHANGED <<config, verb, alias, served>>

ConfigNext == \/ \E c \in {"create", "delete", "edit", "list", "run", "shell"}, a \in Alias : Issue(c, a)
              \/ Load \/ List \/ Open \/ Fill \/ Edit \/ Unlink \/ Serve \/ Cut
              \/ \E a \in Alias : Stop(a)
-----------------------------------------------------------------------------
ConfigTypeOK == /\ config \in [Alias -> {"absent", "empty", "broken", "whole"}]
                /\ alias \in Alias /\ served \subseteq Alias

(* A file that cannot be loaded, as an interrupted create or the user's     *)
(* editor leaves one, is not touched by any command but the create that     *)
(* writes it: what the user wrote is not lost, and no command repairs it.   *)
UnreadableIsKept ==
  [][\A a \in Alias : config[a] \in {"empty", "broken"} /\ config'[a] # config[a] =>
       verb = "create" /\ doing = "fill" /\ alias = a]_exporterConfigVars
=============================================================================
