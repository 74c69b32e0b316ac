------------------------------- MODULE Lease -------------------------------
(***************************************************************************)
(* Acquiring and giving back a lease (client/lease.py, LeaseRequest) while *)
(* the controller grants and expires leases on one exporter, and while     *)
(* another process of the same user runs `jmp client lease release --all`  *)
(* (cli/client.py).  The controller is not in this repository: its actions *)
(* are those the conditions it reports allow for.                          *)
(***************************************************************************)
EXTENDS Naturals, Sequences

CONSTANTS Request,     \* the LeaseRequest scopes that are entered
          MaxFaults    \* bound on failed calls

ASSUME FaultAssumption == MaxFaults \in Nat

VARIABLES task,     \* where each scope is
          view,     \* the conditions of its last GetLease reply
          lease,    \* the controller's state of its lease
          sweep,    \* where the release --all command is
          listed,   \* the leases it was told of
          left,     \* those it has not released yet
          faults    \* failed calls so far

clientVars == <<task, view>>
sweepVars == <<sweep, listed, left>>
leaseVars == <<task, view, lease, sweep, listed, left, faults>>

Task == {"idle", "polling", "deciding", "sleeping", "holding", "releasing", "left", "failed"}
LeaseState == {"none", "pending", "ready", "unsatisfiable", "expired", "released"}
SweepState == {"idle", "listed", "done", "failed"}

(* The leases the controller still keeps for someone. *)
Live == {"pending", "ready", "unsatisfiable"}

Condition(type, status) == [type |-> type, status |-> status]

(* What the controller may report of a lease: a lease that is ready or over *)
(* is no longer pending, and it may not have looked at a new one yet.       *)
Conditions(state) ==
  CASE state = "pending"       -> {<<>>, <<Condition("Pending", "True")>>}
    [] state = "ready"         -> {<<Condition("Pending", "False"), Condition("Ready", "True")>>,
                                   <<Condition("Ready", "True")>>}
    [] state = "unsatisfiable" -> {<<Condition("Pending", "True"), Condition("Unsatisfiable", "True")>>,
                                   <<Condition("Pending", "False"), Condition("Unsatisfiable", "True")>>}
    [] OTHER                   -> {<<Condition("Pending", "False"), Condition("Ready", "False")>>}

Report == UNION {Conditions(state) : state \in LeaseState}

(* The first condition of the type decides. *)
PresentAndEqual(conditions, type, status) ==
  \E i \in DOMAIN conditions :
    /\ conditions[i] = Condition(type, status)
    /\ \A j \in 1..i - 1 : conditions[j].type # type

ConditionTrue(conditions, type) == PresentAndEqual(conditions, type, "True")
ConditionFalse(conditions, type) == PresentAndEqual(conditions, type, "False")

LeaseTypeOK == /\ task \in [Request -> Task]
               /\ view \in [Request -> Report]
               /\ lease \in [Request -> LeaseState]
               /\ sweep \in SweepState
               /\ listed \in SUBSET Request
               /\ left \in SUBSET listed
               /\ faults \in 0..MaxFaults

LeaseInit == /\ task = [r \in Request |-> "idle"]
             /\ view = [r \in Request |-> <<>>]
             /\ lease = [r \in Request |-> "none"]
             /\ sweep = "idle"
             /\ listed = {}
             /\ left = {}
             /\ faults = 0

Fault == faults < MaxFaults /\ faults' = faults + 1

Move(r, from, to) == task[r] = from /\ task' = [task EXCEPT ![r] = to]

-----------------------------------------------------------------------------
(* __aenter__ *)
RequestLease(r) == /\ Move(r, "idle", "polling")
                   /\ lease' = [lease EXCEPT ![r] = "pending"]
                   /\ UNCHANGED <<view, sweepVars, faults>>

(* The answer is lost, whether or not the lease was created. *)
RequestFails(r) == /\ Fault
                   /\ Move(r, "idle", "failed")
                   /\ \E state \in {"none", "pending"} : lease' = [lease EXCEPT ![r] = state]
                   /\ UNCHANGED <<view, sweepVars>>

GetLease(r) == /\ Move(r, "polling", "deciding")
               /\ \E report \in Conditions(lease[r]) : view' = [view EXCEPT ![r] = report]
               /\ UNCHANGED <<lease, sweepVars, faults>>

(* Mutant of Unsatisfiable: a lease that is not pending is refused first. *)
UnsatisfiableFirst(r) == /\ \/ ConditionTrue(view[r], "Unsatisfiable")
                            \/ ConditionFalse(view[r], "Pending")
                         /\ Move(r, "deciding", "failed")
                         /\ UNCHANGED <<view, lease, sweepVars, faults>>

(* Mutant of Acquire: a lease is taken unless the controller refuses it. *)
AcquireUnlessRefused(r) == /\ ~ConditionTrue(view[r], "Unsatisfiable")
                           /\ Move(r, "deciding", "holding")
                           /\ UNCHANGED <<view, lease, sweepVars, faults>>

(* Ready is looked at first: a ready lease is no longer pending. *)
Acquire(r) == /\ ConditionTrue(view[r], "Ready")
              /\ Move(r, "deciding", "holding")
              /\ UNCHANGED <<view, lease, sweepVars, faults>>

Unsatisfiable(r) == /\ ~ConditionTrue(view[r], "Ready")
                    /\ \/ ConditionTrue(view[r], "Unsatisfiable")
                       \/ ConditionFalse(view[r], "Pending")
                    /\ Move(r, "deciding", "failed")
                    /\ UNCHANGED <<view, lease, sweepVars, faults>>

StillPending(r) == /\ ~ConditionTrue(view[r], "Ready")
                   /\ ~ConditionTrue(view[r], "Unsatisfiable")
                   /\ ~ConditionFalse(view[r], "Pending")
                   /\ Move(r, "deciding", "sleeping")
                   /\ UNCHANGED <<view, lease, sweepVars, faults>>

PollAgain(r) == /\ Move(r, "sleeping", "polling")
                /\ UNCHANGED <<view, lease, sweepVars, faults>>

(* Mutant of StopWaiting: there is no time limit. *)
NeverStopWaiting(r) == task[r] = "none" /\ UNCHANGED leaseVars

(* fail_after, a failed GetLease, or the user's interrupt: the exception    *)
(* leaves __aenter__, so __aexit__ does not run.                            *)
StopWaiting(r) == /\ Move(r, "polling", "failed") \/ Move(r, "sleeping", "failed")
                  /\ UNCHANGED <<view, lease, sweepVars, faults>>

(* __aexit__, however the body ended *)
Leave(r) == /\ Move(r, "holding", "releasing")
            /\ UNCHANGED <<view, lease, sweepVars, faults>>

Freed(state) == IF state \in Live THEN "released" ELSE state

(* Mutant of Release: the scope is left without the call. *)
ReleaseForgotten(r) == /\ Move(r, "releasing", "left")
                       /\ UNCHANGED <<view, lease, sweepVars, faults>>

Release(r) == /\ Move(r, "releasing", "left")
              /\ lease' = [lease EXCEPT ![r] = Freed(@)]
              /\ UNCHANGED <<view, sweepVars, faults>>

(* The call fails before the controller has acted on it. *)
ReleaseFails(r) == /\ Fault
                   /\ Move(r, "releasing", "failed")
                   /\ UNCHANGED <<view, lease, sweepVars>>

-----------------------------------------------------------------------------
(* The controller. *)
Grant(r) == /\ lease[r] = "pending"
            /\ \A q \in Request : lease[q] # "ready"
            /\ lease' = [lease EXCEPT ![r] = "ready"]
            /\ UNCHANGED <<clientVars, sweepVars, faults>>

Refuse(r) == /\ lease[r] = "pending"
             /\ lease' = [lease EXCEPT ![r] = "unsatisfiable"]
             /\ UNCHANGED <<clientVars, sweepVars, faults>>

Expire(r) == /\ lease[r] = "ready"
             /\ lease' = [lease EXCEPT ![r] = "expired"]
             /\ UNCHANGED <<clientVars, sweepVars, faults>>

-----------------------------------------------------------------------------
(* release --all: the leases are listed, then released one by one. *)
ListLeases == /\ sweep = "idle"
              /\ sweep' = "listed"
              /\ listed' = {r \in Request : lease[r] \in Live}
              /\ left' = listed'
              /\ UNCHANGED <<clientVars, lease, faults>>

ReleaseListed(r) == /\ sweep = "listed"
                    /\ r \in left
                    /\ left' = left \ {r}
                    /\ lease' = [lease EXCEPT ![r] = Freed(@)]
                    /\ UNCHANGED <<clientVars, sweep, listed, faults>>

(* The controller refuses, because the lease is over already or for any     *)
(* other reason: the loop is left with the rest unreleased.                 *)
ReleaseListedFails(r) == /\ sweep = "listed"
                         /\ r \in left
                         /\ \/ lease[r] \notin Live /\ UNCHANGED faults
                            \/ Fault
                         /\ sweep' = "failed"
                         /\ UNCHANGED <<clientVars, lease, listed, left>>

(* Mutant of SweepDone: the command ends after the first release. *)
SweepDoneEarly == /\ sweep = "listed"
                  /\ left # listed
                  /\ sweep' = "done"
                  /\ UNCHANGED <<clientVars, lease, listed, left, faults>>

SweepDone == /\ sweep = "listed"
             /\ left = {}
             /\ sweep' = "done"
             /\ UNCHANGED <<clientVars, lease, listed, left, faults>>

ClientStep(r) == \/ GetLease(r) \/ Acquire(r) \/ Unsatisfiable(r) \/ StillPending(r)
                 \/ PollAgain(r) \/ StopWaiting(r) \/ Release(r)

LeaseNext == \/ \E r \in Request : \/ ClientStep(r) \/ RequestLease(r) \/ RequestFails(r)
                                   \/ Leave(r) \/ ReleaseFails(r)
                                   \/ Grant(r) \/ Refuse(r) \/ Expire(r)
                                   \/ ReleaseListed(r) \/ ReleaseListedFails(r)
             \/ ListLeases
             \/ SweepDone

LeaseSpec == LeaseInit /\ [][LeaseNext]_leaseVars

(* A scope's task runs, and its time limit fires if it waits for ever.      *)
LeaseFairness == \A r \in Request : WF_leaseVars(ClientStep(r)) /\ SF_leaseVars(StopWaiting(r))

LeaseFairSpec == LeaseSpec /\ LeaseFairness
-----------------------------------------------------------------------------
(* A client that holds a lease has one that was granted to it, and at most  *)
(* one of them has not run out: the others go on unaware (Lease never asks  *)
(* the controller again).                                                   *)
HolderWasGranted ==
  /\ \A r \in Request : task[r] = "holding" => lease[r] \in {"ready", "expired", "released"}
  /\ \A r, q \in Request :
       task[r] = "holding" /\ task[q] = "holding" /\ r # q => ~(lease[r] = "ready" /\ lease[q] = "ready")

(* A scope that ended without an exception left nothing behind. *)
CleanExit == \A r \in Request : task[r] = "left" => lease[r] \notin Live

(* A scope that sees its lease granted takes it: it never fails on a reply  *)
(* that says ready, whatever else the reply says.                           *)
ReadyIsTaken ==
  [][\A r \in Request :
       task[r] = "deciding" /\ task'[r] = "failed" =>
         \A i \in DOMAIN view[r] : view[r][i] # Condition("Ready", "True")]_leaseVars

(* A release --all that succeeds leaves none of the listed leases alive. *)
SweepComplete == sweep = "done" => \A r \in listed : lease[r] \notin Live

(* Every wait for a lease ends, granted or not (fail_after(300)). *)
WaitEnds == \A r \in Request : task[r] = "polling" ~> task[r] \in {"holding", "failed", "left"}
=============================================================================
