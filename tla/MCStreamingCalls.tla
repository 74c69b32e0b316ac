--------------------------- MODULE MCStreamingCalls ---------------------------
EXTENDS StreamingCalls

CONSTANTS c1, c2

(* The uuids are numbered, parents before their children: every other tree  *)
(* is one of these under another numbering.                                 *)
MCInit == /\ SessionInit
          /\ \A n \in Node \ {Root} : parent[n] < n
          /\ name[1] = "power"

MCSpec == MCInit /\ [][SessionNext]_sessionVars /\ Fairness
=============================================================================
