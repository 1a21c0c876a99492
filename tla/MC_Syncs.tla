-------------------------------- MODULE MC_Syncs --------------------------------
(* Instances of DumpSync and Overdue for TLC.  A responsible process runs both,  *)
(* but they share no state, so a behaviour is one of either and the other stays  *)
(* as it begins: what each may do is checked without the product of both.        *)
EXTENDS DumpSync, Overdue

CONSTANTS k1, k2, o1, o2, o3

VARIABLE sync \* "dump" or "overdue"

syncsVars == <<vars, overdueVars, sync>>

\* Nothing is late or noted, no row is flagged.
OverdueRests ==
  /\ late = {} /\ noted = {}
  /\ column = [o \in Object |-> IF o \in Existing THEN "n" ELSE "none"]

SyncsInit ==
  /\ Init /\ OverdueInit
  /\ \/ sync = "dump" /\ OverdueRests
     \/ sync = "overdue"

\* The one that runs takes a step.
Dumps == sync = "dump" /\ UNCHANGED <<overdueVars, sync>>
Watches == sync = "overdue" /\ UNCHANGED <<vars, sync>>

SyncsNext ==
  \/ Dumps /\ StartDump
  \/ Dumps /\ Icinga2
  \/ Dumps /\ Listen
  \/ Dumps /\ CancelSync
  \/ Dumps /\ Handover
  \/ Dumps /\ StartOver
  \/ Dumps /\ Crash
  \/ \E k \in Key : Dumps /\ Work(k)
  \/ Watches /\ Sync
  \/ Watches /\ Restart
  \/ \E o \in Object : Watches /\ BecomeLate(o)
  \/ \E o \in Object : Watches /\ Check(o)
  \/ \E o \in Object : Watches /\ InsertRow(o)

\* The fairness of FairSpec and OverdueFairSpec, for the one that runs.
Dumping(A) == sync = "dump" /\ A

SyncsFairSpec ==
  /\ SyncsInit /\ [][SyncsNext]_syncsVars
  /\ WF_vars(Dumping(Icinga2)) /\ WF_vars(Dumping(Listen))
  /\ WF_vars(Dumping(CancelSync)) /\ WF_vars(Dumping(StartOver))
  /\ \A k \in Key : WF_vars(Dumping(Work(k)))
  /\ WF_overdueVars(sync = "overdue" /\ Sync)
===============================================================================
