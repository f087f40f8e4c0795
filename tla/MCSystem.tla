------------------------------- MODULE MCSystem -------------------------------
(***************************************************************************)
(* Processes and the system's tables: the monitor of a child process, the  *)
(* wrapper of popen, the cache of system information and the functions it  *)
(* builds its answers with.  They share nothing, so a behaviour exercises  *)
(* one of them while the others stay as they are: `part` says which.       *)
(***************************************************************************)
EXTENDS MonitorProcess, PopenWrapper, SystemInfo, SystemTables, TLC

VARIABLE part

vars == <<monitorVars, popenVars, infoVars, sample, part>>

\* One restart allowed under every policy, and no limit.
Configs_ ==
  [max: {1}, policy: Policies] \cup {[max |-> 0, policy |-> "kResetCounter"]}

\* Every mode of the wrapper; captured output, callbacks and limits are
\* combined where they meet in the code.
PopenOptions_ ==
  { o \in [mode: PopenModes, capture: BOOLEAN, timeout: BOOLEAN,
           callback: BOOLEAN, max: {0, 1}, input: {0, 3}, run: BOOLEAN] :
      /\ (o.mode = "kReadOnly" \/ ~o.run) => o.input = 0
      /\ o.callback => o.max = 0
      /\ o.capture => (o.mode # "kReadWrite" /\ o.input = 0)
      /\ (~o.run /\ o.capture) => (~o.callback /\ o.mode = "kReadOnly") }

Init ==
  /\ part \in {"monitor", "popen", "info", "tables"}
  /\ MonitorInit
  /\ part # "monitor" => config = CHOOSE c \in Configs : TRUE
  /\ PopenInit
  /\ part # "popen" => opts = CHOOSE o \in PopenOptions : TRUE
  /\ InfoInit
  /\ sample \in Samples
  /\ part # "tables" => sample = CHOOSE s \in Samples : TRUE

Next ==
  /\ UNCHANGED <<sample, part>>
  /\ \/ /\ part = "monitor" /\ MonitorNext
        /\ UNCHANGED <<popenVars, infoVars>>
     \/ /\ part = "popen" /\ PopenNext
        /\ UNCHANGED <<monitorVars, infoVars>>
     \/ /\ part = "info" /\ InfoNext
        /\ UNCHANGED <<monitorVars, popenVars>>

\* No fair action of a component is enabled in its initial state.
Spec ==
  /\ Init
  /\ [][Next]_vars
  /\ MonitorFairness
  /\ PopenFairness
  /\ InfoFairness

\* What a caller waits for comes: a requested stop of the monitor, a wait with
\* a timeout whatever the child does, the end of the refresh thread.
WaitsEnd == StopCompletes /\ WaitReturns /\ StopRefreshReturns
=============================================================================
