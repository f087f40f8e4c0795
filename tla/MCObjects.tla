------------------------------ MODULE MCObjects ------------------------------
(***************************************************************************)
(* Arenas, buffers, scope guards, delayed tasks, and the monitor of a      *)
(* child process called from several threads.  They share nothing, so a    *)
(* behaviour exercises one of them while the others stay as they are:      *)
(* `part` says which.  Buffers have three parts: calls on bytes, calls on  *)
(* rings, and all calls with a smaller number of them.                     *)
(***************************************************************************)
EXTENDS Arena, Buffer, ScopedExec, DelayScheduler, MonitorProcess, TLC

CONSTANTS ByteCalls, RingCalls, AllCalls   \* bounds: buffer calls made

VARIABLE part

vars == <<arenaVars, bufferVars, execVars, delayVars, monitorVars, part>>

Requests_ == {<<1, 1>>, <<6, 8>>}
Inputs_ == {<<1>>}

\* One restart allowed, under every policy.
Configs_ == [max: {1}, policy: Policies]

Symmetry == Permutations(Buffers)

Init ==
  /\ ArenaInit
  /\ ExecInit
  /\ DelayInit
  /\ MonitorInit
  /\ \/ part \in {"arena", "guards", "delay", "monitor"} /\ BufferInit(0)
     \/ part = "bytes" /\ BufferInit(ByteCalls)
     \/ part = "rings" /\ BufferInit(RingCalls)
     \/ part = "buffers" /\ BufferInit(AllCalls)
  /\ part # "monitor" => config = CHOOSE c \in Configs : TRUE

Next ==
  /\ UNCHANGED part
  /\ \/ /\ part = "arena" /\ ArenaNext
        /\ UNCHANGED <<bufferVars, execVars, delayVars, monitorVars>>
     \/ /\ part = "guards" /\ ExecNext
        /\ UNCHANGED <<arenaVars, bufferVars, delayVars, monitorVars>>
     \/ /\ part = "delay" /\ DelayNext
        /\ UNCHANGED <<arenaVars, bufferVars, execVars, monitorVars>>
     \/ /\ \/ part = "bytes" /\ BufferStep(NodeCall \/ BytesCall)
           \/ part = "rings" /\ BufferStep(NodeCall \/ RingCall)
           \/ part = "buffers" /\ BufferNext
        /\ UNCHANGED <<arenaVars, execVars, delayVars, monitorVars>>
     \* MonitorIntact says nothing of a monitor that lost its state.
     \/ /\ part = "monitor" /\ ~idledLive /\ MonitorNext
        /\ UNCHANGED <<arenaVars, bufferVars, execVars, delayVars>>

Spec == Init /\ [][Next]_vars
=============================================================================
