------------------------------ MODULE MCReplay ------------------------------
(***************************************************************************)
(* Replaying for TLC: the session that brings the threads to the recorded  *)
(* events (ReplaySession) and the server that lets gdb debug it            *)
(* (GdbServer).  A behaviour is one of the two, the other's state stays as *)
(* it was at the start.                                                    *)
(***************************************************************************)
EXTENDS GdbSessions

CONSTANTS SkidSize, MaxSkid, MaxTicksRequest, BytesCoalesced

ASSUME CounterAssumption ==
  /\ SkidSize \in Nat \ {0} /\ MaxSkid \in 0..SkidSize /\ BytesCoalesced \in Nat
  /\ MaxTicksRequest \in Nat /\ MaxTicksRequest > SkidSize

VARIABLES part,                                        \* never changes
          r_scen, task, frame, r_step, pc, c, user_bps,  \* of ReplaySession
          internal_bp, syscall_bp, changed, loc, prot, result, seen, LIVE, failed

Recordings == INSTANCE ReplayRecordings WITH Scenarios <- {}, scen <- r_scen, step <- r_step
Replay == INSTANCE ReplaySession WITH Scenarios <- Recordings!MCScenarios, scen <- r_scen, step <- r_step

replayV == <<r_scen, task, frame, r_step, pc, c, user_bps, internal_bp, syscall_bp,
             changed, loc, prot, result, seen, LIVE, failed>>
mcvars == <<part, vars, replayV>>

SomeSession == CHOOSE x \in Scenarios : TRUE
SomeRecording == CHOOSE x \in Recordings!MCScenarios : TRUE

MCInit ==
  \/ /\ part = "replay"
     /\ scen = SomeSession /\ w = NewServer /\ wire = <<>> /\ gdb = NewGdb
     /\ Replay!Init
  \/ /\ part = "gdb"
     /\ r_scen = SomeRecording /\ user_bps = {} /\ Replay!Init
     /\ Init

ReplaySteps == part = "replay" /\ Replay!Next /\ UNCHANGED <<part, vars>>

MCNext ==
  \/ ReplaySteps
  \/ part = "gdb" /\ Next /\ UNCHANGED <<part, replayV>>

(* As in the two modules; nothing but a step of its own ends a replay that *)
(* is neither over nor failed.                                             *)
ReplayCanStep ==
  /\ part = "replay" /\ failed = "no"
  /\ result.status # "REPLAY_EXITED" /\ ~(pc = "idle" /\ LIVE)
MCFairness ==
  /\ []<>~ReplayCanStep \/ []<><<ReplaySteps>>_replayV
  /\ []<>(~ServerCanStep \/ part # "gdb") \/ []<><<Server>>_vars
  /\ WF_vars(Deliver) /\ WF_vars(GdbReceives)

MCSpec == MCInit /\ [][MCNext]_mcvars /\ MCFairness

-----------------------------------------------------------------------------
(* When replay_step returns, the debugger has been told of each breakpoint *)
(* and each change of its watched value it ran into, and is stopped there; *)
(* a ticks target was not passed; fast-forwarding a string instruction     *)
(* skipped nothing the debugger asked to stop before; and no assertion of  *)
(* the replay fails.  No internal breakpoint is left behind either, except *)
(* the one on the system call instruction while the step that enters the   *)
(* call (TSTEP_ENTER_SYSCALL) is unfinished, which the code leaves in.     *)
DebuggerTold ==
  Replay!DebuggerTold /\ Replay!FastForwardStops /\ Replay!AssertionsHold

(* A frame is retired at exactly the instruction it was recorded at,       *)
(* however late the tick counter interrupted and whatever the debugger had *)
(* set there.                                                              *)
FramesAtRecordedPoint == Replay!FramesAtRecordedPoint

(* The replay comes to the end of the trace, unless a modified program     *)
(* left it.                                                                *)
ReplayFinishes == part = "replay" => Replay!ReplayFinishes

(* gdb gets answers only to what it asked, about the thread it selected at *)
(* the stop it was told of, with the first match of a search; the          *)
(* checkpoints it may restart from are held; and no assertion of           *)
(* GdbServer.cc or GdbConnection.cc fails.                                 *)
AnswersExact ==
  RepliesMatch /\ AnswersAboutStop /\ SearchExact /\ CheckpointHeld /\ AssertionsHold
=============================================================================
