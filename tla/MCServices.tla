------------------------------- MODULE MCServices -------------------------------
(***************************************************************************)
(* Small instances of what a host embeds besides the player, in one run:   *)
(* the buffer pool, the scheduler, the broadcast engine and the HLS client. *)
(* A behaviour is of one of them, and the others stay as they were created. *)
(***************************************************************************)
EXTENDS BufferPool

CONSTANTS Stages, Priorities, Capacity, MaxPushed,                   \* of the scheduler
          Bitrates, MaxSequence,                                     \* of the broadcast engine
          Parts, Independent, MaxRetries, Window,                    \* of the HLS client
          MaxSegments, MaxSeeks, MaxRequests

VARIABLES part,
          items, dropped, overHigh, pushed, popped, served,
          state, setup, permission, connected, started, sequence, network,
          capturing, online, bitrate, out,
          direct, client, net, server, begin, got, late, seeks

schedulerVars == <<items, dropped, overHigh, pushed, popped, served>>
engineVars == <<state, setup, permission, connected, started, sequence, network,
                capturing, online, bitrate, out>>
hlsVars == <<direct, client, net, server, begin, got, late, seeks>>

\* Of three queues, one has no capacity.
Capacities == <<3, 0, 2>>

Queue == INSTANCE Scheduler
Engine == INSTANCE Broadcast
Hls == INSTANCE HlsClient

ASSUME QueueAssumption == Queue!SchedulerAssumption
ASSUME BroadcastAssumption == MaxSequence \in Nat
ASSUME HlsAssumption == Hls!HlsAssumption

\* One initial state will do for a component that does not move.
MCInit ==
  /\ part \in {"pool", "scheduler", "broadcast", "hls"}
  /\ Init /\ Queue!Init /\ Engine!Init /\ Hls!Init
  /\ part # "broadcast" =>
       /\ state = "Idle" /\ permission = "Unknown"
       /\ setup = [needsPermission |-> FALSE, fits |-> TRUE, maxNetwork |-> 1, maxTotal |-> 1]
  /\ part # "hls" => ~direct /\ server.ended

PoolStep ==
  part = "pool" /\ Next /\ UNCHANGED <<part, schedulerVars, engineVars, hlsVars>>
SchedulerStep ==
  part = "scheduler" /\ Queue!Next /\ UNCHANGED <<part, vars, engineVars, hlsVars>>
BroadcastStep ==
  part = "broadcast" /\ Engine!Next /\ UNCHANGED <<part, vars, schedulerVars, hlsVars>>
HlsStep ==
  part = "hls" /\ Hls!Next /\ UNCHANGED <<part, vars, schedulerVars, engineVars>>

MCNext == PoolStep \/ SchedulerStep \/ BroadcastStep \/ HlsStep

MCSpec ==
  MCInit /\ [][MCNext]_<<part, vars, schedulerVars, engineVars, hlsVars>> /\ Hls!Fairness

\* The scheduler implements FIFO lanes per priority, counts losses and signals
\* pressure (see Scheduler).
SchedulerKeeps == Queue!SchedulerKeeps

\* Types of the engine, its pipeline and its devices, and of the client's position
\* and requests.
TypesOK == Hls!TypeOK /\ Engine!TypeOK

\* Devices, handles and the engine's state agree on every path (see Broadcast).
DevicesAgree == Engine!DevicesAgree

\* Nothing is requested twice at a time, and no segment is passed over or loaded
\* again (see HlsClient).
SegmentsOnce == Hls!SegmentsOnce

\* Every segment is loaded in the end, and a live playlist found in a master
\* playlist is loaded again and again (see HlsClient).
DownloadsGoOn == Hls!SegmentsArrive /\ Hls!ReloadsGoOn
=============================================================================
