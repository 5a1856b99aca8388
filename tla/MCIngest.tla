-------------------------------- MODULE MCIngest --------------------------------
(***************************************************************************)
(* Small instances of what takes in a stream, in one run: the transports,  *)
(* the search for the packets of MPEG-TS, the arena of the demuxed units   *)
(* and the GOP cache.  A behaviour is of one of them, and the others stay  *)
(* as they were created.                                                   *)
(***************************************************************************)
EXTENDS Transports

CONSTANTS LastGeneration, MaxResets, MaxStores,          \* of the arena
          MaxBytes, MaxFrames, MaxDuration,              \* of the GOP cache
          Sizes, Times, MaxPackets, MaxGeneration

VARIABLES part,
          slots, freeSlots, nextGeneration, instance, last, errored, stored, held, dropped,
          gops, current, generation, fed, taken,
          items, pushed, finder, packets, asked, unread, rushed

arenaVars == <<slots, freeSlots, nextGeneration, instance, last, errored, stored, held, dropped>>
gopVars == <<gops, current, generation, fed, taken>>
syncVars == <<items, pushed, finder, packets, asked, unread, rushed>>

Arena == INSTANCE DemuxArena WITH free <- freeSlots, MaxGeneration <- LastGeneration
Gop == INSTANCE GopCache

ASSUME ArenaAssumption == Arena!ArenaAssumption
ASSUME GopAssumption == Gop!GopAssumption

\* Packets, one of which may look like two; one that is cut, or noise longer than a scan.
Item(len, sync) == [len |-> len, sync |-> sync]
Sync == INSTANCE TsSync WITH
  at <- pushed, d <- finder, taken <- packets,
  PacketLen <- 3, MaxScan <- 6, MaxBuffer <- 16, ShrinkAt <- 5,
  Items <- {Item(3, {1}), Item(3, {1, 3}), Item(2, {1}), Item(7, {})},
  MaxItems <- 5, MaxFaults <- 1, Chunks <- {1, 7}
PlainInput == [i \in 1..5 |-> Item(3, {1})]

MCInit ==
  /\ part \in {"transport", "sync", "arena", "gop"}
  \* One kind of transport will do where it does not move.
  /\ Init /\ (part # "transport" => kind = "fetch")
  /\ Arena!Init /\ Gop!Init
  /\ Sync!Init /\ (part # "sync" => items = PlainInput)

TransportStep == part = "transport" /\ Next /\ UNCHANGED <<part, arenaVars, gopVars, syncVars>>
ArenaStep == part = "arena" /\ Arena!Next /\ UNCHANGED <<part, vars, gopVars, syncVars>>
GopStep == part = "gop" /\ Gop!Next /\ UNCHANGED <<part, vars, arenaVars, syncVars>>
SyncStep == part = "sync" /\ Sync!Next /\ UNCHANGED <<part, vars, arenaVars, gopVars>>

MCNext == TransportStep \/ SyncStep \/ ArenaStep \/ GopStep

MCSpec == MCInit /\ [][MCNext]_<<part, vars, arenaVars, gopVars, syncVars>> /\ Fairness

\* Packets are found again after noise, and none is lost where there was none (see
\* TsSync).
SyncSafe == part = "sync" => Sync!TsSyncSafe

\* A handle reads what was stored under it, or is refused (see DemuxArena).
ArenaSafe == Arena!ArenaSafe

\* Groups stay within the limits and can be decoded (see GopCache).
GopSafe == Gop!GopSafe
=============================================================================
