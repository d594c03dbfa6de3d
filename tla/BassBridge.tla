----------------------------- MODULE BassBridge -----------------------------
(***************************************************************************)
(* The BASS bridge (mixing/BassBridge): streams of the BASS library are    *)
(* captured by a DSP that BASS calls on its mixer thread with a raw        *)
(* pointer to the stream's channel.  Detoured calls on any thread keep a   *)
(* table of channels under m_mutex; what they take out of it waits in a    *)
(* list for the game thread's Tick, which alone may register a channel's   *)
(* source with the pipeline and drop it.  Sections under one lock are one  *)
(* action.                                                                 *)
(***************************************************************************)
EXTENDS Naturals

CONSTANTS
  Callers,       \* threads that call BASS: "game", and others such as a download's
  BassHandles,   \* handles of BASS, used again once their stream is gone
  BassChannels,  \* channels ever made
  Sources,       \* ids of sources, never used again
  MaxBassCalls   \* bound on the detoured calls

Absent == "none"

ASSUME BridgeAssumption ==
  "game" \in Callers /\ Absent \notin BassHandles \union BassChannels \union Sources /\ MaxBassCalls \in Nat

VARIABLES
  stream, dsp,                        \* BASS: state of each handle's stream, channel its DSP points to
  instance, hooked,                   \* s_instance is set; the detours are enabled
  table,                              \* m_channels
  pendingUnregister, stale,           \* m_pendingUnregister: channels, sources of those a restart made
  channel, used,                      \* what ch->lock guards; channels made so far
  made, eos, stop, finished, queued,  \* sources made; flags and non-empty ring of each
  waiting, rendered,                  \* sources registered: in the audio thread's queue, in its streams
  calls, call, callback,              \* calls so far; each thread's detoured call, the channel of the DSP callback
  gamePc, dead, deadStale,            \* the game thread in Tick and Shutdown
  liveChannels, seen, keptChannels,   \* the same: channels left to look at, the state read, its references
  turnedAway, overtaken, offered      \* history

bassVars == <<stream, dsp>>
hookVars == <<instance, hooked>>
tableVars == <<table, pendingUnregister, stale>>
channelVars == <<channel, used>>
callVars == <<calls, call, callback>>
flagVars == <<made, eos, stop, finished>>
pipeVars == <<waiting, rendered, turnedAway>>
tickVars == <<gamePc, dead, deadStale, liveChannels, seen, keptChannels>>
bridgeVars == <<bassVars, hookVars, tableVars, channelVars, flagVars, queued, pipeVars, callVars, tickVars,
                overtaken, offered>>

\* "playing" stands for a stream that is stalled or paused as well.
States == {Absent, "stopped", "playing"}
NoCall == [op |-> Absent, pc |-> "out", handle |-> Absent, channel |-> Absent, flag |-> FALSE]
NoBassChannel == [handle |-> Absent, source |-> Absent, registered |-> FALSE, rejected |-> FALSE]
Fresh(h, s) == [NoBassChannel EXCEPT !.handle = h, !.source = s]
NothingSeen == [channel |-> Absent, state |-> Absent]

BridgeInit ==
  /\ stream = [h \in BassHandles |-> Absent] /\ dsp = [h \in BassHandles |-> Absent]
  /\ instance = TRUE /\ hooked = FALSE
  /\ table = [h \in BassHandles |-> Absent] /\ pendingUnregister = {} /\ stale = {}
  /\ channel = [c \in BassChannels |-> NoBassChannel] /\ used = {}
  /\ made = {} /\ eos = {} /\ stop = {} /\ finished = {} /\ queued = {}
  /\ waiting = {} /\ rendered = {}
  /\ calls = 0 /\ call = [t \in Callers |-> NoCall] /\ callback = Absent
  /\ gamePc = "lua" /\ dead = {} /\ deadStale = {} /\ liveChannels = {} /\ seen = NothingSeen /\ keptChannels = {}
  /\ turnedAway = {} /\ overtaken = {} /\ offered = {}

\* Ids not used yet are interchangeable: one stands for them all.
NextOf(unused) == IF unused = {} THEN {} ELSE {CHOOSE id \in unused : TRUE}

Live(s) == s # Absent /\ s \notin eos \union finished
\* BASS ends a callback under way before it frees a stream or removes its DSP.
NotCalledBack(c) == callback # c

-----------------------------------------------------------------------------
(* BASS on its own: a stream ends or is stopped, and may be freed by its   *)
(* own end (BASS_STREAM_AUTOFREE); BASS_ChannelStop is not detoured.       *)
(* Without detours every call goes unseen.                                 *)

BassKeeps == UNCHANGED <<hookVars, tableVars, channelVars, flagVars, queued, pipeVars, callVars, tickVars,
                         overtaken, offered>>

StreamChanges(h, state) ==
  /\ stream' = [stream EXCEPT ![h] = state]
  /\ IF state = Absent THEN NotCalledBack(dsp[h]) \/ dsp[h] = Absent ELSE TRUE
  /\ dsp' = [dsp EXCEPT ![h] = IF state = Absent THEN Absent ELSE @]
  /\ BassKeeps

StreamStops(h) == stream[h] = "playing" /\ StreamChanges(h, "stopped")
StreamVanishes(h) == stream[h] = "playing" /\ StreamChanges(h, Absent)
UnseenCall(h, state) == ~hooked /\ stream[h] # state /\ StreamChanges(h, state)

-----------------------------------------------------------------------------
(* A detoured call is counted in g_bassReaders while it is in the bridge   *)
(* (BassInvocation).  One that finds no instance once it is counted        *)
(* returns without a trace and is left out: a call here has the instance.  *)

CallKeeps == UNCHANGED <<hookVars, calls, callback, tickVars, pipeVars, offered>>
CallOnlyMoves == CallKeeps /\ UNCHANGED <<bassVars, tableVars, channelVars, flagVars, queued, overtaken>>
To(t, pc) == call' = [call EXCEPT ![t].pc = pc]
Returns(t) == call' = [call EXCEPT ![t] = NoCall]

\* No caller knows the handle of a stream before its creation has returned.
Unknown(h) == \E t \in Callers : call[t].pc = "insert" /\ call[t].handle = h

BassCall(t, op, h, restart) ==
  /\ hooked /\ call[t] = NoCall /\ (t = "game" => gamePc = "lua") /\ ~Unknown(h)
  /\ calls < MaxBassCalls /\ calls' = calls + 1
  /\ call' = [call EXCEPT ![t] = [op |-> op, pc |-> "begin", handle |-> h, channel |-> Absent, flag |-> restart]]
  /\ UNCHANGED <<bassVars, hookVars, tableVars, channelVars, flagVars, queued, callback, tickVars, pipeVars,
                 overtaken, offered>>

-----------------------------------------------------------------------------
(* BASS_StreamCreate...                                                    *)

\* The original call, then OnStreamCreated up to the DSP; a decoding stream, or
\* one without information, id or DSP, is left to BASS.  A handle is given out
\* again once no call with it is under way.
StreamCreated(t, h) ==
  /\ call[t].op = "create" /\ call[t].pc = "begin"
  /\ stream[h] = Absent /\ \A u \in Callers : call[u].handle # h
  /\ stream' = [stream EXCEPT ![h] = "stopped"]
  /\ \/ Returns(t) /\ UNCHANGED <<dsp, channelVars, made>>
     \/ \E c \in NextOf(BassChannels \ used), s \in NextOf(Sources \ made) :
          /\ used' = used \union {c} /\ made' = made \union {s}
          /\ channel' = [channel EXCEPT ![c] = Fresh(h, s)]
          /\ dsp' = [dsp EXCEPT ![h] = c]
          /\ call' = [call EXCEPT ![t].pc = "insert", ![t].handle = h, ![t].channel = c]
  /\ CallKeeps /\ UNCHANGED <<tableVars, eos, stop, finished, queued, overtaken>>

\* A record of an earlier stream with this handle goes to the game thread.
OnStreamCreated(t) ==
  LET h == call[t].handle
  IN /\ call[t].op = "create" /\ call[t].pc = "insert"
     /\ table' = [table EXCEPT ![h] = call[t].channel]
     /\ pendingUnregister' = pendingUnregister \union ({table[h]} \ {Absent})
     /\ Returns(t)
     /\ CallKeeps /\ UNCHANGED <<bassVars, stale, channelVars, flagVars, queued, overtaken>>

-----------------------------------------------------------------------------
(* BASS_StreamFree                                                         *)

LookAtState(t) ==   \* channelIsActive
  /\ call[t].op = "free" /\ call[t].pc = "begin"
  /\ call' = [call EXCEPT ![t].pc = "erase", ![t].flag = stream[call[t].handle] = "playing"]
  /\ CallOnlyMoves

Erased(t) ==
  /\ pendingUnregister' = pendingUnregister \union {table[call[t].handle]}
  /\ table' = [table EXCEPT ![call[t].handle] = Absent]
  /\ call' = [call EXCEPT ![t].pc = "end", ![t].channel = table[call[t].handle]]
  /\ CallKeeps /\ UNCHANGED <<stream, stale, channelVars, flagVars, queued, overtaken>>

DspRemoved(c) ==
  /\ NotCalledBack(c)
  /\ dsp' = [h \in BassHandles |-> IF dsp[h] = c THEN Absent ELSE dsp[h]]

\* Mutant: the DSP is left to BASS_StreamFree.
EraseAndKeepDsp(t) ==
  /\ call[t].op = "free" /\ call[t].pc = "erase"
  /\ IF table[call[t].handle] = Absent THEN To(t, "free") /\ CallOnlyMoves
     ELSE Erased(t) /\ UNCHANGED dsp
\* OnStreamFreed under m_mutex.
EraseChannel(t) ==
  /\ call[t].op = "free" /\ call[t].pc = "erase"
  /\ IF table[call[t].handle] = Absent THEN To(t, "free") /\ CallOnlyMoves
     ELSE Erased(t) /\ DspRemoved(table[call[t].handle])

\* OnStreamFreed under ch->lock: Tick may have taken the source by now.
EndSource(t) ==
  LET s == channel[call[t].channel].source
  IN /\ call[t].op = "free" /\ call[t].pc = "end"
     /\ call' = [call EXCEPT ![t].pc = "free", ![t].channel = Absent]
     /\ eos' = IF s # Absent THEN eos \union {s} ELSE eos
     /\ stop' = IF s # Absent /\ call[t].flag THEN stop \union {s} ELSE stop
     /\ CallKeeps /\ UNCHANGED <<bassVars, tableVars, channelVars, made, finished, queued, overtaken>>

StreamFreed(t) ==   \* the original call
  LET h == call[t].handle
  IN /\ call[t].op = "free" /\ call[t].pc = "free" /\ Returns(t)
     /\ (dsp[h] = Absent \/ NotCalledBack(dsp[h]))
     /\ stream' = [stream EXCEPT ![h] = Absent] /\ dsp' = [dsp EXCEPT ![h] = Absent]
     /\ CallKeeps /\ UNCHANGED <<tableVars, channelVars, flagVars, queued, overtaken>>

-----------------------------------------------------------------------------
(* BASS_ChannelPlay                                                        *)

StreamPlayed(t) ==   \* the original call; OnChannelPlay follows if it succeeds
  LET h == call[t].handle
  IN /\ call[t].op = "play" /\ call[t].pc = "begin"
     /\ IF stream[h] = Absent
        THEN Returns(t) /\ UNCHANGED stream
        ELSE To(t, "find") /\ stream' = [stream EXCEPT ![h] = "playing"]
     /\ CallKeeps /\ UNCHANGED <<dsp, tableVars, channelVars, flagVars, queued, overtaken>>

FindChannel(t) ==
  LET c == table[call[t].handle]
  IN /\ call[t].op = "play" /\ call[t].pc = "find"
     /\ IF c = Absent THEN Returns(t) ELSE call' = [call EXCEPT ![t].pc = "play", ![t].channel = c]
     /\ CallOnlyMoves

\* A channel's source gives way to a fresh one; a registered one has to be
\* unregistered by the game thread, another is dropped.
Replace(c) ==
  /\ \E s \in NextOf(Sources \ made) :
       /\ made' = made \union {s}
       /\ channel' = [channel EXCEPT ![c] = Fresh(@.handle, s)]
  /\ stale' = IF channel[c].registered /\ channel[c].source # Absent THEN stale \union {channel[c].source} ELSE stale
  /\ overtaken' = overtaken \ {c}

\* Mutant: only a stream that was rendered to its end is dead.
DeadIfRendered(s) == s \in {Absent} \union finished
Dead(s) == ~Live(s) \/ s \in stop

\* Mutant: a restarted stream's source is not stopped.
PlayOverIt(t) ==
  LET c == call[t].channel
      s == channel[c].source
  IN /\ call[t].op = "play" /\ call[t].pc = "play" /\ Returns(t)
     /\ IF Dead(s) \/ call[t].flag THEN Replace(c)
        ELSE UNCHANGED <<made, channel, stale, overtaken>>
     /\ CallKeeps /\ UNCHANGED <<bassVars, table, pendingUnregister, used, eos, stop, finished, queued>>
\* OnChannelPlay under ch->lock: the source of a stream that had ended, or that
\* is restarted, is replaced.
OnChannelPlay(t) ==
  LET c == call[t].channel
      s == channel[c].source
  IN /\ call[t].op = "play" /\ call[t].pc = "play" /\ Returns(t)
     /\ stop' = IF ~Dead(s) /\ call[t].flag THEN stop \union {s} ELSE stop
     /\ IF Dead(s) \/ call[t].flag THEN Replace(c)
        ELSE UNCHANGED <<made, channel, stale, overtaken>>
     /\ CallKeeps /\ UNCHANGED <<bassVars, table, pendingUnregister, used, eos, finished, queued>>

-----------------------------------------------------------------------------
(* The DSP callback on BASS's mixer thread                                 *)

CallbackKeeps == UNCHANGED <<bassVars, hookVars, tableVars, channelVars, flagVars, pipeVars, calls, call, tickVars,
                             overtaken, offered>>

DspCallback(h) ==
  /\ instance /\ callback = Absent /\ stream[h] = "playing" /\ dsp[h] # Absent
  /\ callback' = dsp[h]
  /\ CallbackKeeps /\ UNCHANGED queued

\* ProcessBlock: nothing is written while capture is off, and a block that meets
\* a held lock or a full ring is lost.
ProcessBlock ==
  /\ callback # Absent /\ callback' = Absent
  /\ LET c == channel[callback]
     IN \/ ~c.rejected /\ Live(c.source) /\ queued' = queued \union {c.source}
        \/ UNCHANGED queued
  /\ CallbackKeeps

-----------------------------------------------------------------------------
(* The pipeline, as StreamLifecycle has it: the audio thread takes a       *)
(* source from its queue or turns it away, and renders it until it ended.  *)

PipeKeeps == UNCHANGED <<bassVars, hookVars, tableVars, channelVars, made, eos, stop, callVars, tickVars,
                         overtaken, offered>>

TakeOrTurnAway(s) ==
  /\ s \in waiting /\ waiting' = waiting \ {s}
  /\ \/ rendered' = rendered \union {s} /\ UNCHANGED <<finished, turnedAway>>
     \/ finished' = finished \union {s} /\ turnedAway' = turnedAway \union {s} /\ UNCHANGED rendered
  /\ PipeKeeps /\ UNCHANGED queued

Render(s) ==
  /\ s \in rendered
  /\ \/ s \in queued /\ queued' = queued \ {s} /\ UNCHANGED <<rendered, finished>>
     \/ /\ s \in stop \union (eos \ queued)
        /\ finished' = finished \union {s} /\ rendered' = rendered \ {s} /\ queued' = queued \ {s}
  /\ PipeKeeps /\ UNCHANGED <<waiting, turnedAway>>

-----------------------------------------------------------------------------
(* Tick on the game thread                                                 *)

TickKeeps == UNCHANGED <<stream, used, made, finished, queued, rendered, turnedAway, callVars>>
GameIsIdle == gamePc = "lua" /\ call["game"] = NoCall

\* TryAttach: BASS may not be loaded, and a detour may fail.
Attach ==
  /\ GameIsIdle /\ ~hooked
  /\ \E ok \in BOOLEAN : hooked' = ok /\ instance' = ok
  /\ TickKeeps /\ UNCHANGED <<dsp, tableVars, channel, eos, stop, waiting, tickVars, overtaken, offered>>

BeginTick ==
  /\ GameIsIdle /\ hooked /\ gamePc' = "dead"
  /\ dead' = pendingUnregister /\ deadStale' = stale /\ pendingUnregister' = {} /\ stale' = {} /\ keptChannels' = pendingUnregister
  /\ TickKeeps /\ UNCHANGED <<dsp, instance, hooked, table, channel, eos, stop, waiting, liveChannels, seen, overtaken, offered>>

RegisterSource(s, ok) ==
  /\ offered' = offered \union {s}
  /\ waiting' = IF ok THEN waiting \union {s} ELSE waiting

\* A channel that died gives up its source: a stopped one is unregistered (it
\* has the flag already), one that was captured before it could be registered
\* is registered to drain.
TickDead(c) ==
  LET s == channel[c].source
      late == ~channel[c].registered /\ ~channel[c].rejected /\ s \in queued \ stop
  IN /\ gamePc = "dead" /\ c \in dead /\ dead' = dead \ {c}
     /\ channel' = [channel EXCEPT ![c].source = Absent, ![c].registered = FALSE]
     /\ eos' = eos \union ({s} \ {Absent})
     /\ IF late THEN \E ok \in BOOLEAN : RegisterSource(s, ok) ELSE UNCHANGED <<offered, waiting>>
     /\ TickKeeps
     /\ UNCHANGED <<dsp, instance, hooked, tableVars, stop, gamePc, deadStale, liveChannels, seen, keptChannels, overtaken>>

TickStale(s) ==
  /\ gamePc = "dead" /\ s \in deadStale /\ deadStale' = deadStale \ {s}
  /\ eos' = eos \union {s}
  /\ TickKeeps
  /\ UNCHANGED <<dsp, instance, hooked, tableVars, channel, stop, waiting, gamePc, dead, liveChannels, seen, keptChannels,
                 overtaken, offered>>

ListLive ==
  /\ gamePc = "dead" /\ dead = {} /\ deadStale = {} /\ gamePc' = "live"
  /\ liveChannels' = {table[h] : h \in BassHandles} \ {Absent} /\ keptChannels' = keptChannels \union liveChannels'
  /\ TickKeeps
  /\ UNCHANGED <<dsp, instance, hooked, tableVars, channel, eos, stop, waiting, dead, deadStale, seen, overtaken, offered>>

\* channelIsActive and its error, before ch->lock.
LookAtChannel(c) ==
  /\ gamePc = "live" /\ seen = NothingSeen /\ c \in liveChannels /\ liveChannels' = liveChannels \ {c}
  /\ seen' = [channel |-> c, state |-> stream[channel[c].handle]]
  /\ TickKeeps
  /\ UNCHANGED <<dsp, instance, hooked, tableVars, channel, eos, stop, waiting, gamePc, dead, deadStale, keptChannels,
                 overtaken, offered>>

\* The stream is gone without BASS_StreamFree: RetireChannel, with the channel
\* taken out of the table.
RetireVanished ==
  LET c == seen.channel
      s == channel[c].source
  IN /\ c # Absent /\ seen.state = Absent /\ seen' = NothingSeen
     /\ table' = [h \in BassHandles |-> IF table[h] = c THEN Absent ELSE table[h]]
     /\ DspRemoved(c)
     /\ channel' = [channel EXCEPT ![c].source = Absent, ![c].registered = FALSE]
     /\ eos' = eos \union ({s} \ {Absent})
     /\ TickKeeps
     /\ UNCHANGED <<instance, hooked, pendingUnregister, stale, stop, waiting, gamePc, dead, deadStale, liveChannels, keptChannels,
                    overtaken, offered>>

\* Under ch->lock: the source of a stream seen stopped is to end, and a source
\* that is not registered is; a refused one leaves the stream to BASS.
RefreshChannel ==
  LET c == seen.channel
      s == channel[c].source
      ends == seen.state = "stopped"
  IN /\ c # Absent /\ seen.state # Absent /\ seen' = NothingSeen
     /\ IF s = Absent \/ channel[c].rejected
        THEN UNCHANGED <<eos, overtaken, channel, waiting, offered>>
        ELSE /\ eos' = IF ends THEN eos \union {s} ELSE eos
             /\ overtaken' = IF ends /\ stream[channel[c].handle] = "playing" THEN overtaken \union {c} ELSE overtaken
             /\ IF channel[c].registered THEN UNCHANGED <<channel, waiting, offered>>
                ELSE \E ok \in BOOLEAN :
                       /\ RegisterSource(s, ok)
                       /\ channel' = [channel EXCEPT ![c].registered = ok, ![c].rejected = ~ok]
     /\ TickKeeps
     /\ UNCHANGED <<dsp, instance, hooked, tableVars, stop, gamePc, dead, deadStale, liveChannels, keptChannels>>

\* The vectors of Tick, or of Shutdown, go out of scope.
TickEnds ==
  /\ gamePc = "live" /\ liveChannels = {} /\ seen = NothingSeen
  /\ gamePc' = "lua" /\ keptChannels' = {}
  /\ TickKeeps
  /\ UNCHANGED <<dsp, instance, hooked, tableVars, channel, eos, stop, waiting, dead, deadStale, liveChannels, seen,
                 overtaken, offered>>

-----------------------------------------------------------------------------
(* Shutdown                                                                *)

RemoveDetours ==
  /\ GameIsIdle /\ gamePc' = "unhook" /\ hooked' = FALSE /\ instance' = FALSE
  /\ TickKeeps
  /\ UNCHANGED <<dsp, tableVars, channel, eos, stop, waiting, dead, deadStale, liveChannels, seen, keptChannels, overtaken, offered>>

\* Mutant: the DSP callback is not counted.
CallsAreGone == \A t \in Callers : call[t] = NoCall
ReadersAreGone == (\A t \in Callers : call[t] = NoCall) /\ callback = Absent

\* The wait of RemoveDetours is over: Shutdown empties the table and the list.
TakeAll ==
  /\ gamePc = "unhook" /\ ReadersAreGone /\ gamePc' = "retire"
  /\ dead' = pendingUnregister \union ({table[h] : h \in BassHandles} \ {Absent}) /\ keptChannels' = dead'
  /\ deadStale' = stale /\ pendingUnregister' = {} /\ stale' = {} /\ table' = [h \in BassHandles |-> Absent]
  /\ TickKeeps /\ UNCHANGED <<dsp, instance, hooked, channel, eos, stop, waiting, liveChannels, seen, overtaken, offered>>

RetireChannel(c) ==
  LET s == channel[c].source
  IN /\ gamePc = "retire" /\ c \in dead /\ dead' = dead \ {c}
     /\ DspRemoved(c)
     /\ channel' = [channel EXCEPT ![c].source = Absent, ![c].registered = FALSE]
     /\ eos' = eos \union ({s} \ {Absent}) /\ stop' = stop \union ({s} \ {Absent})
     /\ TickKeeps
     /\ UNCHANGED <<instance, hooked, tableVars, waiting, gamePc, deadStale, liveChannels, seen, keptChannels, overtaken, offered>>

RetireStale(s) ==
  /\ gamePc = "retire" /\ s \in deadStale /\ deadStale' = deadStale \ {s}
  /\ eos' = eos \union {s} /\ stop' = stop \union {s}
  /\ TickKeeps
  /\ UNCHANGED <<dsp, instance, hooked, tableVars, channel, waiting, gamePc, dead, liveChannels, seen, keptChannels, overtaken, offered>>

ShutdownEnds ==
  /\ gamePc = "retire" /\ dead = {} /\ deadStale = {} /\ gamePc' = "down" /\ keptChannels' = {}
  /\ TickKeeps
  /\ UNCHANGED <<dsp, instance, hooked, tableVars, channel, eos, stop, waiting, dead, deadStale, liveChannels, seen,
                 overtaken, offered>>

-----------------------------------------------------------------------------

Bass ==
  \E h \in BassHandles : \/ StreamStops(h) \/ StreamVanishes(h)
                         \/ \E state \in States : UnseenCall(h, state)

Caller(t) ==
  \/ BassCall(t, "create", Absent, FALSE)
  \/ \E h \in BassHandles : \/ BassCall(t, "free", h, FALSE)
                            \/ \E restart \in BOOLEAN : BassCall(t, "play", h, restart)
                            \/ StreamCreated(t, h)
  \/ OnStreamCreated(t)
  \/ LookAtState(t) \/ EraseChannel(t) \/ EndSource(t) \/ StreamFreed(t)
  \/ StreamPlayed(t) \/ FindChannel(t) \/ OnChannelPlay(t)

Callback == (\E h \in BassHandles : DspCallback(h)) \/ ProcessBlock

Pipeline == \E s \in Sources : TakeOrTurnAway(s) \/ Render(s)

Game ==
  \/ Attach \/ BeginTick \/ ListLive \/ RetireVanished \/ RefreshChannel \/ TickEnds
  \/ (\E c \in BassChannels : TickDead(c) \/ LookAtChannel(c) \/ RetireChannel(c))
  \/ (\E s \in Sources : TickStale(s) \/ RetireStale(s))
  \/ RemoveDetours \/ TakeAll \/ ShutdownEnds

BridgeNext == Bass \/ (\E t \in Callers : Caller(t)) \/ Callback \/ Pipeline \/ Game

BridgeSpec == BridgeInit /\ [][BridgeNext]_bridgeVars

-----------------------------------------------------------------------------
(* Properties                                                              *)

BridgeTypeOK ==
  /\ stream \in [BassHandles -> States] /\ dsp \in [BassHandles -> used \union {Absent}]
  /\ {instance, hooked} \subseteq BOOLEAN
  /\ table \in [BassHandles -> used \union {Absent}] /\ pendingUnregister \subseteq used /\ used \subseteq BassChannels
  /\ channel \in [BassChannels -> [handle : BassHandles \union {Absent}, source : made \union {Absent},
                                   registered : BOOLEAN, rejected : BOOLEAN]]
  /\ made \subseteq Sources
  /\ eos \union stop \union finished \union queued \union waiting \union rendered \union stale \union deadStale \subseteq made
  /\ call \in [Callers -> [op : {Absent, "create", "play", "free"},
                          pc : {"out", "begin", "insert", "erase", "end", "free", "find", "play"},
                          handle : BassHandles \union {Absent}, channel : used \union {Absent}, flag : BOOLEAN]]
  /\ calls \in 0 .. MaxBassCalls
  /\ callback \in used \union {Absent}
  /\ gamePc \in {"lua", "dead", "live", "unhook", "retire", "down"}
  /\ dead \union liveChannels \union keptChannels \subseteq used
  /\ seen \in [channel : used \union {Absent}, state : States]

\* Some shared_ptr keeps the channel.
Alive(c) ==
  \/ \E h \in BassHandles : table[h] = c
  \/ c \in pendingUnregister \union keptChannels
  \/ \E t \in Callers : call[t].channel = c

\* BASS never holds the address of a channel that is gone, nor is one dropped
\* under a callback, although Tick drops channels without asking BASS: the DSP
\* is always removed first (comment at BassBridge.cpp:395).
DspTargetIsAlive ==
  /\ \A h \in BassHandles : dsp[h] # Absent => Alive(dsp[h])
  /\ callback # Absent => Alive(callback)

\* Once Shutdown has waited for g_bassReaders, no call and no callback is in
\* the bridge whose trampolines and table it clears.
ShutdownIsAlone ==
  gamePc \in {"retire", "down"} =>
    /\ \A t \in Callers : call[t] = NoCall
    /\ callback = Absent

\* What a call holds at each of its steps.
CallSteps ==
  \A t \in Callers :
    LET c == call[t]
    IN /\ c.op = Absent => c = NoCall
       /\ c.op = "create" => c.pc \in {"begin", "insert"}
       /\ c.op = "free" => c.pc \in {"begin", "erase", "end", "free"}
       /\ c.op = "play" => c.pc \in {"begin", "find", "play"}
       /\ c.op \in {"free", "play"} => c.handle # Absent
       /\ c.pc = "insert" => c.op = "create" /\ c.handle # Absent
       /\ c.pc \in {"insert", "end", "play"} <=> c.channel # Absent

\* A channel is made for a stream.
HasHandle == \A c \in used : channel[c].handle # Absent

\* A channel is known to the bridge from its creation until it is taken out of
\* the table, and to nothing else meanwhile; once out it never comes back.
InTable(c) == \E h \in BassHandles : table[h] = c
BeingInserted(c) == \E t \in Callers : call[t].pc = "insert" /\ call[t].channel = c
Out(c) == ~InTable(c) /\ ~BeingInserted(c)
OneHandle ==
  /\ \A h \in BassHandles : table[h] # Absent => channel[table[h]].handle = h
  /\ \A t \in Callers : call[t].pc = "insert" =>
       /\ channel[call[t].channel].handle = call[t].handle /\ ~InTable(call[t].channel)
       /\ \A u \in Callers \ {t} : call[u].handle # call[t].handle /\ call[u].channel # call[t].channel
  /\ \A c \in pendingUnregister \union dead : Out(c)
  /\ \A t \in Callers : call[t].pc = "end" => Out(call[t].channel)

\* BASS's pointer leads to the channel of that very handle, which the bridge
\* still has in its table or in the call that creates it, or has yet to retire.
DspIsOfItsHandle ==
  /\ \A h \in BassHandles : stream[h] = Absent => dsp[h] = Absent
  /\ \A h \in BassHandles : dsp[h] # Absent => channel[dsp[h]].handle = h
  /\ \A h \in BassHandles : dsp[h] # Absent =>
       \/ table[h] = dsp[h] \/ (gamePc = "retire" /\ dsp[h] \in dead)
       \/ \E t \in Callers : call[t].pc = "insert" /\ call[t].handle = h /\ call[t].channel = dsp[h]
  /\ callback # Absent => \E h \in BassHandles : dsp[h] = callback
  /\ \A t \in Callers : call[t].pc \in {"insert", "play"} => dsp[call[t].handle] \in {call[t].channel, Absent}

\* What Tick and Shutdown still have to look at, and when.
TickOrder ==
  /\ dead \subseteq keptChannels /\ seen.channel \notin liveChannels
  /\ gamePc \notin {"dead", "retire"} => dead = {} /\ deadStale = {}
  /\ gamePc # "live" => liveChannels = {} /\ seen = NothingSeen
  /\ \A c \in liveChannels \union ({seen.channel} \ {Absent}) : InTable(c) \/ c \in pendingUnregister
  /\ gamePc \in {"unhook", "retire", "down"} => ~hooked /\ ~instance
  /\ gamePc \in {"retire", "down"} => pendingUnregister = {} /\ \A h \in BassHandles : table[h] = Absent
  /\ ~hooked /\ gamePc \notin {"unhook", "retire", "down"} =>
       (\A t \in Callers : call[t] = NoCall) /\ (\A h \in BassHandles : dsp[h] = Absent)

\* A source is in one place: with one channel, or stale; offered to the pipeline
\* once, and in one part of it.
OneOwner ==
  /\ \A c, d \in used : channel[c].source = channel[d].source /\ channel[c].source # Absent => c = d
  /\ \A c \in used : channel[c].source \notin stale \union deadStale
  /\ waiting \intersect rendered = {} /\ (waiting \union rendered) \intersect finished = {}
  /\ waiting \union rendered \union finished \subseteq offered /\ offered \subseteq made
  /\ \A c \in used : channel[c].source \in offered => channel[c].registered \/ channel[c].rejected

\* A registered channel is in the table or on the way to its last tick; a source
\* that goes on is registered.
RegisteredIsKnown ==
  /\ \A c \in used : channel[c].registered => InTable(c) \/ c \in pendingUnregister \union dead
  /\ \A s \in (waiting \union rendered) \ (eos \union stop) :
       \E c \in used : channel[c].source = s /\ channel[c].registered

\* The bridge mutes the stream and has no source to play it with.
Silenced(h) ==
  /\ stream[h] = "playing" /\ dsp[h] # Absent /\ instance
  /\ ~channel[dsp[h]].rejected /\ ~Live(channel[dsp[h]].source)

\* The source of a channel the bridge knows has not been told to stop.
KnownIsNotStopped == \A c \in used : ~Out(c) => channel[c].source \notin stop \union {Absent}

\* A silent stream that nothing explains is in a call of BASS_ChannelPlay that
\* will replace its source.
BeingPlayed(h) == \E t \in Callers : call[t].op = "play" /\ call[t].handle = h /\ call[t].pc \in {"find", "play"}
SilenceIsBeingMended ==
  \A h \in BassHandles : Silenced(h) =>
    channel[dsp[h]].source \in turnedAway \/ dsp[h] \in overtaken \/ BeingPlayed(h)

\* BASS's pointers are alive while it may use them and Shutdown finds nobody in
\* the bridge, with the types and bounds of the variables and the parts it takes
\* to see why.
BridgeInv ==
  /\ BridgeTypeOK /\ DspTargetIsAlive /\ ShutdownIsAlone
  /\ CallSteps /\ HasHandle /\ OneHandle /\ DspIsOfItsHandle /\ TickOrder /\ OneOwner
  /\ RegisteredIsKnown /\ KnownIsNotStopped /\ SilenceIsBeingMended

\* A source goes on being rendered only while it is the one of a channel the
\* bridge still knows; every other one has been told to end, so that no stream
\* is heard twice and nothing stays with the audio thread for ever.
OnlyCurrentSourcesGoOn ==
  \A s \in (waiting \union rendered) \ (eos \union stop) :
    \E c \in used : channel[c].source = s /\ Alive(c)

Quiet == gamePc = "lua" /\ \A t \in Callers : call[t] = NoCall

\* Between ticks and calls, a playing stream is silent for one of two reasons:
\* the audio thread turned its source away after the queue had taken it, or a
\* restart on another thread fell between Tick's look at the stream's state and
\* the lock.
SilenceIsExplained ==
  Quiet => \A h \in BassHandles : Silenced(h) =>
    \/ channel[dsp[h]].source \in turnedAway
    \/ dsp[h] \in overtaken

HeldByBridge(s) == s \in stale \union deadStale \/ \E c \in used : channel[c].source = s /\ Alive(c)

\* "Short streams that end before the first game-thread tick still drain their
\* captured PCM" (README.md:473): what was captured is not dropped before the
\* source was offered to the pipeline, unless its stream was told to stop.
ShortStreamsDrain == \A s \in queued \ (stop \union offered) : HeldByBridge(s)
=============================================================================
