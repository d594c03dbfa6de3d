--------------------------- MODULE GameSoundsProofs ---------------------------
(***************************************************************************)
(* Proofs about the sounds that others make, for every value of the        *)
(* constants: the invariant of BassBridge is inductive; the matcher of     *)
(* SoundOverrides finds every match, and its table gives each sound what   *)
(* was asked for it whatever it forgets and caches.                        *)
(***************************************************************************)
EXTENDS MCGameSounds, TLAPS, FiniteSetTheorems, WellFoundedInduction

-----------------------------------------------------------------------------
(* BassBridge                                                              *)


\* What a thread's call may be, while these channels have been made.
CallRecords(U) ==
  [op : {Absent, "create", "play", "free"}, pc : {"out", "begin", "insert", "erase", "end", "free", "find", "play"},
   handle : BassHandles \union {Absent}, channel : U \union {Absent}, flag : BOOLEAN]

\* The invariant without what follows from its other parts.
CoreInv ==
  /\ BridgeTypeOK /\ ShutdownIsAlone /\ CallSteps /\ HasHandle /\ OneHandle /\ DspIsOfItsHandle
  /\ TickOrder /\ OneOwner /\ RegisteredIsKnown /\ KnownIsNotStopped /\ SilenceIsBeingMended

\* A pointer BASS has leads to a channel some shared_ptr keeps.
LEMMA CoreSuffices == CoreInv => BridgeInv
BY DEF CoreInv, BridgeInv, DspIsOfItsHandle, TickOrder, DspTargetIsAlive, Alive

\* Each part of the invariant speaks of some of the variables only.
LEMMA PartsKept ==
  /\ ShutdownIsAlone /\ UNCHANGED <<gamePc, call, callback>> => ShutdownIsAlone'
  /\ CallSteps /\ UNCHANGED <<call>> => CallSteps'
  /\ HasHandle /\ UNCHANGED <<channel, used>> => HasHandle'
  /\ OneHandle /\ UNCHANGED <<table, channel, call, pendingUnregister, dead>> => OneHandle'
  /\ DspIsOfItsHandle /\ UNCHANGED <<stream, dsp, channel, table, gamePc, dead, call, callback>> =>
       DspIsOfItsHandle'
  /\ TickOrder /\ UNCHANGED <<dead, keptChannels, seen, liveChannels, gamePc, deadStale, table, pendingUnregister,
       hooked, instance, call, dsp>> => TickOrder'
  /\ OneOwner /\ UNCHANGED <<channel, used, stale, deadStale, waiting, rendered, finished, offered, made>> =>
       OneOwner'
  /\ RegisteredIsKnown /\ UNCHANGED <<channel, used, table, pendingUnregister, dead, waiting, rendered, eos, stop>>
       => RegisteredIsKnown'
  /\ KnownIsNotStopped /\ UNCHANGED <<used, table, call, channel, stop>> => KnownIsNotStopped'
  /\ SilenceIsBeingMended /\ UNCHANGED <<stream, dsp, instance, channel, eos, finished, turnedAway, overtaken,
       call>> => SilenceIsBeingMended'
<1>1. ShutdownIsAlone /\ UNCHANGED <<gamePc, call, callback>> => ShutdownIsAlone'
  BY DEF ShutdownIsAlone
<1>2. CallSteps /\ UNCHANGED <<call>> => CallSteps'
  BY DEF CallSteps
<1>3. HasHandle /\ UNCHANGED <<channel, used>> => HasHandle'
  BY DEF HasHandle
<1>4. OneHandle /\ UNCHANGED <<table, channel, call, pendingUnregister, dead>> => OneHandle'
  BY DEF OneHandle, InTable, Out, BeingInserted
<1>5. DspIsOfItsHandle /\ UNCHANGED <<stream, dsp, channel, table, gamePc, dead, call, callback>> =>
       DspIsOfItsHandle'
  BY DEF DspIsOfItsHandle
<1>6. TickOrder /\ UNCHANGED <<dead, keptChannels, seen, liveChannels, gamePc, deadStale, table, pendingUnregister,
       hooked, instance, call, dsp>> => TickOrder'
  BY DEF TickOrder, InTable, NothingSeen
<1>7. OneOwner /\ UNCHANGED <<channel, used, stale, deadStale, waiting, rendered, finished, offered, made>> =>
       OneOwner'
  BY DEF OneOwner
<1>8. RegisteredIsKnown /\ UNCHANGED <<channel, used, table, pendingUnregister, dead, waiting, rendered, eos, stop>>
       => RegisteredIsKnown'
  BY DEF RegisteredIsKnown, InTable
<1>9. KnownIsNotStopped /\ UNCHANGED <<used, table, call, channel, stop>> => KnownIsNotStopped'
  BY DEF KnownIsNotStopped, InTable, Out, BeingInserted
<1>10. SilenceIsBeingMended /\ UNCHANGED <<stream, dsp, instance, channel, eos, finished, turnedAway, overtaken,
       call>> => SilenceIsBeingMended'
  BY DEF SilenceIsBeingMended, Silenced, Live, BeingPlayed
<1> QED
  BY <1>1, <1>2, <1>3, <1>4, <1>5, <1>6, <1>7, <1>8, <1>9, <1>10

LEMMA NoCallFields ==
  NoCall.pc = "out" /\ NoCall.op = Absent /\ NoCall.channel = Absent /\ NoCall.handle = Absent
BY DEF NoCall

\* Which handle a channel is of never changes once it is known.
HandlesKept == \A c \in BassChannels : channel'[c].handle = channel[c].handle

\* Pointers stay or go, with the record that explains them.
LEMMA DspKept ==
  ASSUME DspIsOfItsHandle, HandlesKept, \A h \in BassHandles : dsp[h] \in BassChannels \union {Absent},
         \A h \in BassHandles : dsp'[h] \in {dsp[h], Absent} /\ (stream'[h] = Absent => dsp'[h] = Absent),
         \A h \in BassHandles : dsp'[h] # Absent =>
           /\ table[h] = dsp[h] => table'[h] = table[h]
           /\ gamePc = "retire" /\ dsp[h] \in dead => gamePc' = "retire" /\ dsp[h] \in dead',
         callback' # Absent => \E h \in BassHandles : dsp'[h] = callback',
         \A u \in Callers : call[u].pc = "insert" => call'[u] = call[u],
         \A u \in Callers : call'[u].pc \in {"insert", "play"} => dsp'[call'[u].handle] \in {call'[u].channel, Absent}
  PROVE  DspIsOfItsHandle'
<1>1. \A h \in BassHandles : dsp'[h] # Absent => dsp'[h] = dsp[h] /\ channel'[dsp'[h]].handle = h
  BY DEF DspIsOfItsHandle, HandlesKept
<1>2. ASSUME NEW h \in BassHandles, dsp'[h] # Absent
      PROVE  \/ table'[h] = dsp'[h] \/ (gamePc' = "retire" /\ dsp'[h] \in dead')
             \/ \E u \in Callers : call'[u].pc = "insert" /\ call'[u].handle = h /\ call'[u].channel = dsp'[h]
  <2>1. CASE table[h] = dsp[h]
    BY <1>1, <1>2, <2>1
  <2>2. CASE gamePc = "retire" /\ dsp[h] \in dead
    BY <1>1, <1>2, <2>2
  <2>3. CASE \E u \in Callers : call[u].pc = "insert" /\ call[u].handle = h /\ call[u].channel = dsp[h]
    BY <1>1, <1>2, <2>3
  <2> QED
    BY <1>1, <1>2, <2>1, <2>2, <2>3 DEF DspIsOfItsHandle
<1> QED
  BY <1>1, <1>2 DEF DspIsOfItsHandle

\* While a call is in the bridge, the game thread is not behind Shutdown's wait
\* and the detours are enabled or just being removed.
LEMMA GameWaits ==
  ASSUME ShutdownIsAlone, TickOrder, NEW t \in Callers, call[t] # NoCall,
         UNCHANGED <<gamePc, callback, dead, keptChannels, seen, liveChannels, deadStale, table, pendingUnregister, hooked, instance>>
  PROVE  ShutdownIsAlone' /\ TickOrder'
<1>1. gamePc \notin {"retire", "down"} /\ (hooked \/ gamePc = "unhook")
  BY DEF ShutdownIsAlone, TickOrder
<1>2. ShutdownIsAlone'
  BY <1>1 DEF ShutdownIsAlone
<1>3. TickOrder'
  BY <1>1 DEF TickOrder, InTable
<1> QED
  BY <1>2, <1>3

\* One call moves that inserts nothing.
LEMMA OneHandleKept ==
  ASSUME OneHandle, BridgeTypeOK, CallSteps, HandlesKept,
         NEW t \in Callers, UNCHANGED <<table, pendingUnregister, dead>>,
         \A u \in Callers \ {t} : call'[u] = call[u],
         call[t].pc # "insert", call'[t].pc # "insert", call'[t].pc = "end" => Out(call'[t].channel),
         \A u \in Callers : call[u].pc = "insert" =>
           call[u].handle # call'[t].handle /\ call[u].channel # call'[t].channel
  PROVE  OneHandle' /\ \A c : Out(c)' <=> Out(c)
<1>1. \A u \in Callers : (call[u].pc = "insert" \/ call'[u].pc = "insert") => u # t /\ call'[u] = call[u]
  OBVIOUS
<1>2. \A c : (InTable(c)' <=> InTable(c)) /\ (BeingInserted(c)' <=> BeingInserted(c))
  BY <1>1 DEF InTable, BeingInserted
<1>3. \A c : Out(c)' <=> Out(c)
  BY <1>2 DEF Out
<1>4. \A u \in Callers : call'[u].pc = "insert" =>
        /\ channel'[call'[u].channel].handle = call'[u].handle /\ ~InTable(call[u].channel)'
        /\ \A v \in Callers \ {u} : call'[v].handle # call'[u].handle /\ call'[v].channel # call'[u].channel
  <2> TAKE u \in Callers
  <2> HAVE call'[u].pc = "insert"
  <2>1. u # t /\ call'[u] = call[u] /\ call[u].pc = "insert"
    BY <1>1
  <2>2. channel[call[u].channel].handle = call[u].handle /\ ~InTable(call[u].channel)
    BY <2>1 DEF OneHandle
  <2>7. call[u].channel \in BassChannels
    BY <2>1 DEF BridgeTypeOK, CallSteps
  <2>3. ASSUME NEW v \in Callers \ {u} PROVE call'[v].handle # call[u].handle /\ call'[v].channel # call[u].channel
    BY <2>1 DEF OneHandle
  <2>4. PICK c : c = call'[u].channel
    OBVIOUS
  <2>5. ~InTable(c) /\ ~InTable(c)'
    BY <1>2, <2>1, <2>2, <2>4
  <2>6. ~InTable(call[u].channel)'
    BY <2>4, <2>5 DEF InTable
  <2> QED
    BY <2>1, <2>2, <2>3, <2>6, <2>7 DEF HandlesKept
<1>5. \A u \in Callers : call'[u].pc = "end" => Out(call[u].channel)'
  <2> TAKE u \in Callers
  <2> HAVE call'[u].pc = "end"
  <2>1. PICK c : c = call'[u].channel
    OBVIOUS
  <2>2. Out(c)
    BY <2>1 DEF OneHandle
  <2>3. Out(c)'
    BY <1>3, <2>2
  <2> QED
    BY <2>1, <2>3 DEF Out, InTable, BeingInserted
<1>6. \A h \in BassHandles : table'[h] # Absent => channel'[table'[h]].handle = h
  <2>1. \A h \in BassHandles : table'[h] = table[h] /\ table[h] \in BassChannels \union {Absent}
    BY DEF BridgeTypeOK
  <2> QED
    BY <2>1 DEF OneHandle, HandlesKept
<1>7. \A c \in (pendingUnregister \union dead)' : Out(c)'
  BY <1>3 DEF OneHandle
<1> QED
  BY <1>3, <1>4, <1>5, <1>6, <1>7 DEF OneHandle

\* What the call of one thread must be for CallSteps to go on.
StepOf(c) ==
  /\ c.op = Absent => c = NoCall
  /\ c.op = "create" => c.pc \in {"begin", "insert"}
  /\ c.op = "free" => c.pc \in {"begin", "erase", "end", "free"}
  /\ c.op = "play" => c.pc \in {"begin", "find", "play"}
  /\ c.op \in {"free", "play"} => c.handle # Absent
  /\ c.pc = "insert" => c.op = "create" /\ c.handle # Absent
  /\ c.pc \in {"insert", "end", "play"} <=> c.channel # Absent

LEMMA CallStepsKept ==
  ASSUME CallSteps, NEW t \in Callers, \A u \in Callers \ {t} : call'[u] = call[u], StepOf(call'[t])
  PROVE  CallSteps'
<1>1. \A u \in Callers : StepOf(call[u])
  BY DEF CallSteps, StepOf
<1>2. \A u \in Callers : StepOf(call'[u])
  BY <1>1
<1> QED
  BY <1>2 DEF CallSteps, StepOf

LEMMA NoCallSteps == StepOf(NoCall)
BY NoCallFields DEF StepOf, Absent

\* A call under way takes a step that neither inserts a channel nor touches what
\* the game thread works on.
Moves(t) ==
  /\ call[t] # NoCall /\ call[t].pc # "insert"
  /\ \A u \in Callers \ {t} : call'[u] = call[u]
  /\ StepOf(call'[t]) /\ call'[t].pc # "insert"
  /\ call'[t].pc = "end" => Out(call'[t].channel)
  /\ \A u \in Callers : call[u].pc = "insert" => call[u].handle # call'[t].handle /\ call[u].channel # call'[t].channel
  /\ HandlesKept
  /\ UNCHANGED <<table, pendingUnregister, dead, gamePc, callback, keptChannels, seen, liveChannels, deadStale,
                 hooked, instance>>

LEMMA CallMoves ==
  ASSUME CoreInv, NEW t \in Callers, Moves(t)
  PROVE  /\ ShutdownIsAlone' /\ TickOrder' /\ OneHandle' /\ CallSteps'
         /\ \A c : Out(c)' <=> Out(c)
         /\ \A u \in Callers : call[u].pc = "insert" => call'[u] = call[u]
<1>1. ShutdownIsAlone' /\ TickOrder'
  BY GameWaits DEF CoreInv, Moves
<1>2. OneHandle' /\ \A c : Out(c)' <=> Out(c)
  BY OneHandleKept DEF CoreInv, Moves
<1>3. CallSteps'
  BY CallStepsKept DEF CoreInv, Moves
<1>4. \A u \in Callers : call[u].pc = "insert" => call'[u] = call[u]
  BY DEF Moves
<1> QED
  BY <1>1, <1>2, <1>3, <1>4

LEMMA KnownKept ==
  ASSUME KnownIsNotStopped, UNCHANGED <<used, channel, stop>>, \A c : Out(c)' <=> Out(c)
  PROVE  KnownIsNotStopped'
BY DEF KnownIsNotStopped

\* Past its first step a call has a handle, and a channel when it says so.
LEMMA CallHas ==
  ASSUME BridgeAssumption, BridgeTypeOK, CallSteps, NEW u \in Callers
  PROVE  /\ call[u].pc \in {"insert", "erase", "end", "free", "find", "play"} => call[u].handle \in BassHandles
         /\ call[u].pc \in {"insert", "end", "play"} => call[u].channel \in used /\ call[u].channel # Absent
         /\ call[u].pc \notin {"insert", "end", "play"} => call[u].channel = Absent
<1>1. call[u].handle \in BassHandles \union {Absent} /\ call[u].channel \in used \union {Absent}
  BY DEF BridgeTypeOK
<1>2. call[u].pc \in {"insert", "end", "play"} <=> call[u].channel # Absent
  BY DEF CallSteps
<1>3. call[u].pc \in {"insert", "erase", "end", "free", "find", "play"} => call[u].handle # Absent
  <2>1. call[u].op \in {Absent, "create", "free", "play"}
    BY DEF BridgeTypeOK
  <2>2. call[u].op = Absent => call[u].pc = "out"
    BY NoCallFields DEF CallSteps
  <2>3. call[u].op = "create" => call[u].pc \in {"begin", "insert"}
    BY DEF CallSteps
  <2>4. call[u].pc = "insert" \/ call[u].op \in {"free", "play"} => call[u].handle # Absent
    BY DEF CallSteps
  <2> QED
    BY <2>1, <2>2, <2>3, <2>4
<1> QED
  BY <1>1, <1>2, <1>3

\* Before Shutdown retires them, a channel BASS points to is known, has a source
\* that has not been told to stop, and shares it with nobody.
LEMMA DspIsKnown ==
  ASSUME BridgeAssumption, CoreInv, gamePc # "retire", NEW h \in BassHandles, dsp[h] # Absent
  PROVE  /\ dsp[h] \in used /\ ~Out(dsp[h])
         /\ channel[dsp[h]].source \notin stop \union {Absent}
         /\ \A c \in used : c # dsp[h] => channel[c].source # channel[dsp[h]].source
<1>1. dsp[h] \in used
  BY DEF CoreInv, BridgeTypeOK
<1>2. ~Out(dsp[h])
  BY DEF CoreInv, DspIsOfItsHandle, Out, InTable, BeingInserted
<1>3. channel[dsp[h]].source \notin stop \union {Absent}
  BY <1>1, <1>2 DEF CoreInv, KnownIsNotStopped
<1> QED
  BY <1>1, <1>2, <1>3 DEF CoreInv, OneOwner

\* RetireChannel, and the loop over the dead in Tick, take a channel's source.
LEMMA GivesUp ==
  ASSUME BridgeTypeOK, NEW c \in BassChannels, made' = made,
         channel' = [channel EXCEPT ![c].source = Absent, ![c].registered = FALSE]
  PROVE  /\ channel' \in [BassChannels -> [handle : BassHandles \union {Absent}, source : made' \union {Absent},
                                           registered : BOOLEAN, rejected : BOOLEAN]]
         /\ channel'[c].source = Absent /\ channel'[c].registered = FALSE
         /\ channel'[c].handle = channel[c].handle /\ channel'[c].rejected = channel[c].rejected
         /\ \A d \in BassChannels : d # c => channel'[d] = channel[d]
         /\ HandlesKept
<1>1. PICK r : r = [channel[c] EXCEPT !.source = Absent, !.registered = FALSE]
  OBVIOUS
<1>2. /\ r \in [handle : BassHandles \union {Absent}, source : made \union {Absent}, registered : BOOLEAN, rejected : BOOLEAN]
      /\ r.source = Absent /\ r.registered = FALSE /\ r.handle = channel[c].handle /\ r.rejected = channel[c].rejected
  BY ZenonT(30), <1>1 DEF BridgeTypeOK
<1>3. channel' = [channel EXCEPT ![c] = r]
  BY <1>1
<1>4. channel \in [BassChannels -> [handle : BassHandles \union {Absent}, source : made \union {Absent},
                                    registered : BOOLEAN, rejected : BOOLEAN]]
  BY DEF BridgeTypeOK
<1>5. \A d \in BassChannels : d # c => channel'[d] = channel[d]
  BY <1>3, <1>4
<1>6. channel'[c] = r
  BY <1>3, <1>4
<1> QED
  BY <1>2, <1>3, <1>4, <1>5, <1>6 DEF HandlesKept

\* A call moves and nothing else does: it may neither take over a pointer that is
\* not its channel's nor give up on a silent stream.
LEMMA OnlyCallMoves ==
  ASSUME BridgeAssumption, CoreInv, NEW t \in Callers, call' \in [Callers -> CallRecords(used')], Moves(t),
         UNCHANGED <<stream, dsp, instance, hooked, table, pendingUnregister, stale, channel, used, calls, callback,
                     made, eos, stop, finished, queued, waiting, rendered, turnedAway, gamePc, dead, deadStale,
                     liveChannels, seen, keptChannels, overtaken, offered>>,
         call'[t].pc = "play" => dsp[call'[t].handle] \in {call'[t].channel, Absent},
         \A h \in BassHandles : Silenced(h) /\ call[t].op = "play" /\ call[t].handle = h /\ call[t].pc \in {"find", "play"} =>
           call'[t].op = "play" /\ call'[t].handle = h /\ call'[t].pc \in {"find", "play"}
  PROVE  CoreInv'
<1> USE DEF CoreInv
<1>1. \A u \in Callers \ {t} : call'[u] = call[u]
  BY DEF Moves
<1>2. /\ ShutdownIsAlone' /\ TickOrder' /\ OneHandle' /\ CallSteps'
      /\ \A c : Out(c)' <=> Out(c)
      /\ \A u \in Callers : call[u].pc = "insert" => call'[u] = call[u]
  BY CallMoves
<1>3. BridgeTypeOK'
  BY DEF BridgeTypeOK, CallRecords
<1>4. HasHandle' /\ OneOwner' /\ RegisteredIsKnown'
  BY PartsKept
<1>5. KnownIsNotStopped'
  BY <1>2, KnownKept
<1>6. DspIsOfItsHandle'
  <2>1. \A h \in BassHandles : dsp'[h] \in {dsp[h], Absent} /\ (stream'[h] = Absent => dsp'[h] = Absent)
    BY DEF DspIsOfItsHandle
  <2>2. callback' # Absent => \E h \in BassHandles : dsp'[h] = callback'
    BY DEF DspIsOfItsHandle
  <2>3. \A u \in Callers : call'[u].pc \in {"insert", "play"} => dsp'[call'[u].handle] \in {call'[u].channel, Absent}
    BY <1>1 DEF DspIsOfItsHandle, Moves
  <2>4. HandlesKept /\ \A h \in BassHandles : dsp[h] \in BassChannels \union {Absent}
    BY DEF HandlesKept, BridgeTypeOK
  <2> QED
    BY <1>2, <2>1, <2>2, <2>3, <2>4, DspKept
<1>7. SilenceIsBeingMended'
  <2>1. SUFFICES ASSUME NEW h \in BassHandles, Silenced(h)'
                 PROVE  channel[dsp[h]].source \in turnedAway \/ dsp[h] \in overtaken \/ BeingPlayed(h)'
    BY DEF SilenceIsBeingMended
  <2>2. Silenced(h)
    BY <2>1 DEF Silenced, Live
  <2>3. CASE BeingPlayed(h)
    <3>1. PICK u \in Callers : call[u].op = "play" /\ call[u].handle = h /\ call[u].pc \in {"find", "play"}
      BY <2>3 DEF BeingPlayed
    <3>2. call'[u].op = "play" /\ call'[u].handle = h /\ call'[u].pc \in {"find", "play"}
      BY <1>1, <2>2, <3>1
    <3> QED
      BY <3>2 DEF BeingPlayed
  <2> QED
    BY <2>2, <2>3 DEF SilenceIsBeingMended
<1> QED
  BY <1>2, <1>3, <1>4, <1>5, <1>6, <1>7

-------------------------------------------------------------------------------
(* Each action keeps CoreInv.                                              *)

\* A call enters the bridge.
LEMMA BassCallStep ==
  ASSUME BridgeAssumption, CoreInv, NEW t \in Callers, NEW op \in {"create", "free", "play"},
         NEW h \in BassHandles \union {Absent}, NEW flag \in BOOLEAN, op = "create" <=> h = Absent,
         BassCall(t, op, h, flag)
  PROVE  CoreInv'
<1> USE DEF CoreInv
<1>1. UNCHANGED <<stream, dsp, instance, hooked, table, pendingUnregister, stale, channel, used, callback, made,
                  eos, stop, finished, queued, waiting, rendered, turnedAway, gamePc, dead, deadStale, liveChannels,
                  seen, keptChannels, overtaken, offered>>
  BY DEF BassCall, bassVars, hookVars, tableVars, channelVars, callVars, flagVars, pipeVars, tickVars
<1>2. /\ call' \in [Callers -> CallRecords(used')]
      /\ \A u \in Callers \ {t} : call'[u] = call[u]
      /\ call'[t].op = op /\ call'[t].pc = "begin"
      /\ call'[t].handle = h /\ call'[t].channel = Absent
  <2>1. call \in [Callers -> CallRecords(used)] /\ used' \subseteq BassChannels /\ used \subseteq used'
    BY <1>1 DEF BridgeTypeOK, CallRecords, BassCall
  <2>2. PICK r : r = [op |-> op, pc |-> "begin", handle |-> h, channel |-> Absent, flag |-> flag]
    OBVIOUS
  <2>3. /\ r \in CallRecords(used')
        /\ r.op = op /\ r.pc = "begin"
        /\ r.handle = h /\ r.channel = Absent
    BY <1>1, <2>1, <2>2 DEF CallRecords, NoCall, BassCall, CallSteps
  <2>4. call' = [call EXCEPT ![t] = r]
    BY <2>1, <2>2 DEF BassCall
  <2> QED
    BY <2>1, <2>3, <2>4 DEF CallRecords
<1>3. \A u \in Callers \ {t} : call'[u] = call[u]
  BY <1>2
<1>4. /\ call'[t].op = op /\ call'[t].pc = "begin"
      /\ call'[t].handle = h /\ call'[t].channel = Absent
  BY <1>2, Zenon
<1>5. call[t] = NoCall /\ call[t].pc = "out" /\ call[t].op = Absent /\ call[t].channel = Absent
  BY DEF BassCall, NoCall
<1>6. hooked /\ gamePc \notin {"retire", "down", "unhook"}
  BY DEF BassCall, TickOrder
<1>7. \A u \in Callers : call[u].pc = "insert" => call[u].handle # h
  BY DEF BassCall, Unknown
<1>8. BridgeTypeOK'
  <2>1. call' \in [Callers -> CallRecords(used')]
    BY <1>1, <1>3, <1>4, <1>5, <1>6, <1>7, <1>2 DEF BridgeTypeOK, BassCall, CallRecords
  <2>2. calls' \in 0 .. MaxBassCalls
    BY <1>1, <1>3, <1>4, <1>5, <1>6, <1>7 DEF BridgeTypeOK, BassCall, CallRecords
  <2> QED
    BY <1>1, <2>1, <2>2 DEF BridgeTypeOK, CallRecords
<1>9. HasHandle' /\ OneOwner' /\ RegisteredIsKnown'
  BY <1>1, PartsKept
<1>10. ShutdownIsAlone'
  BY <1>1, <1>3, <1>4, <1>5, <1>6, <1>7, <1>8
     DEF BridgeTypeOK, BridgeAssumption, CallSteps, ShutdownIsAlone, BassCall
<1>11. CallSteps'
  BY <1>1, <1>3, <1>4, <1>5, <1>6, <1>7, <1>8 DEF BridgeTypeOK, BridgeAssumption, CallSteps, BassCall
<1>12. OneHandle'
  BY <1>1, <1>3, <1>4, <1>5, <1>6, <1>7, <1>8
     DEF BridgeTypeOK, BridgeAssumption, CallSteps, OneHandle, InTable, Out, BeingInserted, BassCall
<1>13. DspIsOfItsHandle'
  <2>1. \A u \in Callers : call[u].pc = "insert" => call'[u] = call[u]
    BY <1>3, <1>5
  <2>2. \A u \in Callers : call'[u].pc \in {"insert", "play"} => dsp'[call'[u].handle] \in {call'[u].channel, Absent}
    BY <1>1, <1>3, <1>4 DEF DspIsOfItsHandle
  <2>3. HandlesKept /\ \A g \in BassHandles : dsp[g] \in BassChannels \union {Absent}
    BY <1>1 DEF HandlesKept, BridgeTypeOK
  <2>4. \A g \in BassHandles : dsp'[g] \in {dsp[g], Absent} /\ (stream'[g] = Absent => dsp'[g] = Absent)
    BY <1>1 DEF DspIsOfItsHandle
  <2>5. callback' # Absent => \E g \in BassHandles : dsp'[g] = callback'
    BY <1>1 DEF DspIsOfItsHandle
  <2> QED
    BY <1>1, <2>1, <2>2, <2>3, <2>4, <2>5, DspKept
<1>14. TickOrder'
  BY <1>1, <1>3, <1>4, <1>5, <1>6, <1>7, <1>8
     DEF BridgeTypeOK, BridgeAssumption, CallSteps, TickOrder, InTable, NothingSeen, BassCall
<1>15. KnownIsNotStopped'
  BY <1>1, <1>3, <1>4, <1>5, <1>6, <1>7, <1>8
     DEF BridgeTypeOK, BridgeAssumption, CallSteps, KnownIsNotStopped, InTable, Out, BeingInserted, BassCall
<1>16. SilenceIsBeingMended'
  <2>1. ASSUME NEW g \in BassHandles, Silenced(g)' PROVE Silenced(g)
    BY <1>1, <2>1 DEF Silenced, Live
  <2>2. ASSUME NEW g \in BassHandles, BeingPlayed(g) PROVE BeingPlayed(g)'
    <3>1. PICK u \in Callers : call[u].op = "play" /\ call[u].handle = g /\ call[u].pc \in {"find", "play"}
      BY <2>2 DEF BeingPlayed
    <3>2. call'[u] = call[u]
      BY <1>3, <1>5, <3>1
    <3> QED
      BY <3>1, <3>2 DEF BeingPlayed
  <2> QED
    BY <1>1, <2>1, <2>2 DEF SilenceIsBeingMended
<1> QED
  BY <1>8, <1>9, <1>10, <1>11, <1>12, <1>13, <1>14, <1>15, <1>16

\* BASS_StreamFree reads whether the stream plays.
LEMMA LookAtStateStep ==
  ASSUME BridgeAssumption, CoreInv, NEW t \in Callers, LookAtState(t)
  PROVE  CoreInv'
<1> USE DEF CoreInv
<1>1. UNCHANGED <<stream, dsp, instance, hooked, table, pendingUnregister, stale, channel, used, calls, callback,
                  made, eos, stop, finished, queued, waiting, rendered, turnedAway, gamePc, dead, deadStale,
                  liveChannels, seen, keptChannels, overtaken, offered>>
  BY DEF LookAtState, CallOnlyMoves, CallKeeps, bassVars, hookVars, tableVars, channelVars, callVars, flagVars,
         pipeVars, tickVars
<1>2. /\ call' \in [Callers -> CallRecords(used')]
      /\ \A u \in Callers \ {t} : call'[u] = call[u]
      /\ call'[t].op = "free" /\ call'[t].pc = "erase"
      /\ call'[t].handle = call[t].handle /\ call'[t].channel = call[t].channel
  <2>1. call \in [Callers -> CallRecords(used)] /\ used' \subseteq BassChannels /\ used \subseteq used'
    BY <1>1 DEF BridgeTypeOK, CallRecords, LookAtState, CallOnlyMoves, CallKeeps
  <2>2. PICK r : r = [call[t] EXCEPT !.pc = "erase", !.flag = stream[call[t].handle] = "playing"]
    OBVIOUS
  <2>3. /\ r \in CallRecords(used')
        /\ r.op = "free" /\ r.pc = "erase"
        /\ r.handle = call[t].handle /\ r.channel = call[t].channel
    BY <1>1, <2>1, <2>2 DEF CallRecords, NoCall, LookAtState, CallSteps
  <2>4. call' = [call EXCEPT ![t] = r]
    BY <2>1, <2>2 DEF LookAtState, CallOnlyMoves, CallKeeps
  <2> QED
    BY <2>1, <2>3, <2>4 DEF CallRecords
<1>3. \A u \in Callers \ {t} : call'[u] = call[u]
  BY <1>2
<1>4. /\ call'[t].op = "free" /\ call'[t].pc = "erase"
      /\ call'[t].handle = call[t].handle /\ call'[t].channel = call[t].channel
  BY <1>2, Zenon
<1>5. call[t] # NoCall /\ call[t].op = "free" /\ call[t].pc = "begin"
  BY NoCallFields DEF LookAtState, Absent
<1>6. call[t].handle # Absent /\ call[t].channel = Absent
  BY <1>5 DEF CallSteps
<1>7. Moves(t)
  <2>1. StepOf(call'[t])
    BY <1>3, <1>4, <1>5, <1>6 DEF StepOf, Absent
  <2>2. /\ call[t] # NoCall /\ call[t].pc # "insert" /\ call'[t].pc # "insert"
        /\ \A u \in Callers \ {t} : call'[u] = call[u]
    BY <1>3, <1>4, <1>5, <1>6, NoCallFields
  <2>3. call'[t].pc = "end" => Out(call'[t].channel)
    BY <1>3, <1>4, <1>5, <1>6
  <2>4. \A u \in Callers : call[u].pc = "insert" => call[u].handle # call'[t].handle /\ call[u].channel # call'[t].channel
    BY <1>3, <1>4, <1>5, <1>6, <2>2 DEF OneHandle, CallSteps
  <2> QED
    BY <1>1, <2>1, <2>2, <2>3, <2>4 DEF Moves, HandlesKept
<1>8. call'[t].pc = "play" => dsp[call'[t].handle] \in {call'[t].channel, Absent}
  BY <1>3, <1>4, <1>5, <1>6 DEF DspIsOfItsHandle
<1>9. \A h \in BassHandles : Silenced(h) /\ call[t].op = "play" /\ call[t].handle = h /\ call[t].pc \in {"find", "play"} =>
         call'[t].op = "play" /\ call'[t].handle = h /\ call'[t].pc \in {"find", "play"}
  BY <1>3, <1>4, <1>5, <1>6 DEF Silenced
<1> QED
  BY <1>1, <1>2, <1>7, <1>8, <1>9, OnlyCallMoves

\* BASS_ChannelPlay on a stream the table does not have.
LEMMA FindNothingStep ==
  ASSUME BridgeAssumption, CoreInv, NEW t \in Callers, FindChannel(t), table[call[t].handle] = Absent
  PROVE  CoreInv'
<1> USE DEF CoreInv
<1>1. UNCHANGED <<stream, dsp, instance, hooked, table, pendingUnregister, stale, channel, used, calls, callback,
                  made, eos, stop, finished, queued, waiting, rendered, turnedAway, gamePc, dead, deadStale,
                  liveChannels, seen, keptChannels, overtaken, offered>>
  BY DEF FindChannel, CallOnlyMoves, CallKeeps, Returns, bassVars, hookVars, tableVars, channelVars, callVars,
         flagVars, pipeVars, tickVars
<1>2. /\ call' \in [Callers -> CallRecords(used')]
      /\ \A u \in Callers \ {t} : call'[u] = call[u]
      /\ call'[t] = NoCall
      /\ call'[t].pc = "out" /\ call'[t].op = Absent /\ call'[t].channel = Absent /\ call'[t].handle = Absent
  <2>1. call \in [Callers -> CallRecords(used)] /\ used' \subseteq BassChannels /\ used \subseteq used'
    BY <1>1 DEF BridgeTypeOK, CallRecords, FindChannel, CallOnlyMoves, CallKeeps, Returns
  <2>2. PICK r : r = NoCall
    OBVIOUS
  <2>3. /\ r \in CallRecords(used')
        /\ r = NoCall
        /\ r.pc = "out" /\ r.op = Absent /\ r.channel = Absent /\ r.handle = Absent
    BY <1>1, <2>1, <2>2 DEF CallRecords, NoCall, FindChannel, CallSteps
  <2>4. call' = [call EXCEPT ![t] = r]
    BY <2>1, <2>2 DEF FindChannel, CallOnlyMoves, CallKeeps, Returns
  <2> QED
    BY <2>1, <2>3, <2>4 DEF CallRecords
<1>3. \A u \in Callers \ {t} : call'[u] = call[u]
  BY <1>2
<1>4. /\ call'[t] = NoCall
      /\ call'[t].pc = "out" /\ call'[t].op = Absent /\ call'[t].channel = Absent /\ call'[t].handle = Absent
  BY <1>2, Zenon
<1>5. call[t].op = "play" /\ call[t].pc = "find"
  BY DEF FindChannel
<1>6. call[t].handle \in BassHandles
  BY <1>5 DEF BridgeTypeOK, CallSteps
<1>7. gamePc \notin {"retire", "down"}
  BY <1>5, NoCallFields DEF ShutdownIsAlone
<1>8. dsp[call[t].handle] = Absent
  BY <1>5, <1>6, <1>7 DEF DspIsOfItsHandle, OneHandle, FindChannel
<1>9. Moves(t)
  <2>1. StepOf(call'[t])
    BY <1>3, <1>4, <1>5, <1>6, <1>7, <1>8, NoCallSteps
  <2>2. /\ call[t] # NoCall /\ call[t].pc # "insert" /\ call'[t].pc # "insert"
        /\ \A u \in Callers \ {t} : call'[u] = call[u]
    BY <1>3, <1>4, <1>5, <1>6, <1>7, <1>8, NoCallFields
  <2>3. call'[t].pc = "end" => Out(call'[t].channel)
    BY <1>3, <1>4, <1>5, <1>6, <1>7, <1>8
  <2>4. \A u \in Callers : call[u].pc = "insert" => call[u].handle # call'[t].handle /\ call[u].channel # call'[t].channel
    BY <1>3, <1>4, <1>5, <1>6, <1>7, <1>8, <2>2 DEF OneHandle, CallSteps
  <2> QED
    BY <1>1, <2>1, <2>2, <2>3, <2>4 DEF Moves, HandlesKept
<1>10. call'[t].pc = "play" => dsp[call'[t].handle] \in {call'[t].channel, Absent}
  BY <1>3, <1>4, <1>5, <1>6, <1>7, <1>8 DEF DspIsOfItsHandle
<1>11. \A h \in BassHandles : Silenced(h) /\ call[t].op = "play" /\ call[t].handle = h /\ call[t].pc \in {"find", "play"} =>
         call'[t].op = "play" /\ call'[t].handle = h /\ call'[t].pc \in {"find", "play"}
  BY <1>3, <1>4, <1>5, <1>6, <1>7, <1>8 DEF Silenced
<1> QED
  BY <1>1, <1>2, <1>9, <1>10, <1>11, OnlyCallMoves

\* BASS_ChannelPlay takes the channel from the table.
LEMMA FindChannelStep ==
  ASSUME BridgeAssumption, CoreInv, NEW t \in Callers, NEW c \in used, FindChannel(t), table[call[t].handle] = c
  PROVE  CoreInv'
<1> USE DEF CoreInv
<1>1. UNCHANGED <<stream, dsp, instance, hooked, table, pendingUnregister, stale, channel, used, calls, callback,
                  made, eos, stop, finished, queued, waiting, rendered, turnedAway, gamePc, dead, deadStale,
                  liveChannels, seen, keptChannels, overtaken, offered>>
  BY DEF FindChannel, CallOnlyMoves, CallKeeps, Returns, bassVars, hookVars, tableVars, channelVars, callVars,
         flagVars, pipeVars, tickVars
<1>2. c # Absent /\ c \in used'
  BY DEF BridgeTypeOK, BridgeAssumption, FindChannel, CallOnlyMoves, channelVars
<1>3. /\ call' \in [Callers -> CallRecords(used')]
      /\ \A u \in Callers \ {t} : call'[u] = call[u]
      /\ call'[t].op = "play" /\ call'[t].pc = "play"
      /\ call'[t].handle = call[t].handle /\ call'[t].channel = c
  <2>1. call \in [Callers -> CallRecords(used)] /\ used' \subseteq BassChannels /\ used \subseteq used'
    BY <1>1, <1>2 DEF BridgeTypeOK, CallRecords, FindChannel, CallOnlyMoves, CallKeeps, Returns
  <2>2. PICK r : r = [call[t] EXCEPT !.pc = "play", !.channel = c]
    OBVIOUS
  <2>3. /\ r \in CallRecords(used')
        /\ r.op = "play" /\ r.pc = "play"
        /\ r.handle = call[t].handle /\ r.channel = c
    BY <1>1, <1>2, <2>1, <2>2 DEF CallRecords, NoCall, FindChannel, CallSteps
  <2>4. call' = [call EXCEPT ![t] = r]
    BY <2>1, <2>2, <1>2 DEF FindChannel, CallOnlyMoves, CallKeeps, Returns
  <2> QED
    BY <2>1, <2>3, <2>4 DEF CallRecords
<1>4. \A u \in Callers \ {t} : call'[u] = call[u]
  BY <1>3
<1>5. /\ call'[t].op = "play" /\ call'[t].pc = "play"
      /\ call'[t].handle = call[t].handle /\ call'[t].channel = c
  BY <1>3, Zenon
<1>6. call[t].op = "play" /\ call[t].pc = "find"
  BY DEF FindChannel
<1>7. call[t].handle \in BassHandles
  BY <1>6 DEF BridgeTypeOK, CallSteps
<1>8. gamePc \notin {"retire", "down"}
  BY <1>6, NoCallFields DEF ShutdownIsAlone
<1>9. dsp[call[t].handle] \in {c, Absent}
  BY <1>2, <1>6, <1>7, <1>8 DEF DspIsOfItsHandle, OneHandle
<1>10. Moves(t)
  <2>1. StepOf(call'[t])
    BY <1>4, <1>5, <1>2, <1>6, <1>7, <1>8, <1>9 DEF StepOf, Absent, BridgeAssumption
  <2>2. /\ call[t] # NoCall /\ call[t].pc # "insert" /\ call'[t].pc # "insert"
        /\ \A u \in Callers \ {t} : call'[u] = call[u]
    BY <1>4, <1>5, <1>2, <1>6, <1>7, <1>8, <1>9, NoCallFields
  <2>3. call'[t].pc = "end" => Out(call'[t].channel)
    BY <1>4, <1>5, <1>2, <1>6, <1>7, <1>8, <1>9
  <2>4. \A u \in Callers : call[u].pc = "insert" => call[u].handle # call'[t].handle /\ call[u].channel # call'[t].channel
    BY <1>4, <1>5, <1>2, <1>6, <1>7, <1>8, <1>9, <2>2 DEF OneHandle, CallSteps, InTable
  <2> QED
    BY <1>1, <2>1, <2>2, <2>3, <2>4 DEF Moves, HandlesKept
<1>11. call'[t].pc = "play" => dsp[call'[t].handle] \in {call'[t].channel, Absent}
  BY <1>4, <1>5, <1>2, <1>6, <1>7, <1>8, <1>9 DEF DspIsOfItsHandle
<1>12. \A h \in BassHandles : Silenced(h) /\ call[t].op = "play" /\ call[t].handle = h /\ call[t].pc \in {"find", "play"} =>
         call'[t].op = "play" /\ call'[t].handle = h /\ call'[t].pc \in {"find", "play"}
  BY <1>4, <1>5, <1>2, <1>6, <1>7, <1>8, <1>9 DEF Silenced
<1> QED
  BY <1>1, <1>3, <1>10, <1>11, <1>12, OnlyCallMoves

\* The original BASS_ChannelPlay finds no stream.
LEMMA PlayFailsStep ==
  ASSUME BridgeAssumption, CoreInv, NEW t \in Callers, StreamPlayed(t), stream[call[t].handle] = Absent
  PROVE  CoreInv'
<1> USE DEF CoreInv
<1>1. UNCHANGED <<stream, dsp, instance, hooked, table, pendingUnregister, stale, channel, used, calls, callback,
                  made, eos, stop, finished, queued, waiting, rendered, turnedAway, gamePc, dead, deadStale,
                  liveChannels, seen, keptChannels, overtaken, offered>>
  BY DEF StreamPlayed, CallKeeps, Returns, To, bassVars, hookVars, tableVars, channelVars, callVars, flagVars,
         pipeVars, tickVars
<1>2. stream' = stream
  BY DEF StreamPlayed
<1>3. /\ call' \in [Callers -> CallRecords(used')]
      /\ \A u \in Callers \ {t} : call'[u] = call[u]
      /\ call'[t] = NoCall
      /\ call'[t].pc = "out" /\ call'[t].op = Absent /\ call'[t].channel = Absent /\ call'[t].handle = Absent
  <2>1. call \in [Callers -> CallRecords(used)] /\ used' \subseteq BassChannels /\ used \subseteq used'
    BY <1>1, <1>2 DEF BridgeTypeOK, CallRecords, StreamPlayed, CallKeeps, Returns, To
  <2>2. PICK r : r = NoCall
    OBVIOUS
  <2>3. /\ r \in CallRecords(used')
        /\ r = NoCall
        /\ r.pc = "out" /\ r.op = Absent /\ r.channel = Absent /\ r.handle = Absent
    BY <1>1, <1>2, <2>1, <2>2 DEF CallRecords, NoCall, StreamPlayed, CallSteps
  <2>4. call' = [call EXCEPT ![t] = r]
    BY <2>1, <2>2, <1>2 DEF StreamPlayed, CallKeeps, Returns, To
  <2> QED
    BY <2>1, <2>3, <2>4 DEF CallRecords
<1>4. \A u \in Callers \ {t} : call'[u] = call[u]
  BY <1>3
<1>5. /\ call'[t] = NoCall
      /\ call'[t].pc = "out" /\ call'[t].op = Absent /\ call'[t].channel = Absent /\ call'[t].handle = Absent
  BY <1>3, Zenon
<1>6. call[t].op = "play" /\ call[t].pc = "begin"
  BY DEF StreamPlayed
<1>7. call[t].handle \in BassHandles
  BY <1>6 DEF BridgeTypeOK, CallSteps
<1>8. Moves(t)
  <2>1. StepOf(call'[t])
    BY <1>4, <1>5, <1>2, <1>6, <1>7, NoCallSteps
  <2>2. /\ call[t] # NoCall /\ call[t].pc # "insert" /\ call'[t].pc # "insert"
        /\ \A u \in Callers \ {t} : call'[u] = call[u]
    BY <1>4, <1>5, <1>2, <1>6, <1>7, NoCallFields
  <2>3. call'[t].pc = "end" => Out(call'[t].channel)
    BY <1>4, <1>5, <1>2, <1>6, <1>7
  <2>4. \A u \in Callers : call[u].pc = "insert" => call[u].handle # call'[t].handle /\ call[u].channel # call'[t].channel
    BY <1>4, <1>5, <1>2, <1>6, <1>7, <2>2 DEF OneHandle, CallSteps
  <2> QED
    BY <1>1, <2>1, <2>2, <2>3, <2>4 DEF Moves, HandlesKept
<1>9. call'[t].pc = "play" => dsp[call'[t].handle] \in {call'[t].channel, Absent}
  BY <1>4, <1>5, <1>2, <1>6, <1>7 DEF DspIsOfItsHandle
<1>10. \A h \in BassHandles : Silenced(h) /\ call[t].op = "play" /\ call[t].handle = h /\ call[t].pc \in {"find", "play"} =>
         call'[t].op = "play" /\ call'[t].handle = h /\ call'[t].pc \in {"find", "play"}
  BY <1>4, <1>5, <1>2, <1>6, <1>7 DEF Silenced
<1> QED
  BY <1>1, <1>3, <1>8, <1>9, <1>10, OnlyCallMoves

\* The original BASS_ChannelPlay succeeds: a silent stream is now in a call that mends it.
LEMMA StreamPlayedStep ==
  ASSUME BridgeAssumption, CoreInv, NEW t \in Callers, StreamPlayed(t), stream[call[t].handle] # Absent
  PROVE  CoreInv'
<1> USE DEF CoreInv
<1>1. UNCHANGED <<dsp, instance, hooked, table, pendingUnregister, stale, channel, used, calls, callback, made, eos,
                  stop, finished, queued, waiting, rendered, turnedAway, gamePc, dead, deadStale, liveChannels,
                  seen, keptChannels, overtaken, offered>>
  BY DEF StreamPlayed, CallKeeps, Returns, To, bassVars, hookVars, tableVars, channelVars, callVars, flagVars,
         pipeVars, tickVars
<1>2. /\ call' \in [Callers -> CallRecords(used')]
      /\ \A u \in Callers \ {t} : call'[u] = call[u]
      /\ call'[t].op = "play" /\ call'[t].pc = "find"
      /\ call'[t].handle = call[t].handle /\ call'[t].channel = call[t].channel
  <2>1. call \in [Callers -> CallRecords(used)] /\ used' \subseteq BassChannels /\ used \subseteq used'
    BY <1>1 DEF BridgeTypeOK, CallRecords, StreamPlayed, CallKeeps, Returns, To
  <2>2. PICK r : r = [call[t] EXCEPT !.pc = "find"]
    OBVIOUS
  <2>3. /\ r \in CallRecords(used')
        /\ r.op = "play" /\ r.pc = "find"
        /\ r.handle = call[t].handle /\ r.channel = call[t].channel
    BY <1>1, <2>1, <2>2 DEF CallRecords, NoCall, StreamPlayed, CallSteps
  <2>4. call' = [call EXCEPT ![t] = r]
    BY <2>1, <2>2 DEF StreamPlayed, CallKeeps, Returns, To
  <2> QED
    BY <2>1, <2>3, <2>4 DEF CallRecords
<1>3. \A u \in Callers \ {t} : call'[u] = call[u]
  BY <1>2
<1>4. /\ call'[t].op = "play" /\ call'[t].pc = "find"
      /\ call'[t].handle = call[t].handle /\ call'[t].channel = call[t].channel
  BY <1>2, Zenon
<1>5. call[t].op = "play" /\ call[t].pc = "begin"
  BY DEF StreamPlayed
<1>6. call[t].handle \in BassHandles
  BY <1>5 DEF BridgeTypeOK, CallSteps
<1>7. call[t].handle # Absent /\ call[t].channel = Absent
  BY <1>5 DEF CallSteps
<1>8. stream' = [stream EXCEPT ![call[t].handle] = "playing"]
  BY DEF StreamPlayed
<1>9. /\ stream' \in [BassHandles -> States] /\ stream'[call[t].handle] = "playing"
      /\ \A h \in BassHandles : h # call[t].handle => stream'[h] = stream[h]
  BY <1>6, <1>8 DEF BridgeTypeOK, States
<1>10. BridgeTypeOK'
  <2>1. stream' \in [BassHandles -> States]
    BY <1>1, <1>3, <1>4, <1>5, <1>6, <1>7, <1>8, <1>9
       DEF BridgeTypeOK, StreamPlayed, CallKeeps, Returns, To, CallRecords
  <2>2. call' \in [Callers -> CallRecords(used')]
    BY <1>1, <1>3, <1>4, <1>5, <1>6, <1>7, <1>8, <1>9, <1>2
       DEF BridgeTypeOK, StreamPlayed, CallKeeps, Returns, To, CallRecords
  <2> QED
    BY <1>1, <2>1, <2>2 DEF BridgeTypeOK, CallRecords
<1>11. Moves(t)
  <2>1. StepOf(call'[t])
    BY <1>3, <1>4, <1>5, <1>6, <1>7, <1>8, <1>9 DEF StepOf, Absent
  <2>2. call[t] # NoCall /\ call[t].pc # "insert" /\ call'[t].pc # "insert" /\ (\A u \in Callers \ {t} : call'[u] = call[u])
    BY <1>3, <1>4, <1>5, <1>6, <1>7, <1>8, <1>9, NoCallFields
  <2>3. call'[t].pc = "end" => Out(call'[t].channel)
    BY <1>3, <1>4, <1>5, <1>6, <1>7, <1>8, <1>9
  <2>4. \A u \in Callers : call[u].pc = "insert" => call[u].handle # call'[t].handle /\ call[u].channel # call'[t].channel
    BY <1>3, <1>4, <1>5, <1>6, <1>7, <1>8, <1>9, <2>2 DEF OneHandle, CallSteps
  <2>5. HandlesKept
    BY <1>1 DEF HandlesKept
  <2> QED
    BY <1>1, <2>1, <2>2, <2>3, <2>4, <2>5 DEF Moves
<1>12. /\ ShutdownIsAlone' /\ TickOrder' /\ OneHandle' /\ CallSteps'
       /\ \A c : Out(c)' <=> Out(c)
       /\ \A u \in Callers : call[u].pc = "insert" => call'[u] = call[u]
  BY <1>11, CallMoves
<1>13. KnownIsNotStopped'
  BY <1>1, <1>12, KnownKept
<1>14. DspIsOfItsHandle'
  <2>1. \A h \in BassHandles : dsp'[h] \in {dsp[h], Absent} /\ (stream'[h] = Absent => dsp'[h] = Absent)
    BY <1>1, <1>9 DEF DspIsOfItsHandle, Absent
  <2>2. callback' # Absent => \E h \in BassHandles : dsp'[h] = callback'
    BY <1>1 DEF DspIsOfItsHandle
  <2>3. \A u \in Callers : call'[u].pc \in {"insert", "play"} => dsp'[call'[u].handle] \in {call'[u].channel, Absent}
    BY <1>1, <1>3, <1>4, <1>5, <1>6, <1>7, <1>8, <1>9 DEF DspIsOfItsHandle
  <2>4. HandlesKept /\ \A h \in BassHandles : dsp[h] \in BassChannels \union {Absent}
    BY <1>11 DEF Moves, BridgeTypeOK
  <2> QED
    BY <1>1, <1>12, <2>1, <2>2, <2>3, <2>4, DspKept
<1>15. SilenceIsBeingMended'
  <2>1. SUFFICES ASSUME NEW h \in BassHandles, Silenced(h)'
                 PROVE  (channel[dsp[h]].source \in turnedAway)' \/ (dsp[h] \in overtaken)' \/ BeingPlayed(h)'
    BY DEF SilenceIsBeingMended
  <2>2. dsp'[h] = dsp[h] /\ dsp[h] # Absent /\ (Silenced(h) \/ h = call[t].handle)
    BY <1>1, <1>9, <2>1 DEF Silenced, Live
  <2>3. CASE BeingPlayed(h)
    <3>1. PICK u \in Callers : call[u].op = "play" /\ call[u].handle = h /\ call[u].pc \in {"find", "play"}
      BY <2>3 DEF BeingPlayed
    <3>2. call'[u].op = "play" /\ call'[u].handle = h /\ call'[u].pc \in {"find", "play"}
      BY <2>2, <3>1, <1>3, <1>4, <1>5, <1>6, <1>7, <1>8, <1>9
    <3> QED
      BY <3>2 DEF BeingPlayed
  <2>4. h = call[t].handle => BeingPlayed(h)'
    BY <1>4 DEF BeingPlayed
  <2> QED
    BY <1>1, <2>2, <2>3, <2>4 DEF SilenceIsBeingMended
<1>16. HasHandle' /\ OneOwner' /\ RegisteredIsKnown'
  BY <1>1, PartsKept
<1> QED
  BY <1>10, <1>12, <1>13, <1>14, <1>15, <1>16

\* The original BASS_StreamFree.
LEMMA StreamFreedStep ==
  ASSUME BridgeAssumption, CoreInv, NEW t \in Callers, StreamFreed(t)
  PROVE  CoreInv'
<1> USE DEF CoreInv
<1>1. UNCHANGED <<instance, hooked, table, pendingUnregister, stale, channel, used, calls, callback, made, eos,
                  stop, finished, queued, waiting, rendered, turnedAway, gamePc, dead, deadStale, liveChannels,
                  seen, keptChannels, overtaken, offered>>
  BY DEF StreamFreed, CallKeeps, Returns, NotCalledBack, bassVars, hookVars, tableVars, channelVars, callVars,
         flagVars, pipeVars, tickVars
<1>2. /\ call' \in [Callers -> CallRecords(used')]
      /\ \A u \in Callers \ {t} : call'[u] = call[u]
      /\ call'[t] = NoCall
      /\ call'[t].pc = "out" /\ call'[t].op = Absent /\ call'[t].channel = Absent /\ call'[t].handle = Absent
  <2>1. call \in [Callers -> CallRecords(used)] /\ used' \subseteq BassChannels /\ used \subseteq used'
    BY <1>1 DEF BridgeTypeOK, CallRecords, StreamFreed, CallKeeps, Returns, NotCalledBack
  <2>2. PICK r : r = NoCall
    OBVIOUS
  <2>3. /\ r \in CallRecords(used')
        /\ r = NoCall
        /\ r.pc = "out" /\ r.op = Absent /\ r.channel = Absent /\ r.handle = Absent
    BY <1>1, <2>1, <2>2 DEF CallRecords, NoCall, StreamFreed, CallSteps
  <2>4. call' = [call EXCEPT ![t] = r]
    BY <2>1, <2>2 DEF StreamFreed, CallKeeps, Returns, NotCalledBack
  <2> QED
    BY <2>1, <2>3, <2>4 DEF CallRecords
<1>3. \A u \in Callers \ {t} : call'[u] = call[u]
  BY <1>2
<1>4. /\ call'[t] = NoCall
      /\ call'[t].pc = "out" /\ call'[t].op = Absent /\ call'[t].channel = Absent /\ call'[t].handle = Absent
  BY <1>2, Zenon
<1>5. call[t].op = "free" /\ call[t].pc = "free"
  BY DEF StreamFreed
<1>6. call[t].handle \in BassHandles
  BY <1>5 DEF BridgeTypeOK, CallSteps
<1>7. /\ stream' \in [BassHandles -> States] /\ stream'[call[t].handle] = Absent
      /\ dsp'[call[t].handle] = Absent /\ dsp' \in [BassHandles -> used \union {Absent}]
      /\ \A h \in BassHandles : h # call[t].handle => stream'[h] = stream[h] /\ dsp'[h] = dsp[h]
  BY <1>6 DEF StreamFreed, BridgeTypeOK, States
<1>8. dsp[call[t].handle] # Absent => callback # dsp[call[t].handle]
  BY DEF StreamFreed, NotCalledBack
<1>9. BridgeTypeOK'
  <2>1. stream' \in [BassHandles -> States]
    BY <1>1, <1>3, <1>4, <1>5, <1>6, <1>7, <1>8
       DEF BridgeTypeOK, StreamFreed, CallKeeps, Returns, NotCalledBack, CallRecords
  <2>2. dsp' \in [BassHandles -> used' \union {Absent}]
    BY <1>1, <1>3, <1>4, <1>5, <1>6, <1>7, <1>8
       DEF BridgeTypeOK, StreamFreed, CallKeeps, Returns, NotCalledBack, CallRecords
  <2>3. call' \in [Callers -> CallRecords(used')]
    BY <1>1, <1>3, <1>4, <1>5, <1>6, <1>7, <1>8, <1>2
       DEF BridgeTypeOK, StreamFreed, CallKeeps, Returns, NotCalledBack, CallRecords
  <2> QED
    BY <1>1, <2>1, <2>2, <2>3 DEF BridgeTypeOK, CallRecords
<1>10. Moves(t)
  <2>1. StepOf(call'[t])
    BY <1>3, <1>4, <1>5, <1>6, <1>7, <1>8, NoCallSteps
  <2>2. call[t] # NoCall /\ call[t].pc # "insert" /\ call'[t].pc # "insert" /\ (\A u \in Callers \ {t} : call'[u] = call[u])
    BY <1>3, <1>4, <1>5, <1>6, <1>7, <1>8, NoCallFields
  <2>3. call'[t].pc = "end" => Out(call'[t].channel)
    BY <1>3, <1>4, <1>5, <1>6, <1>7, <1>8
  <2>4. \A u \in Callers : call[u].pc = "insert" => call[u].handle # call'[t].handle /\ call[u].channel # call'[t].channel
    BY <1>3, <1>4, <1>5, <1>6, <1>7, <1>8, <2>2 DEF OneHandle, CallSteps
  <2>5. HandlesKept
    BY <1>1 DEF HandlesKept
  <2> QED
    BY <1>1, <2>1, <2>2, <2>3, <2>4, <2>5 DEF Moves
<1>11. /\ ShutdownIsAlone' /\ TickOrder' /\ OneHandle' /\ CallSteps'
       /\ \A c : Out(c)' <=> Out(c)
       /\ \A u \in Callers : call[u].pc = "insert" => call'[u] = call[u]
  BY <1>10, CallMoves
<1>12. KnownIsNotStopped'
  BY <1>1, <1>11, KnownKept
<1>13. DspIsOfItsHandle'
  <2>1. \A h \in BassHandles : dsp'[h] \in {dsp[h], Absent} /\ (stream'[h] = Absent => dsp'[h] = Absent)
    BY <1>6, <1>7 DEF DspIsOfItsHandle
  <2>2. callback' # Absent => \E h \in BassHandles : dsp'[h] = callback'
    BY <1>1, <1>6, <1>7, <1>8 DEF DspIsOfItsHandle
  <2>3. \A u \in Callers : call'[u].pc \in {"insert", "play"} => dsp'[call'[u].handle] \in {call'[u].channel, Absent}
    BY <1>3, <1>4, <1>7, CallHas DEF DspIsOfItsHandle
  <2>4. HandlesKept /\ \A h \in BassHandles : dsp[h] \in BassChannels \union {Absent}
    BY <1>10 DEF Moves, BridgeTypeOK
  <2> QED
    BY <1>1, <1>11, <2>1, <2>2, <2>3, <2>4, DspKept
<1>14. SilenceIsBeingMended'
  <2>1. SUFFICES ASSUME NEW h \in BassHandles, Silenced(h)'
                 PROVE  (channel[dsp[h]].source \in turnedAway)' \/ (dsp[h] \in overtaken)' \/ BeingPlayed(h)'
    BY DEF SilenceIsBeingMended
  <2>2. Silenced(h) /\ dsp'[h] = dsp[h] /\ dsp[h] # Absent
    BY <1>1, <1>6, <1>7, <2>1 DEF Silenced, Live, Absent
  <2>3. CASE BeingPlayed(h)
    <3>1. PICK u \in Callers : call[u].op = "play" /\ call[u].handle = h /\ call[u].pc \in {"find", "play"}
      BY <2>3 DEF BeingPlayed
    <3>2. call'[u].op = "play" /\ call'[u].handle = h /\ call'[u].pc \in {"find", "play"}
      BY <2>2, <3>1, <1>3, <1>4, <1>5, <1>6, <1>7, <1>8
    <3> QED
      BY <3>2 DEF BeingPlayed
  <2> QED
    BY <1>1, <2>2, <2>3 DEF SilenceIsBeingMended
<1>15. HasHandle' /\ OneOwner' /\ RegisteredIsKnown'
  BY <1>1, PartsKept
<1> QED
  BY <1>9, <1>11, <1>12, <1>13, <1>14, <1>15

\* BASS on its own; with the detours in place only a playing stream changes.
LEMMA StreamChangesStep ==
  ASSUME BridgeAssumption, CoreInv, NEW h \in BassHandles, NEW state \in States, StreamChanges(h, state),
         ~hooked \/ (stream[h] = "playing" /\ state # "playing")
  PROVE  CoreInv'
<1> USE DEF CoreInv
<1>1. UNCHANGED <<instance, hooked, table, pendingUnregister, stale, channel, used, calls, call, callback, made,
                  eos, stop, finished, queued, waiting, rendered, turnedAway, gamePc, dead, deadStale, liveChannels,
                  seen, keptChannels, overtaken, offered>>
  BY DEF StreamChanges, BassKeeps, bassVars, hookVars, tableVars, channelVars, callVars, flagVars, pipeVars,
         tickVars
<1>2. /\ stream' \in [BassHandles -> States] /\ stream'[h] = state
      /\ (state = Absent => dsp'[h] = Absent) /\ dsp' \in [BassHandles -> used \union {Absent}]
      /\ \A g \in BassHandles : dsp'[g] \in {dsp[g], Absent} /\ (dsp[g] # dsp'[g] => g = h /\ state = Absent)
      /\ \A g \in BassHandles : g # h => stream'[g] = stream[g]
  BY DEF StreamChanges, BridgeTypeOK
<1>3. state = Absent /\ dsp[h] # Absent => callback # dsp[h]
  BY DEF StreamChanges, NotCalledBack
<1>4. ~hooked => \A g \in BassHandles : dsp[g] = Absent \/ ~instance
  BY DEF TickOrder
<1>5. BridgeTypeOK'
  <2>1. stream' \in [BassHandles -> States]
    BY <1>1, <1>2, <1>3, <1>4 DEF BridgeTypeOK, StreamChanges, BassKeeps, CallRecords
  <2>2. dsp' \in [BassHandles -> used' \union {Absent}]
    BY <1>1, <1>2, <1>3, <1>4 DEF BridgeTypeOK, StreamChanges, BassKeeps, CallRecords
  <2> QED
    BY <1>1, <2>1, <2>2 DEF BridgeTypeOK, CallRecords
<1>6. ShutdownIsAlone' /\ CallSteps' /\ HasHandle' /\ OneHandle' /\ OneOwner' /\ RegisteredIsKnown' /\ KnownIsNotStopped'
  BY <1>1, PartsKept
<1>7. DspIsOfItsHandle'
  <2>1. callback' # Absent => \E g \in BassHandles : dsp'[g] = callback'
    BY <1>1, <1>2, <1>3 DEF DspIsOfItsHandle
  <2>2. \A u \in Callers : call'[u].pc \in {"insert", "play"} => dsp'[call'[u].handle] \in {call'[u].channel, Absent}
    <3> SUFFICES ASSUME NEW u \in Callers, call[u].pc \in {"insert", "play"}
                 PROVE  dsp'[call[u].handle] \in {call[u].channel, Absent}
      BY <1>1
    <3>1. call[u].handle \in BassHandles
      BY CallHas
    <3> QED
      BY <1>2, <3>1 DEF DspIsOfItsHandle
  <2>3. \A g \in BassHandles : dsp'[g] \in {dsp[g], Absent} /\ (stream'[g] = Absent => dsp'[g] = Absent)
    BY <1>2 DEF DspIsOfItsHandle
  <2>4. HandlesKept /\ \A g \in BassHandles : dsp[g] \in BassChannels \union {Absent}
    BY <1>1 DEF HandlesKept, BridgeTypeOK
  <2> QED
    BY <1>1, <2>1, <2>2, <2>3, <2>4, DspKept
<1>8. TickOrder'
  BY <1>1, <1>2, <1>3, <1>4, <1>5
     DEF BridgeTypeOK, BridgeAssumption, CallSteps, TickOrder, InTable, NothingSeen, StreamChanges, BassKeeps
<1>9. SilenceIsBeingMended'
  <2>1. ASSUME NEW g \in BassHandles, Silenced(g)' PROVE Silenced(g) /\ dsp'[g] = dsp[g]
    <3>1. instance /\ dsp[g] # Absent /\ dsp'[g] = dsp[g] /\ hooked
      BY <1>1, <1>2, <1>4, <2>1 DEF Silenced
    <3>2. stream[g] = "playing"
      BY <1>2, <2>1, <3>1 DEF Silenced
    <3> QED
      BY <1>1, <2>1, <3>1, <3>2 DEF Silenced, Live
  <2> QED
    BY <1>1, <2>1 DEF SilenceIsBeingMended, BeingPlayed
<1> QED
  BY <1>5, <1>6, <1>7, <1>8, <1>9

\* OnStreamFreed ends the source of a channel that is out of the table, so no stream it feeds.
LEMMA EndSourceStep ==
  ASSUME BridgeAssumption, CoreInv, NEW t \in Callers, EndSource(t)
  PROVE  CoreInv'
<1> USE DEF CoreInv
<1>1. UNCHANGED <<stream, dsp, instance, hooked, table, pendingUnregister, stale, channel, used, calls, callback,
                  made, finished, queued, waiting, rendered, turnedAway, gamePc, dead, deadStale, liveChannels,
                  seen, keptChannels, overtaken, offered>>
  BY DEF EndSource, CallKeeps, bassVars, hookVars, tableVars, channelVars, callVars, flagVars, pipeVars, tickVars
<1>2. /\ call' \in [Callers -> CallRecords(used')]
      /\ \A u \in Callers \ {t} : call'[u] = call[u]
      /\ call'[t].op = "free" /\ call'[t].pc = "free"
      /\ call'[t].handle = call[t].handle /\ call'[t].channel = Absent
  <2>1. call \in [Callers -> CallRecords(used)] /\ used' \subseteq BassChannels /\ used \subseteq used'
    BY <1>1 DEF BridgeTypeOK, CallRecords, EndSource, CallKeeps
  <2>2. PICK r : r = [call[t] EXCEPT !.pc = "free", !.channel = Absent]
    OBVIOUS
  <2>3. /\ r \in CallRecords(used')
        /\ r.op = "free" /\ r.pc = "free"
        /\ r.handle = call[t].handle /\ r.channel = Absent
    BY <1>1, <2>1, <2>2 DEF CallRecords, NoCall, EndSource, CallSteps
  <2>4. call' = [call EXCEPT ![t] = r]
    BY <2>1, <2>2 DEF EndSource, CallKeeps
  <2> QED
    BY <2>1, <2>3, <2>4 DEF CallRecords
<1>3. \A u \in Callers \ {t} : call'[u] = call[u]
  BY <1>2
<1>4. /\ call'[t].op = "free" /\ call'[t].pc = "free"
      /\ call'[t].handle = call[t].handle /\ call'[t].channel = Absent
  BY <1>2, Zenon
<1>5. call[t] # NoCall /\ call[t].op = "free" /\ call[t].pc = "end"
  BY NoCallFields DEF EndSource, Absent
<1>6. call[t].handle # Absent /\ call[t].channel \in used /\ Out(call[t].channel)
  BY <1>5, CallHas DEF CallSteps, OneHandle
<1>7. /\ eos \subseteq eos' /\ eos' \subseteq eos \union ({channel[call[t].channel].source} \ {Absent})
      /\ stop \subseteq stop' /\ stop' \subseteq stop \union ({channel[call[t].channel].source} \ {Absent})
  BY DEF EndSource
<1>8. channel[call[t].channel].source \in made \union {Absent}
  BY <1>6 DEF BridgeTypeOK
<1>9. BridgeTypeOK'
  <2>1. /\ made' \subseteq Sources
       /\ eos' \union stop' \union finished' \union queued' \union waiting' \union rendered' \union stale' \union deadStale'
            \subseteq made'
    BY <1>1, <1>3, <1>4, <1>5, <1>6, <1>7, <1>8 DEF BridgeTypeOK, EndSource, CallKeeps, CallRecords
  <2>2. call' \in [Callers -> CallRecords(used')]
    BY <1>1, <1>3, <1>4, <1>5, <1>6, <1>7, <1>8, <1>2 DEF BridgeTypeOK, EndSource, CallKeeps, CallRecords
  <2> QED
    BY <1>1, <2>1, <2>2 DEF BridgeTypeOK, CallRecords
<1>10. Moves(t)
  <2>1. StepOf(call'[t])
    BY <1>3, <1>4, <1>5, <1>6, <1>7, <1>8 DEF StepOf, Absent
  <2>2. call[t] # NoCall /\ call[t].pc # "insert" /\ call'[t].pc # "insert" /\ (\A u \in Callers \ {t} : call'[u] = call[u])
    BY <1>3, <1>4, <1>5, <1>6, <1>7, <1>8, NoCallFields
  <2>3. call'[t].pc = "end" => Out(call'[t].channel)
    BY <1>3, <1>4, <1>5, <1>6, <1>7, <1>8
  <2>4. \A u \in Callers : call[u].pc = "insert" => call[u].handle # call'[t].handle /\ call[u].channel # call'[t].channel
    BY <1>3, <1>4, <1>5, <1>6, <1>7, <1>8, <2>2 DEF OneHandle, CallSteps
  <2>5. HandlesKept
    BY <1>1 DEF HandlesKept
  <2> QED
    BY <1>1, <2>1, <2>2, <2>3, <2>4, <2>5 DEF Moves
<1>11. /\ ShutdownIsAlone' /\ TickOrder' /\ OneHandle' /\ CallSteps'
       /\ \A c : Out(c)' <=> Out(c)
       /\ \A u \in Callers : call[u].pc = "insert" => call'[u] = call[u]
  BY <1>10, CallMoves
<1>12. DspIsOfItsHandle'
  <2>1. \A h \in BassHandles : dsp'[h] \in {dsp[h], Absent} /\ (stream'[h] = Absent => dsp'[h] = Absent)
    BY <1>1 DEF DspIsOfItsHandle
  <2>2. callback' # Absent => \E h \in BassHandles : dsp'[h] = callback'
    BY <1>1 DEF DspIsOfItsHandle
  <2>3. \A u \in Callers : call'[u].pc \in {"insert", "play"} => dsp'[call'[u].handle] \in {call'[u].channel, Absent}
    BY <1>1, <1>3, <1>4, <1>5, <1>6, <1>7, <1>8 DEF DspIsOfItsHandle
  <2>4. HandlesKept /\ \A h \in BassHandles : dsp[h] \in BassChannels \union {Absent}
    BY <1>10 DEF Moves, BridgeTypeOK
  <2> QED
    BY <1>1, <1>11, <2>1, <2>2, <2>3, <2>4, DspKept
<1>13. SilenceIsBeingMended'
  <2>1. SUFFICES ASSUME NEW h \in BassHandles, Silenced(h)'
                 PROVE  (channel[dsp[h]].source \in turnedAway)' \/ (dsp[h] \in overtaken)' \/ BeingPlayed(h)'
    BY DEF SilenceIsBeingMended
  <2>2. dsp'[h] = dsp[h] /\ dsp[h] # Absent /\ Silenced(h)
    <3>1. stream[h] = "playing" /\ dsp[h] # Absent /\ instance /\ ~channel[dsp[h]].rejected /\ dsp'[h] = dsp[h]
      BY <1>1, <2>1 DEF Silenced
    <3>2. channel[dsp[h]].source \in {Absent} \union eos' \union finished
      BY <1>1, <2>1 DEF Silenced, Live
    <3>3. ~Out(dsp[h]) /\ channel[dsp[h]].source \notin stop \union {Absent} /\ \A c \in used : c # dsp[h] => channel[c].source # channel[dsp[h]].source
      BY <1>5, <3>1, NoCallFields, DspIsKnown DEF ShutdownIsAlone
    <3> QED
      BY <1>6, <1>7, <3>1, <3>2, <3>3 DEF Silenced, Live
  <2>3. CASE BeingPlayed(h)
    <3>1. PICK u \in Callers : call[u].op = "play" /\ call[u].handle = h /\ call[u].pc \in {"find", "play"}
      BY <2>3 DEF BeingPlayed
    <3>2. call'[u].op = "play" /\ call'[u].handle = h /\ call'[u].pc \in {"find", "play"}
      BY <2>2, <3>1, <1>3, <1>4, <1>5, <1>6, <1>7, <1>8
    <3> QED
      BY <3>2 DEF BeingPlayed
  <2> QED
    BY <1>1, <2>2, <2>3 DEF SilenceIsBeingMended
<1>14. HasHandle' /\ OneOwner'
  BY <1>1, PartsKept
<1>15. RegisteredIsKnown'
  BY <1>1, <1>3, <1>4, <1>5, <1>6, <1>7, <1>8, <1>9
     DEF BridgeTypeOK, BridgeAssumption, CallSteps, RegisteredIsKnown, InTable, EndSource, CallKeeps
<1>16. KnownIsNotStopped'
  <2>1. SUFFICES ASSUME NEW c \in used, ~Out(c)' PROVE channel[c].source \notin stop' \union {Absent}
    BY <1>1 DEF KnownIsNotStopped
  <2>2. ~Out(c)
    BY <1>11, <2>1
  <2>3. channel[c].source \notin stop \union {Absent} /\ c # call[t].channel
    BY <1>6, <2>2 DEF KnownIsNotStopped
  <2>4. channel[c].source # channel[call[t].channel].source
    BY <1>6, <2>3 DEF OneOwner
  <2> QED
    BY <1>7, <2>3, <2>4
<1> QED
  BY <1>9, <1>11, <1>12, <1>13, <1>14, <1>15, <1>16

\* OnChannelPlay finds the source good.
LEMMA PlayOnStep ==
  ASSUME BridgeAssumption, CoreInv, NEW t \in Callers, OnChannelPlay(t), ~Dead(channel[call[t].channel].source),
         ~call[t].flag
  PROVE  CoreInv'
<1> USE DEF CoreInv
<1>1. UNCHANGED <<stream, dsp, instance, hooked, table, pendingUnregister, stale, channel, used, calls, callback,
                  made, eos, stop, finished, queued, waiting, rendered, turnedAway, gamePc, dead, deadStale,
                  liveChannels, seen, keptChannels, overtaken, offered>>
  BY DEF OnChannelPlay, CallKeeps, Returns, bassVars, hookVars, tableVars, channelVars, callVars, flagVars,
         pipeVars, tickVars
<1>2. stop' = stop /\ made' = made /\ channel' = channel /\ stale' = stale /\ overtaken' = overtaken
  BY DEF OnChannelPlay
<1>3. /\ call' \in [Callers -> CallRecords(used')]
      /\ \A u \in Callers \ {t} : call'[u] = call[u]
      /\ call'[t] = NoCall
      /\ call'[t].pc = "out" /\ call'[t].op = Absent /\ call'[t].channel = Absent /\ call'[t].handle = Absent
  <2>1. call \in [Callers -> CallRecords(used)] /\ used' \subseteq BassChannels /\ used \subseteq used'
    BY <1>1, <1>2 DEF BridgeTypeOK, CallRecords, OnChannelPlay, CallKeeps, Returns
  <2>2. PICK r : r = NoCall
    OBVIOUS
  <2>3. /\ r \in CallRecords(used')
        /\ r = NoCall
        /\ r.pc = "out" /\ r.op = Absent /\ r.channel = Absent /\ r.handle = Absent
    BY <1>1, <1>2, <2>1, <2>2 DEF CallRecords, NoCall, OnChannelPlay, CallSteps
  <2>4. call' = [call EXCEPT ![t] = r]
    BY <2>1, <2>2, <1>2 DEF OnChannelPlay, CallKeeps, Returns
  <2> QED
    BY <2>1, <2>3, <2>4 DEF CallRecords
<1>4. \A u \in Callers \ {t} : call'[u] = call[u]
  BY <1>3
<1>5. /\ call'[t] = NoCall
      /\ call'[t].pc = "out" /\ call'[t].op = Absent /\ call'[t].channel = Absent /\ call'[t].handle = Absent
  BY <1>3, Zenon
<1>6. call[t].op = "play" /\ call[t].pc = "play"
  BY DEF OnChannelPlay
<1>7. call[t].handle \in BassHandles /\ dsp[call[t].handle] \in {call[t].channel, Absent}
  BY <1>6, CallHas DEF DspIsOfItsHandle
<1>8. Moves(t)
  <2>1. StepOf(call'[t])
    BY <1>4, <1>5, <1>2, <1>6, <1>7, NoCallSteps
  <2>2. /\ call[t] # NoCall /\ call[t].pc # "insert" /\ call'[t].pc # "insert"
        /\ \A u \in Callers \ {t} : call'[u] = call[u]
    BY <1>4, <1>5, <1>2, <1>6, <1>7, NoCallFields
  <2>3. call'[t].pc = "end" => Out(call'[t].channel)
    BY <1>4, <1>5, <1>2, <1>6, <1>7
  <2>4. \A u \in Callers : call[u].pc = "insert" => call[u].handle # call'[t].handle /\ call[u].channel # call'[t].channel
    BY <1>4, <1>5, <1>2, <1>6, <1>7, <2>2 DEF OneHandle, CallSteps
  <2> QED
    BY <1>1, <2>1, <2>2, <2>3, <2>4 DEF Moves, HandlesKept
<1>9. call'[t].pc = "play" => dsp[call'[t].handle] \in {call'[t].channel, Absent}
  BY <1>4, <1>5, <1>2, <1>6, <1>7 DEF DspIsOfItsHandle
<1>10. \A h \in BassHandles : Silenced(h) /\ call[t].op = "play" /\ call[t].handle = h /\ call[t].pc \in {"find", "play"} =>
         call'[t].op = "play" /\ call'[t].handle = h /\ call'[t].pc \in {"find", "play"}
  BY <1>4, <1>5, <1>2, <1>6, <1>7 DEF Silenced, Dead, Live
<1> QED
  BY <1>1, <1>3, <1>8, <1>9, <1>10, OnlyCallMoves

\* OnChannelPlay makes a fresh source: it has one owner and was neither stopped nor offered.
LEMMA ReplaceStep ==
  ASSUME BridgeAssumption, CoreInv, NEW t \in Callers, OnChannelPlay(t),
         Dead(channel[call[t].channel].source) \/ call[t].flag
  PROVE  CoreInv'
<1> USE DEF CoreInv
<1>1. UNCHANGED <<stream, dsp, instance, hooked, table, pendingUnregister, used, calls, callback, eos, finished,
                  queued, waiting, rendered, turnedAway, gamePc, dead, deadStale, liveChannels, seen, keptChannels,
                  offered>>
  BY DEF OnChannelPlay, CallKeeps, Returns, bassVars, hookVars, tableVars, channelVars, callVars, flagVars,
         pipeVars, tickVars
<1>2. /\ call[t].op = "play" /\ call[t].pc = "play" /\ call[t].handle \in BassHandles
      /\ call[t].channel \in used /\ call[t].channel \in BassChannels /\ dsp[call[t].handle] \in {call[t].channel, Absent}
  <2>1. call[t].op = "play" /\ call[t].pc = "play"
    BY DEF OnChannelPlay
  <2> QED
    BY <2>1, CallHas DEF DspIsOfItsHandle, BridgeTypeOK
<1>3. Replace(call[t].channel)
  BY DEF OnChannelPlay
<1>4. PICK new \in Sources \ made : made' = made \union {new} /\ channel' = [channel EXCEPT ![call[t].channel] = Fresh(@.handle, new)]
  BY <1>3 DEF Replace, NextOf
<1>5. /\ call' \in [Callers -> CallRecords(used')]
      /\ \A u \in Callers \ {t} : call'[u] = call[u]
      /\ call'[t] = NoCall
      /\ call'[t].pc = "out" /\ call'[t].op = Absent /\ call'[t].channel = Absent /\ call'[t].handle = Absent
  <2>1. call \in [Callers -> CallRecords(used)] /\ used' \subseteq BassChannels /\ used \subseteq used'
    BY <1>1, <1>2, <1>3, <1>4 DEF BridgeTypeOK, CallRecords, OnChannelPlay, CallKeeps, Returns
  <2>2. PICK r : r = NoCall
    OBVIOUS
  <2>3. /\ r \in CallRecords(used')
        /\ r = NoCall
        /\ r.pc = "out" /\ r.op = Absent /\ r.channel = Absent /\ r.handle = Absent
    BY <1>1, <1>2, <1>3, <1>4, <2>1, <2>2 DEF CallRecords, NoCall, OnChannelPlay, CallSteps
  <2>4. call' = [call EXCEPT ![t] = r]
    BY <2>1, <2>2, <1>2, <1>3, <1>4 DEF OnChannelPlay, CallKeeps, Returns
  <2> QED
    BY <2>1, <2>3, <2>4 DEF CallRecords
<1>6. \A u \in Callers \ {t} : call'[u] = call[u]
  BY <1>5
<1>7. /\ call'[t] = NoCall
      /\ call'[t].pc = "out" /\ call'[t].op = Absent /\ call'[t].channel = Absent /\ call'[t].handle = Absent
  BY <1>5, Zenon
<1>8. /\ channel'[call[t].channel].source = new /\ channel'[call[t].channel].handle = channel[call[t].channel].handle
      /\ channel'[call[t].channel].registered = FALSE /\ channel'[call[t].channel].rejected = FALSE
      /\ \A d \in BassChannels : d # call[t].channel => channel'[d] = channel[d]
  <2>1. PICK r : r = Fresh(channel[call[t].channel].handle, new)
    OBVIOUS
  <2>2. r.source = new /\ r.handle = channel[call[t].channel].handle /\ r.registered = FALSE /\ r.rejected = FALSE
    BY <2>1 DEF Fresh, NoBassChannel
  <2>3. channel' = [channel EXCEPT ![call[t].channel] = r]
    BY <1>4, <2>1
  <2> QED
    BY <1>2, <2>2, <2>3 DEF BridgeTypeOK
<1>9. /\ stale' \subseteq stale \union ({channel[call[t].channel].source} \ {Absent})
      /\ stop \subseteq stop' /\ stop' \subseteq stop \union ({channel[call[t].channel].source} \ {Absent})
      /\ overtaken' = overtaken \ {call[t].channel}
  BY <1>3 DEF OnChannelPlay, Replace, Dead, Live
<1>10. channel[call[t].channel].source \in eos \union finished \union stop' \union {Absent}
  BY DEF OnChannelPlay, Dead, Live
<1>11. channel[call[t].channel].source \in made \union {Absent}
  BY <1>2 DEF BridgeTypeOK
<1>12. /\ new \in Sources /\ new \notin made /\ made' = made \union {new} /\ new # Absent
       /\ new \notin eos \union stop \union finished \union waiting \union rendered \union stale \union deadStale \union offered
  BY <1>4 DEF BridgeTypeOK, OneOwner, BridgeAssumption
<1>13. BridgeTypeOK'
  <2>1. channel' \in [BassChannels -> [handle : BassHandles \union {Absent}, source : made' \union {Absent},
                                     registered : BOOLEAN, rejected : BOOLEAN]]
    <3>1. PICK r : r = Fresh(channel[call[t].channel].handle, new)
      OBVIOUS
    <3>2. r \in [handle : BassHandles \union {Absent}, source : made' \union {Absent}, registered : BOOLEAN, rejected : BOOLEAN]
      BY <1>2, <1>4, <3>1 DEF Fresh, NoBassChannel, BridgeTypeOK
    <3>3. \A d \in BassChannels : channel[d] \in [handle : BassHandles \union {Absent}, source : made' \union {Absent},
                                                 registered : BOOLEAN, rejected : BOOLEAN]
      BY <1>4 DEF BridgeTypeOK
    <3>4. channel' = [channel EXCEPT ![call[t].channel] = r]
      BY <1>4, <3>1
    <3>5. channel \in [BassChannels -> [handle : BassHandles \union {Absent}, source : made \union {Absent}, registered : BOOLEAN, rejected : BOOLEAN]]
      BY DEF BridgeTypeOK
    <3> QED
      BY <3>2, <3>3, <3>4, <3>5
  <2>2. /\ made' \subseteq Sources
       /\ eos' \union stop' \union finished' \union queued' \union waiting' \union rendered' \union stale' \union deadStale'
            \subseteq made'
    BY <1>1, <1>9, <1>11, <1>12 DEF BridgeTypeOK
  <2>3. call' \in [Callers -> CallRecords(used')]
    BY <1>1, <1>2, <1>3, <1>4, <1>6, <1>7, <1>8, <1>9, <1>10, <1>11, <1>12, <1>5
       DEF BridgeTypeOK, OnChannelPlay, CallKeeps, Returns, CallRecords
  <2> QED
    BY <1>1, <2>1, <2>2, <2>3 DEF BridgeTypeOK, CallRecords
<1>14. Moves(t)
  <2>1. StepOf(call'[t])
    BY <1>6, <1>7, <1>2, <1>3, <1>4, <1>8, <1>9, <1>10, <1>11, <1>12, NoCallSteps
  <2>2. call[t] # NoCall /\ call[t].pc # "insert" /\ call'[t].pc # "insert" /\ (\A u \in Callers \ {t} : call'[u] = call[u])
    BY <1>6, <1>7, <1>2, <1>3, <1>4, <1>8, <1>9, <1>10, <1>11, <1>12, NoCallFields
  <2>3. call'[t].pc = "end" => Out(call'[t].channel)
    BY <1>6, <1>7, <1>2, <1>3, <1>4, <1>8, <1>9, <1>10, <1>11, <1>12
  <2>4. \A u \in Callers : call[u].pc = "insert" => call[u].handle # call'[t].handle /\ call[u].channel # call'[t].channel
    BY <1>6, <1>7, <1>2, <1>3, <1>4, <1>8, <1>9, <1>10, <1>11, <1>12, <2>2 DEF OneHandle, CallSteps
  <2>5. HandlesKept
    BY <1>8 DEF HandlesKept
  <2> QED
    BY <1>1, <2>1, <2>2, <2>3, <2>4, <2>5 DEF Moves
<1>15. /\ ShutdownIsAlone' /\ TickOrder' /\ OneHandle' /\ CallSteps'
       /\ \A c : Out(c)' <=> Out(c)
       /\ \A u \in Callers : call[u].pc = "insert" => call'[u] = call[u]
  BY <1>14, CallMoves
<1>16. DspIsOfItsHandle'
  <2>1. \A h \in BassHandles : dsp'[h] \in {dsp[h], Absent} /\ (stream'[h] = Absent => dsp'[h] = Absent)
    BY <1>1 DEF DspIsOfItsHandle
  <2>2. callback' # Absent => \E h \in BassHandles : dsp'[h] = callback'
    BY <1>1 DEF DspIsOfItsHandle
  <2>3. \A u \in Callers : call'[u].pc \in {"insert", "play"} => dsp'[call'[u].handle] \in {call'[u].channel, Absent}
    BY <1>1, <1>6, <1>7, <1>2, <1>3, <1>4, <1>8, <1>9, <1>10, <1>11, <1>12 DEF DspIsOfItsHandle
  <2>4. HandlesKept /\ \A h \in BassHandles : dsp[h] \in BassChannels \union {Absent}
    BY <1>14 DEF Moves, BridgeTypeOK
  <2> QED
    BY <1>1, <1>15, <2>1, <2>2, <2>3, <2>4, DspKept
<1>17. SilenceIsBeingMended'
  <2>1. SUFFICES ASSUME NEW h \in BassHandles, Silenced(h)'
                 PROVE  (channel[dsp[h]].source \in turnedAway)' \/ (dsp[h] \in overtaken)' \/ BeingPlayed(h)'
    BY DEF SilenceIsBeingMended
  <2>2. dsp'[h] = dsp[h] /\ dsp[h] # Absent /\ Silenced(h) /\ h # call[t].handle /\ dsp[h] # call[t].channel /\ channel'[dsp[h]] = channel[dsp[h]]
    <3>1. stream[h] = "playing" /\ dsp[h] # Absent /\ instance /\ dsp'[h] = dsp[h] /\ dsp[h] \in BassChannels
      BY <1>1, <2>1 DEF Silenced, BridgeTypeOK
    <3>2. dsp[h] # call[t].channel
      BY <1>1, <1>8, <1>12, <2>1 DEF Silenced, Live
    <3> QED
      BY <1>1, <1>2, <1>8, <2>1, <3>1, <3>2 DEF Silenced, Live
  <2>3. CASE BeingPlayed(h)
    <3>1. PICK u \in Callers : call[u].op = "play" /\ call[u].handle = h /\ call[u].pc \in {"find", "play"}
      BY <2>3 DEF BeingPlayed
    <3>2. call'[u].op = "play" /\ call'[u].handle = h /\ call'[u].pc \in {"find", "play"}
      BY <2>2, <3>1, <1>6, <1>7, <1>2, <1>3, <1>4, <1>8, <1>9, <1>10, <1>11, <1>12
    <3> QED
      BY <3>2 DEF BeingPlayed
  <2> QED
    BY <1>1, <1>9, <2>2, <2>3 DEF SilenceIsBeingMended
<1>18. HasHandle'
  BY <1>1, <1>2, <1>3, <1>4, <1>6, <1>7, <1>8, <1>9, <1>10, <1>11, <1>12, <1>13
     DEF BridgeTypeOK, BridgeAssumption, CallSteps, HasHandle, OnChannelPlay, CallKeeps, Returns
<1>19. OneOwner'
  <2>1. \A d \in used : d # call[t].channel => channel'[d] = channel[d] /\ channel[d].source \in made \union {Absent}
    BY <1>8 DEF BridgeTypeOK
  <2>2. \A c, d \in used' : channel'[c].source = channel'[d].source /\ channel'[c].source # Absent => c = d
    BY <1>1, <1>8, <1>12, <2>1 DEF OneOwner
  <2>3. \A d \in used' : channel'[d].source \notin stale' \union deadStale'
    <3> SUFFICES ASSUME NEW d \in used PROVE channel'[d].source \notin stale' \union deadStale
      BY <1>1
    <3>1. CASE d = call[t].channel
      BY <1>8, <1>9, <1>11, <1>12, <3>1
    <3>2. CASE d # call[t].channel
      BY <1>2, <1>9, <2>1, <3>2 DEF OneOwner
    <3> QED
      BY <3>1, <3>2
  <2>4. \A d \in used' : channel'[d].source \in offered' => channel'[d].registered \/ channel'[d].rejected
    BY <1>1, <1>8, <1>12, <2>1 DEF OneOwner
  <2> QED
    BY <1>1, <1>12, <2>2, <2>3, <2>4 DEF OneOwner
<1>20. RegisteredIsKnown'
  <2>1. \A d \in used : d # call[t].channel => channel'[d] = channel[d]
    BY <1>8 DEF BridgeTypeOK
  <2>2. \A d \in used' : channel'[d].registered => InTable(d)' \/ d \in (pendingUnregister \union dead)'
    BY <1>1, <1>8, <2>1 DEF RegisteredIsKnown, InTable
  <2>3. ASSUME NEW s \in (waiting \union rendered) \ (eos \union stop') PROVE \E d \in used : channel'[d].source = s /\ channel'[d].registered
    <3>1. PICK d \in used : channel[d].source = s /\ channel[d].registered
      BY <1>9 DEF RegisteredIsKnown
    <3>2. s \notin finished /\ s # Absent
      BY DEF OneOwner, BridgeTypeOK, BridgeAssumption
    <3>3. d # call[t].channel
      BY <1>10, <3>1, <3>2
    <3> QED
      BY <2>1, <3>1, <3>3
  <2> QED
    BY <1>1, <2>2, <2>3 DEF RegisteredIsKnown
<1>21. KnownIsNotStopped'
  <2>1. SUFFICES ASSUME NEW d \in used, ~Out(d)' PROVE channel'[d].source \notin stop' \union {Absent}
    BY <1>1 DEF KnownIsNotStopped
  <2>2. ~Out(d)
    BY <1>15, <2>1
  <2>3. channel[d].source \notin stop \union {Absent}
    BY <2>2 DEF KnownIsNotStopped
  <2>4. CASE d = call[t].channel
    BY <1>8, <1>9, <1>11, <1>12, <2>4
  <2>5. CASE d # call[t].channel
    <3>1. channel[d].source # channel[call[t].channel].source /\ channel'[d] = channel[d]
      BY <1>2, <1>8, <2>3, <2>5 DEF OneOwner, BridgeTypeOK
    <3> QED
      BY <1>9, <2>3, <3>1
  <2> QED
    BY <2>4, <2>5
<1> QED
  BY <1>13, <1>15, <1>16, <1>17, <1>18, <1>19, <1>20, <1>21

\* A created stream is left to BASS.
LEMMA StreamLeftStep ==
  ASSUME BridgeAssumption, CoreInv, NEW t \in Callers, NEW g \in BassHandles, StreamCreated(t, g),
         call' = [call EXCEPT ![t] = NoCall], UNCHANGED <<dsp, channelVars, made>>
  PROVE  CoreInv'
<1> USE DEF CoreInv
<1>1. UNCHANGED <<dsp, instance, hooked, table, pendingUnregister, stale, channel, used, calls, callback, made, eos,
                  stop, finished, queued, waiting, rendered, turnedAway, gamePc, dead, deadStale, liveChannels,
                  seen, keptChannels, overtaken, offered>>
  BY DEF StreamCreated, CallKeeps, Returns, channelVars, bassVars, hookVars, tableVars, channelVars, callVars,
         flagVars, pipeVars, tickVars
<1>2. /\ call' \in [Callers -> CallRecords(used')]
      /\ \A u \in Callers \ {t} : call'[u] = call[u]
      /\ call'[t] = NoCall
      /\ call'[t].pc = "out" /\ call'[t].op = Absent /\ call'[t].channel = Absent /\ call'[t].handle = Absent
  <2>1. call \in [Callers -> CallRecords(used)] /\ used' \subseteq BassChannels /\ used \subseteq used'
    BY <1>1 DEF BridgeTypeOK, CallRecords, NoCall
  <2>2. PICK r : r = NoCall
    OBVIOUS
  <2>3. /\ r \in CallRecords(used')
        /\ r = NoCall
        /\ r.pc = "out" /\ r.op = Absent /\ r.channel = Absent /\ r.handle = Absent
    BY <1>1, <2>1, <2>2 DEF CallRecords, NoCall, NoCall, CallSteps
  <2>4. call' = [call EXCEPT ![t] = r]
    BY <2>1, <2>2 DEF NoCall
  <2> QED
    BY <2>1, <2>3, <2>4 DEF CallRecords
<1>3. \A u \in Callers \ {t} : call'[u] = call[u]
  BY <1>2
<1>4. /\ call'[t] = NoCall
      /\ call'[t].pc = "out" /\ call'[t].op = Absent /\ call'[t].channel = Absent /\ call'[t].handle = Absent
  BY <1>2, Zenon
<1>5. call[t].op = "create" /\ call[t].pc = "begin"
  BY DEF StreamCreated
<1>6. /\ stream[g] = Absent /\ stream' \in [BassHandles -> States] /\ stream'[g] = "stopped"
      /\ \A h \in BassHandles : h # g => stream'[h] = stream[h]
  <2>1. stream' = [stream EXCEPT ![g] = "stopped"]
    BY DEF StreamCreated
  <2>2. stream[g] = Absent
    BY DEF StreamCreated
  <2> QED
    BY <2>1, <2>2 DEF BridgeTypeOK, States
<1>7. BridgeTypeOK'
  <2>1. stream' \in [BassHandles -> States]
    BY <1>1, <1>3, <1>4, <1>5, <1>6 DEF BridgeTypeOK, StreamCreated, CallKeeps, Returns, channelVars, CallRecords
  <2>2. call' \in [Callers -> CallRecords(used')]
    BY <1>1, <1>3, <1>4, <1>5, <1>6, <1>2
       DEF BridgeTypeOK, StreamCreated, CallKeeps, Returns, channelVars, CallRecords
  <2> QED
    BY <1>1, <2>1, <2>2 DEF BridgeTypeOK, CallRecords
<1>8. Moves(t)
  <2>1. StepOf(call'[t])
    BY <1>3, <1>4, <1>5, <1>6, NoCallSteps
  <2>2. call[t] # NoCall /\ call[t].pc # "insert" /\ call'[t].pc # "insert" /\ (\A u \in Callers \ {t} : call'[u] = call[u])
    BY <1>3, <1>4, <1>5, <1>6, NoCallFields
  <2>3. call'[t].pc = "end" => Out(call'[t].channel)
    BY <1>3, <1>4, <1>5, <1>6
  <2>4. \A u \in Callers : call[u].pc = "insert" => call[u].handle # call'[t].handle /\ call[u].channel # call'[t].channel
    BY <1>3, <1>4, <1>5, <1>6, <2>2 DEF OneHandle, CallSteps
  <2>5. HandlesKept
    BY <1>1 DEF HandlesKept
  <2> QED
    BY <1>1, <2>1, <2>2, <2>3, <2>4, <2>5 DEF Moves
<1>9. /\ ShutdownIsAlone' /\ TickOrder' /\ OneHandle' /\ CallSteps'
      /\ \A c : Out(c)' <=> Out(c)
      /\ \A u \in Callers : call[u].pc = "insert" => call'[u] = call[u]
  BY <1>8, CallMoves
<1>10. KnownIsNotStopped'
  BY <1>1, <1>9, KnownKept
<1>11. DspIsOfItsHandle'
  <2>1. \A h \in BassHandles : dsp'[h] \in {dsp[h], Absent} /\ (stream'[h] = Absent => dsp'[h] = Absent)
    BY <1>1, <1>6 DEF DspIsOfItsHandle, Absent
  <2>2. callback' # Absent => \E h \in BassHandles : dsp'[h] = callback'
    BY <1>1 DEF DspIsOfItsHandle
  <2>3. \A u \in Callers : call'[u].pc \in {"insert", "play"} => dsp'[call'[u].handle] \in {call'[u].channel, Absent}
    BY <1>1, <1>3, <1>4, <1>5, <1>6 DEF DspIsOfItsHandle
  <2>4. HandlesKept /\ \A h \in BassHandles : dsp[h] \in BassChannels \union {Absent}
    BY <1>8 DEF Moves, BridgeTypeOK
  <2> QED
    BY <1>1, <1>9, <2>1, <2>2, <2>3, <2>4, DspKept
<1>12. SilenceIsBeingMended'
  <2>1. SUFFICES ASSUME NEW h \in BassHandles, Silenced(h)'
                 PROVE  (channel[dsp[h]].source \in turnedAway)' \/ (dsp[h] \in overtaken)' \/ BeingPlayed(h)'
    BY DEF SilenceIsBeingMended
  <2>2. Silenced(h) /\ dsp'[h] = dsp[h] /\ dsp[h] # Absent
    BY <1>1, <1>6, <2>1 DEF Silenced, Live
  <2>3. CASE BeingPlayed(h)
    <3>1. PICK u \in Callers : call[u].op = "play" /\ call[u].handle = h /\ call[u].pc \in {"find", "play"}
      BY <2>3 DEF BeingPlayed
    <3>2. call'[u].op = "play" /\ call'[u].handle = h /\ call'[u].pc \in {"find", "play"}
      BY <2>2, <3>1, <1>3, <1>4, <1>5, <1>6
    <3> QED
      BY <3>2 DEF BeingPlayed
  <2> QED
    BY <1>1, <2>2, <2>3 DEF SilenceIsBeingMended
<1>13. HasHandle' /\ OneOwner' /\ RegisteredIsKnown'
  BY <1>1, PartsKept
<1> QED
  BY <1>7, <1>9, <1>10, <1>11, <1>12, <1>13

\* A created stream gets a DSP to a fresh channel, known to its creator alone.
LEMMA StreamCreatedStep ==
  ASSUME BridgeAssumption, CoreInv, NEW t \in Callers, NEW g \in BassHandles, NEW c \in BassChannels \ used,
         NEW s \in Sources \ made, StreamCreated(t, g), used' = used \union {c}, made' = made \union {s},
         channel' = [channel EXCEPT ![c] = Fresh(g, s)], dsp' = [dsp EXCEPT ![g] = c],
         call' = [call EXCEPT ![t].pc = "insert", ![t].handle = g, ![t].channel = c]
  PROVE  CoreInv'
<1> USE DEF CoreInv
<1>1. UNCHANGED <<instance, hooked, table, pendingUnregister, stale, calls, callback, eos, stop, finished, queued,
                  waiting, rendered, turnedAway, gamePc, dead, deadStale, liveChannels, seen, keptChannels,
                  overtaken, offered>>
  BY DEF StreamCreated, CallKeeps, Returns, bassVars, hookVars, tableVars, channelVars, callVars, flagVars,
         pipeVars, tickVars
<1>2. call[t].op = "create" /\ call[t].pc = "begin" /\ stream[g] = Absent /\ \A u \in Callers : call[u].handle # g
  BY DEF StreamCreated
<1>3. /\ call' \in [Callers -> CallRecords(used')]
      /\ \A u \in Callers \ {t} : call'[u] = call[u]
      /\ call'[t].op = "create" /\ call'[t].pc = "insert"
      /\ call'[t].handle = g /\ call'[t].channel = c
  <2>1. call \in [Callers -> CallRecords(used)] /\ used' \subseteq BassChannels /\ used \subseteq used'
    BY <1>1, <1>2 DEF BridgeTypeOK, CallRecords, CallRecords
  <2>2. PICK r : r = [call[t] EXCEPT !.pc = "insert", !.handle = g, !.channel = c]
    OBVIOUS
  <2>3. /\ r \in CallRecords(used')
        /\ r.op = "create" /\ r.pc = "insert"
        /\ r.handle = g /\ r.channel = c
    BY <1>1, <1>2, <2>1, <2>2 DEF CallRecords, NoCall, CallRecords, CallSteps
  <2>4. call' = [call EXCEPT ![t] = r]
    BY <2>1, <2>2, <1>2 DEF CallRecords
  <2> QED
    BY <2>1, <2>3, <2>4 DEF CallRecords
<1>4. \A u \in Callers \ {t} : call'[u] = call[u]
  BY <1>3
<1>5. /\ call'[t].op = "create" /\ call'[t].pc = "insert"
      /\ call'[t].handle = g /\ call'[t].channel = c
  BY <1>3, Zenon
<1>6. /\ stream' \in [BassHandles -> States] /\ stream'[g] = "stopped"
      /\ \A h \in BassHandles : h # g => stream'[h] = stream[h]
  <2>1. stream' = [stream EXCEPT ![g] = "stopped"]
    BY DEF StreamCreated
  <2> QED
    BY <2>1 DEF BridgeTypeOK, States
<1>7. /\ dsp[g] = Absent /\ dsp'[g] = c /\ dsp' \in [BassHandles -> used' \union {Absent}]
      /\ \A h \in BassHandles : h # g => dsp'[h] = dsp[h]
  BY <1>2 DEF BridgeTypeOK, DspIsOfItsHandle
<1>8. /\ channel'[c].source = s /\ channel'[c].handle = g /\ channel'[c].registered = FALSE /\ channel'[c].rejected = FALSE
      /\ \A d \in BassChannels : d # c => channel'[d] = channel[d]
      /\ channel' \in [BassChannels -> [handle : BassHandles \union {Absent}, source : made' \union {Absent},
                                          registered : BOOLEAN, rejected : BOOLEAN]]
  <2>1. PICK r : r = Fresh(g, s)
    OBVIOUS
  <2>2. /\ r.source = s /\ r.handle = g /\ r.registered = FALSE /\ r.rejected = FALSE
        /\ r \in [handle : BassHandles \union {Absent}, source : made' \union {Absent}, registered : BOOLEAN, rejected : BOOLEAN]
    BY <2>1 DEF Fresh, NoBassChannel
  <2>3. channel' = [channel EXCEPT ![c] = r]
    BY <2>1
  <2>4. /\ channel \in [BassChannels -> [handle : BassHandles \union {Absent}, source : made \union {Absent},
                                          registered : BOOLEAN, rejected : BOOLEAN]]
        /\ made \subseteq made'
    BY DEF BridgeTypeOK
  <2>5. channel \in [BassChannels -> [handle : BassHandles \union {Absent}, source : made' \union {Absent},
                                       registered : BOOLEAN, rejected : BOOLEAN]]
    BY <2>4
  <2> QED
    BY <2>2, <2>3, <2>5
<1>9. /\ c # Absent /\ s # Absent /\ c \in used'
      /\ s \notin eos \union stop \union finished \union waiting \union rendered \union stale \union deadStale \union offered
  BY DEF BridgeTypeOK, OneOwner, BridgeAssumption
<1>10. /\ \A h \in BassHandles : table[h] # c /\ dsp[h] # c
       /\ \A u \in Callers : call[u].channel # c
       /\ c \notin pendingUnregister \union dead \union liveChannels \union keptChannels \union {seen.channel, callback}
  <2>1. c # Absent /\ c \notin used
    BY DEF BridgeAssumption
  <2>2. \A u \in Callers : call[u].channel \in used \union {Absent}
    BY DEF BridgeTypeOK
  <2>3. \A h \in BassHandles : table[h] \in used \union {Absent} /\ dsp[h] \in used \union {Absent}
    BY DEF BridgeTypeOK
  <2>4. /\ pendingUnregister \union dead \union liveChannels \union keptChannels \subseteq used
        /\ seen.channel \in used \union {Absent} /\ callback \in used \union {Absent}
    BY DEF BridgeTypeOK
  <2> QED
    BY <2>1, <2>2, <2>3, <2>4
<1>11. call[t] # NoCall /\ call[t].channel = Absent
  BY <1>2, NoCallFields, CallHas DEF Absent
<1>12. /\ \A d : InTable(d)' <=> InTable(d)
       /\ \A d : d # c => (BeingInserted(d)' <=> BeingInserted(d))
       /\ BeingInserted(c)' /\ ~InTable(c)
  <2>1. \A d : InTable(d)' <=> InTable(d)
    BY <1>1 DEF InTable
  <2>2. BeingInserted(c)' /\ ~InTable(c)
    BY <1>5, <1>10 DEF BeingInserted, InTable
  <2>3. ASSUME NEW d, d # c PROVE BeingInserted(d)' <=> BeingInserted(d)
    BY <1>2, <1>4, <1>5, <2>3 DEF BeingInserted
  <2> QED
    BY <2>1, <2>2, <2>3
<1>13. BridgeTypeOK'
  <2>1. stream' \in [BassHandles -> States]
    BY <1>6
  <2>2. dsp' \in [BassHandles -> used' \union {Absent}]
    BY <1>7
  <2>3. table' \in [BassHandles -> used' \union {Absent}]
    BY <1>1 DEF BridgeTypeOK
  <2>4. pendingUnregister' \subseteq used' /\ used' \subseteq BassChannels
    BY <1>1 DEF BridgeTypeOK
  <2>5. channel' \in [BassChannels -> [handle : BassHandles \union {Absent}, source : made' \union {Absent},
                                     registered : BOOLEAN, rejected : BOOLEAN]]
    BY <1>8
  <2>6. /\ made' \subseteq Sources
       /\ eos' \union stop' \union finished' \union queued' \union waiting' \union rendered' \union stale' \union deadStale'
            \subseteq made'
    BY <1>1 DEF BridgeTypeOK
  <2>7. call' \in [Callers -> CallRecords(used')]
    BY <1>3
  <2>8. callback' \in used' \union {Absent}
    BY ZenonT(30), <1>1, <1>2, <1>4, <1>5, <1>6, <1>7, <1>8, <1>9, <1>10, <1>11, <1>12
       DEF BridgeTypeOK, StreamCreated, CallKeeps, Returns, CallRecords
  <2>9. dead' \union liveChannels' \union keptChannels' \subseteq used'
    BY <1>1, <1>2, <1>4, <1>5, <1>6, <1>7, <1>8, <1>9, <1>10, <1>11, <1>12
       DEF BridgeTypeOK, StreamCreated, CallKeeps, Returns, CallRecords
  <2>10. seen' \in [channel : used' \union {Absent}, state : States]
    BY <1>1, <1>2, <1>4, <1>5, <1>6, <1>7, <1>8, <1>9, <1>10, <1>11, <1>12
       DEF BridgeTypeOK, StreamCreated, CallKeeps, Returns, CallRecords
  <2> QED
    BY <1>1, <2>1, <2>2, <2>3, <2>4, <2>5, <2>6, <2>7, <2>8, <2>9, <2>10 DEF BridgeTypeOK, CallRecords
<1>14. ShutdownIsAlone'
  BY <1>1, <1>11, GameWaits
<1>15. CallSteps'
  <2>1. StepOf(call'[t])
    BY <1>5, <1>9 DEF StepOf, Absent, BridgeAssumption
  <2> QED
    BY <1>4, <2>1, CallStepsKept
<1>16. HasHandle'
  <2>1. \A d \in used : d # c /\ channel'[d] = channel[d]
    BY <1>8 DEF BridgeTypeOK
  <2>2. channel'[c].handle # Absent
    BY <1>8 DEF BridgeAssumption
  <2> QED
    BY <2>1, <2>2 DEF HasHandle
<1>17. OneHandle'
  <2>1. \A h \in BassHandles : table'[h] # Absent => channel'[table'[h]].handle = h
    <3>1. \A h \in BassHandles : table'[h] = table[h] /\ table[h] # c /\ (table[h] # Absent => table[h] \in BassChannels)
      BY <1>1, <1>10 DEF BridgeTypeOK
    <3> QED
      BY <1>8, <3>1 DEF OneHandle
  <2>2. ASSUME NEW u \in Callers, call'[u].pc = "insert"
        PROVE  /\ channel'[call'[u].channel].handle = call'[u].handle
               /\ \A v \in Callers \ {u} : call'[v].handle # call'[u].handle /\ call'[v].channel # call'[u].channel
               /\ \A d : d = call'[u].channel => ~InTable(d)'
    <3>1. CASE u = t
      <4>1. call'[u].channel = c /\ call'[u].handle = g /\ channel'[c].handle = g
        BY <1>5, <1>8, <3>1
      <4>2. \A v \in Callers \ {u} : call'[v].handle # g /\ call'[v].channel # c
        BY <1>2, <1>4, <1>10, <3>1
      <4>3. ~InTable(c)'
        BY <1>12
      <4> QED
        BY <4>1, <4>2, <4>3
    <3>2. CASE u # t
      <4>1. call'[u] = call[u] /\ call[u].channel \in BassChannels /\ call[u].channel # c /\ call[u].handle # g
        BY <1>2, <1>4, <1>10, <2>2, <3>2, CallHas DEF BridgeTypeOK
      <4>2. channel[call[u].channel].handle = call[u].handle /\ ~InTable(call[u].channel)
        BY <2>2, <4>1 DEF OneHandle
      <4>3. ASSUME NEW v \in Callers \ {u} PROVE call'[v].handle # call[u].handle /\ call'[v].channel # call[u].channel
        BY ZenonT(30), <1>4, <1>5, <2>2, <4>1 DEF OneHandle
      <4>4. channel'[call[u].channel] = channel[call[u].channel]
        BY <1>8, <4>1
      <4>5. \A d : d = call[u].channel => ~InTable(d)'
        BY <1>12, <4>2
      <4> QED
        BY <4>1, <4>2, <4>3, <4>4, <4>5
    <3> QED
      BY <3>1, <3>2
  <2>3. \A d \in (pendingUnregister \union dead)' : Out(d)'
    BY <1>1, <1>10, <1>12 DEF OneHandle, Out
  <2>4. \A u \in Callers : \A d : call'[u].pc = "end" /\ d = call'[u].channel => Out(d)'
    <3> SUFFICES ASSUME NEW u \in Callers, NEW d, call'[u].pc = "end", d = call'[u].channel PROVE Out(d)'
      OBVIOUS
    <3>1. u # t /\ call[u].pc = "end" /\ d = call[u].channel
      BY <1>4, <1>5
    <3>2. Out(d) /\ d # c
      BY <1>10, <3>1 DEF OneHandle
    <3> QED
      BY <1>12, <3>2 DEF Out
  <2>5. \A u \in Callers : call'[u].pc = "insert" => ~InTable(call[u].channel)'
    BY <2>2 DEF InTable
  <2>6. \A u \in Callers : call'[u].pc = "end" => Out(call[u].channel)'
    BY <2>4 DEF Out, InTable, BeingInserted
  <2> QED
    BY <2>1, <2>2, <2>3, <2>5, <2>6 DEF OneHandle
<1>18. DspIsOfItsHandle'
  <2>1. \A h \in BassHandles : stream'[h] = Absent => dsp'[h] = Absent
    BY <1>6, <1>7 DEF DspIsOfItsHandle, Absent
  <2>2. \A h \in BassHandles : dsp'[h] # Absent => channel'[dsp'[h]].handle = h
    <3>1. \A h \in BassHandles : dsp[h] # c /\ (dsp[h] # Absent => dsp[h] \in BassChannels)
      BY <1>10 DEF BridgeTypeOK
    <3> QED
      BY <1>7, <1>8, <3>1 DEF DspIsOfItsHandle
  <2>3. ASSUME NEW h \in BassHandles, dsp'[h] # Absent
        PROVE  \/ table'[h] = dsp'[h] \/ (gamePc' = "retire" /\ dsp'[h] \in dead')
               \/ \E u \in Callers : call'[u].pc = "insert" /\ call'[u].handle = h /\ call'[u].channel = dsp'[h]
    <3>1. CASE h = g
      BY <1>5, <1>7, <3>1
    <3>2. CASE h # g
      <4>1. dsp[h] # Absent /\ dsp'[h] = dsp[h]
        BY <1>7, <2>3, <3>2
      <4>2. CASE table[h] = dsp[h] \/ (gamePc = "retire" /\ dsp[h] \in dead)
        BY <1>1, <4>1, <4>2
      <4>3. CASE \E u \in Callers : call[u].pc = "insert" /\ call[u].handle = h /\ call[u].channel = dsp[h]
        BY <1>2, <1>4, <4>1, <4>3
      <4> QED
        BY <4>1, <4>2, <4>3 DEF DspIsOfItsHandle
    <3> QED
      BY <3>1, <3>2
  <2>4. callback' # Absent => \E h \in BassHandles : dsp'[h] = callback'
    BY <1>1, <1>7 DEF DspIsOfItsHandle
  <2>5. ASSUME NEW u \in Callers, call'[u].pc \in {"insert", "play"} PROVE dsp'[call'[u].handle] \in {call'[u].channel, Absent}
    <3>1. CASE u = t
      BY <1>5, <1>7, <3>1
    <3>2. CASE u # t
      <4>1. call'[u] = call[u] /\ call[u].handle \in BassHandles /\ call[u].handle # g
        BY <1>2, <1>4, <2>5, <3>2, CallHas
      <4> QED
        BY <1>7, <2>5, <4>1 DEF DspIsOfItsHandle
    <3> QED
      BY <3>1, <3>2
  <2> QED
    BY <2>1, <2>2, <2>3, <2>4, <2>5 DEF DspIsOfItsHandle
<1>19. TickOrder'
  BY <1>1, <1>11, GameWaits
<1>20. OneOwner'
  <2>1. \A d \in used : d # c /\ channel'[d] = channel[d] /\ channel[d].source # s
    BY <1>8 DEF BridgeTypeOK, BridgeAssumption
  <2>2. \A d, e \in used' : channel'[d].source = channel'[e].source /\ channel'[d].source # Absent => d = e
    BY <1>8, <2>1 DEF OneOwner
  <2>3. \A d \in used' : channel'[d].source \notin (stale \union deadStale)'
    BY <1>1, <1>8, <1>9, <2>1 DEF OneOwner
  <2>4. \A d \in used' : channel'[d].source \in offered' => channel'[d].registered \/ channel'[d].rejected
    BY <1>1, <1>8, <1>9, <2>1 DEF OneOwner
  <2> QED
    BY <1>1, <2>2, <2>3, <2>4 DEF OneOwner
<1>21. RegisteredIsKnown'
  <2>1. \A d \in used : d # c /\ channel'[d] = channel[d]
    BY <1>8 DEF BridgeTypeOK
  <2>2. \A d \in used' : channel'[d].registered => InTable(d)' \/ d \in (pendingUnregister \union dead)'
    BY <1>1, <1>8, <1>12, <2>1 DEF RegisteredIsKnown
  <2> QED
    BY <1>1, <2>1, <2>2 DEF RegisteredIsKnown
<1>22. KnownIsNotStopped'
  <2>1. \A d \in used : d # c /\ channel'[d] = channel[d] /\ (Out(d)' <=> Out(d))
    BY <1>8, <1>12 DEF BridgeTypeOK, Out
  <2> QED
    BY <1>1, <1>8, <1>9, <2>1 DEF KnownIsNotStopped
<1>23. SilenceIsBeingMended'
  <2>1. ASSUME NEW h \in BassHandles, Silenced(h)' PROVE Silenced(h) /\ h # g /\ dsp'[h] = dsp[h] /\ channel'[dsp[h]] = channel[dsp[h]]
    <3>1. h # g
      BY <1>6, <2>1 DEF Silenced
    <3>2. dsp'[h] = dsp[h] /\ dsp[h] # Absent /\ stream'[h] = stream[h]
      BY <1>6, <1>7, <2>1, <3>1 DEF Silenced
    <3>3. channel'[dsp[h]] = channel[dsp[h]]
      BY <1>8, <1>10, <3>2 DEF BridgeTypeOK
    <3> QED
      BY <1>1, <2>1, <3>1, <3>2, <3>3 DEF Silenced, Live
  <2>2. ASSUME NEW h \in BassHandles, BeingPlayed(h) PROVE BeingPlayed(h)'
    <3>1. PICK u \in Callers : call[u].op = "play" /\ call[u].handle = h /\ call[u].pc \in {"find", "play"}
      BY <2>2 DEF BeingPlayed
    <3>2. call'[u] = call[u]
      BY <1>2, <1>4, <3>1
    <3> QED
      BY <3>1, <3>2 DEF BeingPlayed
  <2> QED
    BY <1>1, <2>1, <2>2 DEF SilenceIsBeingMended
<1> QED
  BY <1>13, <1>14, <1>15, <1>16, <1>17, <1>18, <1>19, <1>20, <1>21, <1>22, <1>23

\* OnStreamFreed finds nothing in the table.
LEMMA EraseNothingStep ==
  ASSUME BridgeAssumption, CoreInv, NEW t \in Callers, EraseChannel(t), table[call[t].handle] = Absent
  PROVE  CoreInv'
<1> USE DEF CoreInv
<1>1. UNCHANGED <<stream, dsp, instance, hooked, table, pendingUnregister, stale, channel, used, calls, callback,
                  made, eos, stop, finished, queued, waiting, rendered, turnedAway, gamePc, dead, deadStale,
                  liveChannels, seen, keptChannels, overtaken, offered>>
  BY DEF EraseChannel, To, CallOnlyMoves, CallKeeps, bassVars, hookVars, tableVars, channelVars, callVars, flagVars,
         pipeVars, tickVars
<1>2. /\ call' \in [Callers -> CallRecords(used')]
      /\ \A u \in Callers \ {t} : call'[u] = call[u]
      /\ call'[t].op = "free" /\ call'[t].pc = "free"
      /\ call'[t].handle = call[t].handle /\ call'[t].channel = call[t].channel
  <2>1. call \in [Callers -> CallRecords(used)] /\ used' \subseteq BassChannels /\ used \subseteq used'
    BY <1>1 DEF BridgeTypeOK, CallRecords, EraseChannel, To
  <2>2. PICK r : r = [call[t] EXCEPT !.pc = "free"]
    OBVIOUS
  <2>3. /\ r \in CallRecords(used')
        /\ r.op = "free" /\ r.pc = "free"
        /\ r.handle = call[t].handle /\ r.channel = call[t].channel
    BY <1>1, <2>1, <2>2 DEF CallRecords, NoCall, EraseChannel, CallSteps
  <2>4. call' = [call EXCEPT ![t] = r]
    BY <2>1, <2>2 DEF EraseChannel, To
  <2> QED
    BY <2>1, <2>3, <2>4 DEF CallRecords
<1>3. \A u \in Callers \ {t} : call'[u] = call[u]
  BY <1>2
<1>4. /\ call'[t].op = "free" /\ call'[t].pc = "free"
      /\ call'[t].handle = call[t].handle /\ call'[t].channel = call[t].channel
  BY <1>2, Zenon
<1>5. call[t].op = "free" /\ call[t].pc = "erase"
  BY DEF EraseChannel
<1>6. call[t].handle \in BassHandles /\ call[t].channel = Absent /\ call[t].handle # Absent
  BY <1>5, CallHas DEF CallSteps
<1>7. Moves(t)
  <2>1. StepOf(call'[t])
    BY <1>3, <1>4, <1>5, <1>6 DEF StepOf, Absent
  <2>2. /\ call[t] # NoCall /\ call[t].pc # "insert" /\ call'[t].pc # "insert"
        /\ \A u \in Callers \ {t} : call'[u] = call[u]
    BY <1>3, <1>4, <1>5, <1>6, NoCallFields
  <2>3. call'[t].pc = "end" => Out(call'[t].channel)
    BY <1>3, <1>4, <1>5, <1>6
  <2>4. \A u \in Callers : call[u].pc = "insert" => call[u].handle # call'[t].handle /\ call[u].channel # call'[t].channel
    BY <1>3, <1>4, <1>5, <1>6, <2>2 DEF OneHandle, CallSteps
  <2> QED
    BY <1>1, <2>1, <2>2, <2>3, <2>4 DEF Moves, HandlesKept
<1>8. call'[t].pc = "play" => dsp[call'[t].handle] \in {call'[t].channel, Absent}
  BY <1>3, <1>4, <1>5, <1>6 DEF DspIsOfItsHandle
<1>9. \A h \in BassHandles : Silenced(h) /\ call[t].op = "play" /\ call[t].handle = h /\ call[t].pc \in {"find", "play"} =>
         call'[t].op = "play" /\ call'[t].handle = h /\ call'[t].pc \in {"find", "play"}
  BY <1>3, <1>4, <1>5, <1>6 DEF Silenced
<1> QED
  BY <1>1, <1>2, <1>7, <1>8, <1>9, OnlyCallMoves

\* OnStreamFreed takes the channel out of the table and its DSP out of BASS in one section.
LEMMA EraseChannelStep ==
  ASSUME BridgeAssumption, CoreInv, NEW t \in Callers, NEW c \in used, c # Absent, EraseChannel(t),
         table[call[t].handle] = c
  PROVE  CoreInv'
<1> USE DEF CoreInv
<1>1. UNCHANGED <<stream, instance, hooked, stale, channel, used, calls, callback, made, eos, stop, finished,
                  queued, waiting, rendered, turnedAway, gamePc, dead, deadStale, liveChannels, seen, keptChannels,
                  overtaken, offered>>
  BY DEF EraseChannel, Erased, DspRemoved, CallKeeps, bassVars, hookVars, tableVars, channelVars, callVars,
         flagVars, pipeVars, tickVars
<1>2. call[t].op = "free" /\ call[t].pc = "erase" /\ c # Absent /\ c \in BassChannels
  BY DEF EraseChannel, BridgeAssumption, BridgeTypeOK
<1>3. /\ call' = [call EXCEPT ![t].pc = "end", ![t].channel = c] /\ table' = [table EXCEPT ![call[t].handle] = Absent]
      /\ pendingUnregister' = pendingUnregister \union {c} /\ callback # c
      /\ dsp' = [h \in BassHandles |-> IF dsp[h] = c THEN Absent ELSE dsp[h]]
  BY <1>2 DEF EraseChannel, Erased, DspRemoved, NotCalledBack
<1>4. /\ call' \in [Callers -> CallRecords(used')]
      /\ \A u \in Callers \ {t} : call'[u] = call[u]
      /\ call'[t].op = "free" /\ call'[t].pc = "end"
      /\ call'[t].handle = call[t].handle /\ call'[t].channel = c
  <2>1. call \in [Callers -> CallRecords(used)] /\ used' \subseteq BassChannels /\ used \subseteq used'
    BY <1>1, <1>2, <1>3 DEF BridgeTypeOK, CallRecords, CallRecords
  <2>2. PICK r : r = [call[t] EXCEPT !.pc = "end", !.channel = c]
    OBVIOUS
  <2>3. /\ r \in CallRecords(used')
        /\ r.op = "free" /\ r.pc = "end"
        /\ r.handle = call[t].handle /\ r.channel = c
    BY <1>1, <1>2, <1>3, <2>1, <2>2 DEF CallRecords, NoCall, CallRecords, CallSteps
  <2>4. call' = [call EXCEPT ![t] = r]
    BY <2>1, <2>2, <1>2, <1>3 DEF CallRecords
  <2> QED
    BY <2>1, <2>3, <2>4 DEF CallRecords
<1>5. \A u \in Callers \ {t} : call'[u] = call[u]
  BY <1>4
<1>6. /\ call'[t].op = "free" /\ call'[t].pc = "end"
      /\ call'[t].handle = call[t].handle /\ call'[t].channel = c
  BY <1>4, Zenon
<1>7. call[t].handle \in BassHandles /\ call[t].handle # Absent /\ call[t].channel = Absent /\ call[t] # NoCall /\ channel[c].handle = call[t].handle
  BY <1>2, CallHas, NoCallFields DEF CallSteps, OneHandle
<1>8. /\ table'[call[t].handle] = Absent /\ \A h \in BassHandles : h # call[t].handle => table'[h] = table[h] /\ table[h] # c
      /\ table' \in [BassHandles -> used' \union {Absent}]
      /\ dsp' \in [BassHandles -> used' \union {Absent}]
      /\ \A h \in BassHandles : dsp'[h] \in {dsp[h], Absent} /\ dsp'[h] # c /\ (dsp'[h] # dsp[h] => dsp[h] = c)
  BY <1>1, <1>2, <1>3, <1>7 DEF BridgeTypeOK, OneHandle
<1>9. \A d : d # Absent => /\ InTable(d)' <=> InTable(d) /\ d # c
                           /\ BeingInserted(d)' <=> BeingInserted(d)
                           /\ BeingInserted(d) => d # c
  <2> TAKE d
  <2> HAVE d # Absent
  <2>1. (InTable(d)' <=> InTable(d) /\ d # c)
    BY <1>7, <1>8 DEF InTable
  <2>2. BeingInserted(d)' <=> BeingInserted(d)
    BY <1>2, <1>5, <1>6 DEF BeingInserted
  <2>3. BeingInserted(d) => d # c
    BY <1>7 DEF BeingInserted, OneHandle, InTable
  <2> QED
    BY <2>1, <2>2, <2>3
<1>10. BridgeTypeOK'
  <2>1. dsp' \in [BassHandles -> used' \union {Absent}]
    BY <1>8
  <2>2. table' \in [BassHandles -> used' \union {Absent}]
    BY <1>8
  <2>3. pendingUnregister' \subseteq used' /\ used' \subseteq BassChannels
    BY <1>1, <1>3 DEF BridgeTypeOK
  <2>4. call' \in [Callers -> CallRecords(used')]
    BY <1>4
  <2> QED
    BY <1>1, <2>1, <2>2, <2>3, <2>4 DEF BridgeTypeOK, CallRecords
<1>11. HasHandle' /\ OneOwner'
  BY <1>1, PartsKept
<1>12. ShutdownIsAlone'
  BY <1>1, <1>2, <1>3, <1>5, <1>6, <1>7, <1>8, <1>9, <1>10
     DEF BridgeTypeOK, BridgeAssumption, CallSteps, ShutdownIsAlone, EraseChannel, Erased, DspRemoved, CallKeeps
<1>13. CallSteps'
  BY <1>1, <1>2, <1>3, <1>5, <1>6, <1>7, <1>8, <1>9, <1>10
     DEF BridgeTypeOK, BridgeAssumption, CallSteps, EraseChannel, Erased, DspRemoved, CallKeeps
<1>14. OneHandle'
  BY <1>1, <1>2, <1>3, <1>5, <1>6, <1>7, <1>8, <1>9, <1>10
     DEF BridgeTypeOK, BridgeAssumption, CallSteps, OneHandle, InTable, Out, BeingInserted, EraseChannel, Erased,
         DspRemoved, CallKeeps
<1>15. DspIsOfItsHandle'
  BY <1>1, <1>2, <1>3, <1>5, <1>6, <1>7, <1>8, <1>9, <1>10
     DEF BridgeTypeOK, BridgeAssumption, CallSteps, DspIsOfItsHandle, EraseChannel, Erased, DspRemoved, CallKeeps
<1>16. TickOrder'
  BY <1>1, <1>2, <1>3, <1>5, <1>6, <1>7, <1>8, <1>9, <1>10
     DEF BridgeTypeOK, BridgeAssumption, CallSteps, TickOrder, InTable, NothingSeen, EraseChannel, Erased,
         DspRemoved, CallKeeps
<1>17. RegisteredIsKnown'
  BY <1>1, <1>2, <1>3, <1>5, <1>6, <1>7, <1>8, <1>9, <1>10
     DEF BridgeTypeOK, BridgeAssumption, CallSteps, RegisteredIsKnown, InTable, EraseChannel, Erased, DspRemoved,
         CallKeeps
<1>18. KnownIsNotStopped'
  BY <1>1, <1>2, <1>3, <1>5, <1>6, <1>7, <1>8, <1>9, <1>10
     DEF BridgeTypeOK, BridgeAssumption, CallSteps, KnownIsNotStopped, InTable, Out, BeingInserted, EraseChannel,
         Erased, DspRemoved, CallKeeps
<1>19. SilenceIsBeingMended'
  BY <1>1, <1>2, <1>3, <1>5, <1>6, <1>7, <1>8, <1>9, <1>10
     DEF BridgeTypeOK, BridgeAssumption, CallSteps, SilenceIsBeingMended, Silenced, Live, BeingPlayed, EraseChannel,
         Erased, DspRemoved, CallKeeps
<1> QED
  BY <1>10, <1>11, <1>12, <1>13, <1>14, <1>15, <1>16, <1>17, <1>18, <1>19

\* The channel goes into the table; one left there by an earlier stream is handed to Tick.
LEMMA OnStreamCreatedStep ==
  ASSUME BridgeAssumption, CoreInv, NEW t \in Callers, NEW g, g = call[t].handle, NEW c, c = call[t].channel,
         OnStreamCreated(t)
  PROVE  CoreInv'
<1> USE DEF CoreInv
<1>1. UNCHANGED <<stream, dsp, instance, hooked, stale, channel, used, calls, callback, made, eos, stop, finished,
                  queued, waiting, rendered, turnedAway, gamePc, dead, deadStale, liveChannels, seen, keptChannels,
                  overtaken, offered>>
  BY DEF OnStreamCreated, CallKeeps, Returns, bassVars, hookVars, tableVars, channelVars, callVars, flagVars,
         pipeVars, tickVars
<1>2. call[t].op = "create" /\ call[t].pc = "insert" /\ call[t] # NoCall
  BY NoCallFields DEF OnStreamCreated
<1>3. /\ g \in BassHandles /\ c \in used /\ c # Absent /\ c \in BassChannels /\ channel[c].handle = g /\ ~InTable(c)
      /\ \A u \in Callers \ {t} : call[u].handle # g /\ call[u].channel # c
      /\ dsp[g] \in {c, Absent}
  BY <1>2, CallHas DEF OneHandle, DspIsOfItsHandle, BridgeTypeOK
<1>4. table' = [table EXCEPT ![g] = c] /\ pendingUnregister' = pendingUnregister \union ({table[g]} \ {Absent})
  BY DEF OnStreamCreated
<1>5. /\ call' \in [Callers -> CallRecords(used')]
      /\ \A u \in Callers \ {t} : call'[u] = call[u]
      /\ call'[t] = NoCall
      /\ call'[t].pc = "out" /\ call'[t].op = Absent /\ call'[t].channel = Absent /\ call'[t].handle = Absent
  <2>1. call \in [Callers -> CallRecords(used)] /\ used' \subseteq BassChannels /\ used \subseteq used'
    BY <1>1, <1>2, <1>3, <1>4 DEF BridgeTypeOK, CallRecords, OnStreamCreated, Returns
  <2>2. PICK r : r = NoCall
    OBVIOUS
  <2>3. /\ r \in CallRecords(used')
        /\ r = NoCall
        /\ r.pc = "out" /\ r.op = Absent /\ r.channel = Absent /\ r.handle = Absent
    BY <1>1, <1>2, <1>3, <1>4, <2>1, <2>2 DEF CallRecords, NoCall, OnStreamCreated, CallSteps
  <2>4. call' = [call EXCEPT ![t] = r]
    BY <2>1, <2>2, <1>2, <1>3, <1>4 DEF OnStreamCreated, Returns
  <2> QED
    BY <2>1, <2>3, <2>4 DEF CallRecords
<1>6. \A u \in Callers \ {t} : call'[u] = call[u]
  BY <1>5
<1>7. /\ call'[t] = NoCall
      /\ call'[t].pc = "out" /\ call'[t].op = Absent /\ call'[t].channel = Absent /\ call'[t].handle = Absent
  BY <1>5, Zenon
<1>8. /\ table'[g] = c /\ \A h \in BassHandles : h # g => table'[h] = table[h] /\ (table[h] # Absent => table[h] # table[g])
      /\ table' \in [BassHandles -> used' \union {Absent}]
  BY <1>1, <1>3, <1>4 DEF BridgeTypeOK, OneHandle
<1>9. \A d : d # Absent => /\ InTable(d)' <=> (InTable(d) /\ d # table[g]) \/ d = c
                           /\ BeingInserted(d)' <=> BeingInserted(d) /\ d # c
                           /\ BeingInserted(d) => ~InTable(d)
  <2> TAKE d
  <2> HAVE d # Absent
  <2>1. InTable(d)' <=> (InTable(d) /\ d # table[g]) \/ d = c
    BY <1>3, <1>8 DEF InTable
  <2>2. BeingInserted(d)' <=> BeingInserted(d) /\ d # c
    BY <1>2, <1>3, <1>6, <1>7 DEF BeingInserted
  <2>3. BeingInserted(d) => ~InTable(d)
    BY DEF BeingInserted, OneHandle
  <2> QED
    BY <2>1, <2>2, <2>3
<1>10. BridgeTypeOK'
  <2>1. table' \in [BassHandles -> used' \union {Absent}]
    BY <1>8
  <2>2. pendingUnregister' \subseteq used' /\ used' \subseteq BassChannels
    BY <1>1, <1>3, <1>4 DEF BridgeTypeOK
  <2>3. call' \in [Callers -> CallRecords(used')]
    BY <1>5
  <2> QED
    BY <1>1, <2>1, <2>2, <2>3 DEF BridgeTypeOK, CallRecords
<1>11. HasHandle' /\ OneOwner'
  BY <1>1, PartsKept
<1>12. ShutdownIsAlone'
  BY <1>1, <1>2, <1>3, <1>4, <1>6, <1>7, <1>8, <1>9, <1>10
     DEF BridgeTypeOK, BridgeAssumption, CallSteps, ShutdownIsAlone
<1>13. CallSteps'
  BY <1>6, <1>7, NoCallSteps, CallStepsKept
<1>14. OneHandle'
  <2>1. \A h \in BassHandles : table'[h] # Absent => channel'[table'[h]].handle = h
    BY <1>1, <1>3, <1>8 DEF OneHandle
  <2>2. ASSUME NEW u \in Callers, call'[u].pc = "insert"
        PROVE  /\ channel'[call'[u].channel].handle = call'[u].handle
               /\ \A v \in Callers \ {u} : call'[v].handle # call'[u].handle /\ call'[v].channel # call'[u].channel
               /\ \A d : d = call'[u].channel => ~InTable(d)'
    <3>1. u # t /\ call'[u] = call[u] /\ call[u].pc = "insert"
      BY <1>6, <1>7, <2>2
    <3>2. call[u].channel # Absent /\ call[u].handle # Absent /\ call[u].channel # c
      BY <1>3, <3>1, CallHas DEF CallSteps
    <3>3. channel[call[u].channel].handle = call[u].handle /\ ~InTable(call[u].channel)
      BY <3>1 DEF OneHandle
    <3>4. \A v \in Callers \ {u} : call'[v].handle # call[u].handle /\ call'[v].channel # call[u].channel
      BY <1>6, <1>7, <3>1, <3>2 DEF OneHandle
    <3>5. \A d : d = call[u].channel => ~InTable(d)'
      BY <1>9, <3>2, <3>3
    <3> QED
      BY <1>1, <3>1, <3>3, <3>4, <3>5
  <2>3. ASSUME NEW d \in used, Out(d) \/ d = table[g] PROVE Out(d)'
    <3>1. d # Absent
      BY DEF BridgeTypeOK, BridgeAssumption
    <3>2. d # c
      BY <1>2, <1>3, <2>3 DEF Out, InTable, BeingInserted
    <3> QED
      BY <1>3, <1>9, <2>3, <3>1, <3>2 DEF Out, InTable
  <2>4. \A d \in (pendingUnregister \union dead)' : Out(d)'
    BY <1>1, <1>3, <1>4, <2>3 DEF OneHandle, BridgeTypeOK
  <2>5. \A u \in Callers : \A d : call'[u].pc = "end" /\ d = call'[u].channel => Out(d)'
    <3> SUFFICES ASSUME NEW u \in Callers, NEW d, call'[u].pc = "end", d = call'[u].channel PROVE Out(d)'
      OBVIOUS
    <3>1. u # t /\ call[u].pc = "end" /\ d = call[u].channel
      BY <1>6, <1>7
    <3>2. Out(d) /\ d \in used
      BY <3>1, CallHas DEF OneHandle
    <3> QED
      BY <2>3, <3>2
  <2>6. \A u \in Callers : call'[u].pc = "insert" => ~InTable(call[u].channel)'
    BY <2>2 DEF InTable
  <2>7. \A u \in Callers : call'[u].pc = "end" => Out(call[u].channel)'
    BY <2>5 DEF Out, InTable, BeingInserted
  <2> QED
    BY <2>1, <2>2, <2>4, <2>6, <2>7 DEF OneHandle
<1>15. DspIsOfItsHandle'
  <2>1. ASSUME NEW h \in BassHandles, dsp[h] # Absent
        PROVE  \/ table'[h] = dsp[h] \/ (gamePc' = "retire" /\ dsp[h] \in dead')
               \/ \E u \in Callers : call'[u].pc = "insert" /\ call'[u].handle = h /\ call'[u].channel = dsp[h]
    <3>1. CASE h = g
      BY <1>3, <1>8, <2>1, <3>1
    <3>2. CASE h # g
      <4>1. \A u \in Callers : call[u].handle = h => call'[u] = call[u]
        BY <1>6, <3>2
      <4> QED
        BY <1>1, <1>8, <2>1, <3>2, <4>1 DEF DspIsOfItsHandle
    <3> QED
      BY <3>1, <3>2
  <2>2. \A u \in Callers : call'[u].pc \in {"insert", "play"} => dsp[call'[u].handle] \in {call'[u].channel, Absent}
    BY <1>6, <1>7 DEF DspIsOfItsHandle
  <2> QED
    BY <1>1, <2>1, <2>2 DEF DspIsOfItsHandle
<1>16. TickOrder'
  <2>1. gamePc \notin {"retire", "down"} /\ (hooked \/ gamePc = "unhook")
    BY <1>2 DEF ShutdownIsAlone, TickOrder
  <2>2. \A d \in liveChannels \union ({seen.channel} \ {Absent}) : InTable(d)' \/ d \in pendingUnregister'
    <3> SUFFICES ASSUME NEW d \in liveChannels \union ({seen.channel} \ {Absent})
                 PROVE  InTable(d)' \/ d \in pendingUnregister'
      OBVIOUS
    <3>1. d # Absent /\ (InTable(d) \/ d \in pendingUnregister)
      BY DEF TickOrder, BridgeTypeOK, BridgeAssumption
    <3> QED
      BY <1>4, <1>9, <3>1
  <2> QED
    BY <1>1, <2>1, <2>2 DEF TickOrder
<1>17. RegisteredIsKnown'
  BY <1>1, <1>2, <1>3, <1>4, <1>6, <1>7, <1>8, <1>9, <1>10
     DEF BridgeTypeOK, BridgeAssumption, CallSteps, RegisteredIsKnown, InTable
<1>18. KnownIsNotStopped'
  BY <1>1, <1>2, <1>3, <1>4, <1>6, <1>7, <1>8, <1>9, <1>10
     DEF BridgeTypeOK, BridgeAssumption, CallSteps, KnownIsNotStopped, InTable, Out, BeingInserted
<1>19. SilenceIsBeingMended'
  BY <1>1, <1>2, <1>3, <1>4, <1>6, <1>7, <1>8, <1>9, <1>10
     DEF BridgeTypeOK, BridgeAssumption, CallSteps, SilenceIsBeingMended, Silenced, Live, BeingPlayed
<1> QED
  BY <1>10, <1>11, <1>12, <1>13, <1>14, <1>15, <1>16, <1>17, <1>18, <1>19

\* The callback captures a block.
LEMMA ProcessBlockStep ==
  ASSUME BridgeAssumption, CoreInv, ProcessBlock
  PROVE  CoreInv'
<1> USE DEF CoreInv
<1>1. UNCHANGED <<stream, dsp, instance, hooked, table, pendingUnregister, stale, channel, used, calls, call, made,
                  eos, stop, finished, waiting, rendered, turnedAway, gamePc, dead, deadStale, liveChannels, seen,
                  keptChannels, overtaken, offered>>
  BY DEF ProcessBlock, CallbackKeeps, Live, bassVars, hookVars, tableVars, channelVars, callVars, flagVars,
         pipeVars, tickVars
<1>2. BridgeTypeOK'
  <2>1. /\ made' \subseteq Sources
       /\ eos' \union stop' \union finished' \union queued' \union waiting' \union rendered' \union stale' \union deadStale'
            \subseteq made'
    BY <1>1 DEF BridgeTypeOK, ProcessBlock, CallbackKeeps, Live, CallRecords
  <2>2. callback' \in used' \union {Absent}
    BY <1>1 DEF BridgeTypeOK, ProcessBlock, CallbackKeeps, Live, CallRecords
  <2> QED
    BY <1>1, <2>1, <2>2 DEF BridgeTypeOK, CallRecords
<1>3. CallSteps' /\ HasHandle' /\ OneHandle' /\ TickOrder' /\ OneOwner' /\ RegisteredIsKnown' /\ KnownIsNotStopped' /\ SilenceIsBeingMended'
  BY <1>1, PartsKept
<1>4. ShutdownIsAlone'
  BY <1>1, <1>2 DEF BridgeTypeOK, BridgeAssumption, CallSteps, ShutdownIsAlone, ProcessBlock, CallbackKeeps, Live
<1>5. DspIsOfItsHandle'
  BY <1>1, <1>2 DEF BridgeTypeOK, BridgeAssumption, CallSteps, DspIsOfItsHandle, ProcessBlock, CallbackKeeps, Live
<1> QED
  BY <1>2, <1>3, <1>4, <1>5

\* The audio thread takes a source from its queue or refuses it.
LEMMA TakeOrTurnAwayStep ==
  ASSUME BridgeAssumption, CoreInv, NEW s \in Sources, TakeOrTurnAway(s)
  PROVE  CoreInv'
<1> USE DEF CoreInv
<1>1. UNCHANGED <<stream, dsp, instance, hooked, table, pendingUnregister, stale, channel, used, calls, call,
                  callback, made, eos, stop, queued, gamePc, dead, deadStale, liveChannels, seen, keptChannels,
                  overtaken, offered>>
  BY DEF TakeOrTurnAway, PipeKeeps, bassVars, hookVars, tableVars, channelVars, callVars, flagVars, pipeVars,
         tickVars
<1>2. BridgeTypeOK'
  <2>1. /\ made' \subseteq Sources
       /\ eos' \union stop' \union finished' \union queued' \union waiting' \union rendered' \union stale' \union deadStale'
            \subseteq made'
    BY <1>1 DEF BridgeTypeOK, TakeOrTurnAway, PipeKeeps, CallRecords
  <2> QED
    BY <1>1, <2>1 DEF BridgeTypeOK, CallRecords
<1>3. ShutdownIsAlone' /\ CallSteps' /\ HasHandle' /\ OneHandle' /\ DspIsOfItsHandle' /\ TickOrder' /\ KnownIsNotStopped'
  BY <1>1, PartsKept
<1>4. OneOwner'
  BY <1>1, <1>2 DEF BridgeTypeOK, BridgeAssumption, CallSteps, OneOwner, TakeOrTurnAway, PipeKeeps
<1>5. RegisteredIsKnown'
  BY <1>1, <1>2 DEF BridgeTypeOK, BridgeAssumption, CallSteps, RegisteredIsKnown, InTable, TakeOrTurnAway, PipeKeeps
<1>6. SilenceIsBeingMended'
  BY <1>1, <1>2
     DEF BridgeTypeOK, BridgeAssumption, CallSteps, SilenceIsBeingMended, Silenced, Live, BeingPlayed,
         TakeOrTurnAway, PipeKeeps
<1> QED
  BY <1>2, <1>3, <1>4, <1>5, <1>6

\* The vectors of Tick go out of scope.
LEMMA TickEndsStep ==
  ASSUME BridgeAssumption, CoreInv, TickEnds
  PROVE  CoreInv'
<1> USE DEF CoreInv
<1>1. UNCHANGED <<stream, dsp, instance, hooked, table, pendingUnregister, stale, channel, used, calls, call,
                  callback, made, eos, stop, finished, queued, waiting, rendered, turnedAway, dead, deadStale,
                  liveChannels, seen, overtaken, offered>>
  BY DEF TickEnds, TickKeeps, bassVars, hookVars, tableVars, channelVars, callVars, flagVars, pipeVars, tickVars
<1>2. BridgeTypeOK'
  <2>1. gamePc' \in {"lua", "dead", "live", "unhook", "retire", "down"}
    BY <1>1 DEF BridgeTypeOK, TickEnds, TickKeeps, CallRecords
  <2>2. dead' \union liveChannels' \union keptChannels' \subseteq used'
    BY <1>1 DEF BridgeTypeOK, TickEnds, TickKeeps, CallRecords
  <2> QED
    BY <1>1, <2>1, <2>2 DEF BridgeTypeOK, CallRecords
<1>3. CallSteps' /\ HasHandle' /\ OneHandle' /\ OneOwner' /\ RegisteredIsKnown' /\ KnownIsNotStopped' /\ SilenceIsBeingMended'
  BY <1>1, PartsKept
<1>4. ShutdownIsAlone'
  BY <1>1, <1>2 DEF BridgeTypeOK, BridgeAssumption, CallSteps, ShutdownIsAlone, TickEnds, TickKeeps
<1>5. DspIsOfItsHandle'
  BY <1>1, <1>2 DEF BridgeTypeOK, BridgeAssumption, CallSteps, DspIsOfItsHandle, TickEnds, TickKeeps
<1>6. TickOrder'
  BY <1>1, <1>2 DEF BridgeTypeOK, BridgeAssumption, CallSteps, TickOrder, InTable, NothingSeen, TickEnds, TickKeeps
<1> QED
  BY <1>2, <1>3, <1>4, <1>5, <1>6

\* Shutdown disables the detours.
LEMMA RemoveDetoursStep ==
  ASSUME BridgeAssumption, CoreInv, RemoveDetours
  PROVE  CoreInv'
<1> USE DEF CoreInv
<1>1. UNCHANGED <<stream, dsp, table, pendingUnregister, stale, channel, used, calls, call, callback, made, eos,
                  stop, finished, queued, waiting, rendered, turnedAway, dead, deadStale, liveChannels, seen,
                  keptChannels, overtaken, offered>>
  BY DEF RemoveDetours, TickKeeps, GameIsIdle, bassVars, hookVars, tableVars, channelVars, callVars, flagVars,
         pipeVars, tickVars
<1>2. BridgeTypeOK'
  <2>1. {instance', hooked'} \subseteq BOOLEAN
    BY <1>1 DEF BridgeTypeOK, RemoveDetours, TickKeeps, GameIsIdle, CallRecords
  <2>2. gamePc' \in {"lua", "dead", "live", "unhook", "retire", "down"}
    BY <1>1 DEF BridgeTypeOK, RemoveDetours, TickKeeps, GameIsIdle, CallRecords
  <2> QED
    BY <1>1, <2>1, <2>2 DEF BridgeTypeOK, CallRecords
<1>3. CallSteps' /\ HasHandle' /\ OneHandle' /\ OneOwner' /\ RegisteredIsKnown' /\ KnownIsNotStopped'
  BY <1>1, PartsKept
<1>4. ShutdownIsAlone'
  BY <1>1, <1>2 DEF BridgeTypeOK, BridgeAssumption, CallSteps, ShutdownIsAlone, RemoveDetours, TickKeeps, GameIsIdle
<1>5. DspIsOfItsHandle'
  BY <1>1, <1>2
     DEF BridgeTypeOK, BridgeAssumption, CallSteps, DspIsOfItsHandle, RemoveDetours, TickKeeps, GameIsIdle
<1>6. TickOrder'
  BY <1>1, <1>2
     DEF BridgeTypeOK, BridgeAssumption, CallSteps, TickOrder, InTable, NothingSeen, RemoveDetours, TickKeeps,
         GameIsIdle
<1>7. SilenceIsBeingMended'
  BY <1>1, <1>2
     DEF BridgeTypeOK, BridgeAssumption, CallSteps, SilenceIsBeingMended, Silenced, Live, BeingPlayed,
         RemoveDetours, TickKeeps, GameIsIdle
<1> QED
  BY <1>2, <1>3, <1>4, <1>5, <1>6, <1>7

\* The vectors of Shutdown go out of scope.
LEMMA ShutdownEndsStep ==
  ASSUME BridgeAssumption, CoreInv, ShutdownEnds
  PROVE  CoreInv'
<1> USE DEF CoreInv
<1>1. UNCHANGED <<stream, dsp, instance, hooked, table, pendingUnregister, stale, channel, used, calls, call,
                  callback, made, eos, stop, finished, queued, waiting, rendered, turnedAway, dead, deadStale,
                  liveChannels, seen, overtaken, offered>>
  BY DEF ShutdownEnds, TickKeeps, bassVars, hookVars, tableVars, channelVars, callVars, flagVars, pipeVars, tickVars
<1>2. BridgeTypeOK'
  <2>1. gamePc' \in {"lua", "dead", "live", "unhook", "retire", "down"}
    BY <1>1 DEF BridgeTypeOK, ShutdownEnds, TickKeeps, CallRecords
  <2>2. dead' \union liveChannels' \union keptChannels' \subseteq used'
    BY <1>1 DEF BridgeTypeOK, ShutdownEnds, TickKeeps, CallRecords
  <2> QED
    BY <1>1, <2>1, <2>2 DEF BridgeTypeOK, CallRecords
<1>3. CallSteps' /\ HasHandle' /\ OneHandle' /\ OneOwner' /\ RegisteredIsKnown' /\ KnownIsNotStopped' /\ SilenceIsBeingMended'
  BY <1>1, PartsKept
<1>4. ShutdownIsAlone'
  BY <1>1, <1>2 DEF BridgeTypeOK, BridgeAssumption, CallSteps, ShutdownIsAlone, ShutdownEnds, TickKeeps
<1>5. DspIsOfItsHandle'
  BY <1>1, <1>2 DEF BridgeTypeOK, BridgeAssumption, CallSteps, DspIsOfItsHandle, ShutdownEnds, TickKeeps
<1>6. TickOrder'
  BY <1>1, <1>2
     DEF BridgeTypeOK, BridgeAssumption, CallSteps, TickOrder, InTable, NothingSeen, ShutdownEnds, TickKeeps
<1> QED
  BY <1>2, <1>3, <1>4, <1>5, <1>6

\* BASS calls the DSP.
LEMMA DspCallbackStep ==
  ASSUME BridgeAssumption, CoreInv, NEW h \in BassHandles, DspCallback(h)
  PROVE  CoreInv'
<1> USE DEF CoreInv
<1>1. UNCHANGED <<stream, dsp, instance, hooked, table, pendingUnregister, stale, channel, used, calls, call, made,
                  eos, stop, finished, queued, waiting, rendered, turnedAway, gamePc, dead, deadStale, liveChannels,
                  seen, keptChannels, overtaken, offered>>
  BY DEF DspCallback, CallbackKeeps, bassVars, hookVars, tableVars, channelVars, callVars, flagVars, pipeVars,
         tickVars
<1>2. BridgeTypeOK'
  <2>1. callback' \in used' \union {Absent}
    BY <1>1 DEF BridgeTypeOK, DspCallback, CallbackKeeps, CallRecords
  <2> QED
    BY <1>1, <2>1 DEF BridgeTypeOK, CallRecords
<1>3. CallSteps' /\ HasHandle' /\ OneHandle' /\ TickOrder' /\ OneOwner' /\ RegisteredIsKnown' /\ KnownIsNotStopped' /\ SilenceIsBeingMended'
  BY <1>1, PartsKept
<1>4. ShutdownIsAlone'
  <2>1. gamePc \notin {"retire", "down"}
    BY DEF DspCallback, TickOrder
  <2> QED
    BY <1>1, <2>1 DEF ShutdownIsAlone
<1>5. DspIsOfItsHandle'
  BY <1>1, <1>2 DEF BridgeTypeOK, BridgeAssumption, CallSteps, DspIsOfItsHandle, DspCallback, CallbackKeeps
<1> QED
  BY <1>2, <1>3, <1>4, <1>5

\* The audio thread renders a source or ends it; only one that was told to end is finished.
LEMMA RenderStep ==
  ASSUME BridgeAssumption, CoreInv, NEW s \in Sources, Render(s)
  PROVE  CoreInv'
<1> USE DEF CoreInv
<1>1. UNCHANGED <<stream, dsp, instance, hooked, table, pendingUnregister, stale, channel, used, calls, call,
                  callback, made, eos, stop, waiting, turnedAway, gamePc, dead, deadStale, liveChannels, seen,
                  keptChannels, overtaken, offered>>
  BY DEF Render, PipeKeeps, bassVars, hookVars, tableVars, channelVars, callVars, flagVars, pipeVars, tickVars
<1>2. finished' \subseteq finished \union ({s} \intersect (stop \union eos))
  BY DEF Render
<1>3. BridgeTypeOK'
  <2>1. /\ made' \subseteq Sources
       /\ eos' \union stop' \union finished' \union queued' \union waiting' \union rendered' \union stale' \union deadStale'
            \subseteq made'
    BY <1>1, <1>2 DEF BridgeTypeOK, Render, PipeKeeps, CallRecords
  <2> QED
    BY <1>1, <2>1 DEF BridgeTypeOK, CallRecords
<1>4. ShutdownIsAlone' /\ CallSteps' /\ HasHandle' /\ OneHandle' /\ DspIsOfItsHandle' /\ TickOrder' /\ KnownIsNotStopped'
  BY <1>1, PartsKept
<1>5. OneOwner'
  BY <1>1, <1>2, <1>3 DEF BridgeTypeOK, BridgeAssumption, CallSteps, OneOwner, Render, PipeKeeps
<1>6. RegisteredIsKnown'
  BY <1>1, <1>2, <1>3 DEF BridgeTypeOK, BridgeAssumption, CallSteps, RegisteredIsKnown, InTable, Render, PipeKeeps
<1>7. SilenceIsBeingMended'
  <2>1. ASSUME NEW h \in BassHandles, Silenced(h)' PROVE Silenced(h)
    <3>1. instance /\ stream[h] = "playing" /\ dsp[h] # Absent /\ ~channel[dsp[h]].rejected
      BY <1>1, <2>1 DEF Silenced
    <3>2. channel[dsp[h]].source \in {Absent} \union eos' \union finished'
      BY <1>1, <2>1 DEF Silenced, Live
    <3>3. dsp[h] \in used /\ channel[dsp[h]].source \notin stop
      BY <3>1, DspIsKnown DEF TickOrder
    <3> QED
      BY <1>1, <1>2, <3>1, <3>2, <3>3 DEF Silenced, Live
  <2> QED
    BY <1>1, <2>1 DEF SilenceIsBeingMended, BeingPlayed
<1> QED
  BY <1>3, <1>4, <1>5, <1>6, <1>7

\* Tick ends the source that a restart replaced.
LEMMA TickStaleStep ==
  ASSUME BridgeAssumption, CoreInv, NEW s \in Sources, TickStale(s)
  PROVE  CoreInv'
<1> USE DEF CoreInv
<1>1. UNCHANGED <<stream, dsp, instance, hooked, table, pendingUnregister, stale, channel, used, calls, call,
                  callback, made, stop, finished, queued, waiting, rendered, turnedAway, gamePc, dead, liveChannels,
                  seen, keptChannels, overtaken, offered>>
  BY DEF TickStale, TickKeeps, bassVars, hookVars, tableVars, channelVars, callVars, flagVars, pipeVars, tickVars
<1>2. s \in deadStale /\ eos' = eos \union {s}
  BY DEF TickStale
<1>3. BridgeTypeOK'
  <2>1. /\ made' \subseteq Sources
       /\ eos' \union stop' \union finished' \union queued' \union waiting' \union rendered' \union stale' \union deadStale'
            \subseteq made'
    BY <1>1, <1>2 DEF BridgeTypeOK, TickStale, TickKeeps, CallRecords
  <2> QED
    BY <1>1, <2>1 DEF BridgeTypeOK, CallRecords
<1>4. ShutdownIsAlone' /\ CallSteps' /\ HasHandle' /\ OneHandle' /\ DspIsOfItsHandle' /\ KnownIsNotStopped'
  BY <1>1, PartsKept
<1>5. TickOrder'
  BY <1>1, <1>2, <1>3
     DEF BridgeTypeOK, BridgeAssumption, CallSteps, TickOrder, InTable, NothingSeen, TickStale, TickKeeps
<1>6. OneOwner'
  BY <1>1, <1>2, <1>3 DEF BridgeTypeOK, BridgeAssumption, CallSteps, OneOwner, TickStale, TickKeeps
<1>7. RegisteredIsKnown'
  BY <1>1, <1>2, <1>3
     DEF BridgeTypeOK, BridgeAssumption, CallSteps, RegisteredIsKnown, InTable, TickStale, TickKeeps
<1>8. SilenceIsBeingMended'
  <2>1. ASSUME NEW h \in BassHandles, Silenced(h)' PROVE Silenced(h)
    <3>1. instance /\ stream[h] = "playing" /\ dsp[h] # Absent /\ ~channel[dsp[h]].rejected
      BY <1>1, <2>1 DEF Silenced
    <3>2. channel[dsp[h]].source \in {Absent} \union eos' \union finished'
      BY <1>1, <2>1 DEF Silenced, Live
    <3>3. dsp[h] \in used /\ channel[dsp[h]].source \notin stop
      BY <3>1, DspIsKnown DEF TickOrder
    <3> QED
      BY <1>1, <1>2, <3>1, <3>2, <3>3 DEF Silenced, Live, OneOwner
  <2> QED
    BY <1>1, <2>1 DEF SilenceIsBeingMended, BeingPlayed
<1> QED
  BY <1>3, <1>4, <1>5, <1>6, <1>7, <1>8

\* The detours are installed: no DSP exists yet.
LEMMA AttachStep ==
  ASSUME BridgeAssumption, CoreInv, Attach
  PROVE  CoreInv'
<1> USE DEF CoreInv
<1>1. UNCHANGED <<stream, dsp, table, pendingUnregister, stale, channel, used, calls, call, callback, made, eos,
                  stop, finished, queued, waiting, rendered, turnedAway, gamePc, dead, deadStale, liveChannels,
                  seen, keptChannels, overtaken, offered>>
  BY DEF Attach, TickKeeps, GameIsIdle, bassVars, hookVars, tableVars, channelVars, callVars, flagVars, pipeVars,
         tickVars
<1>2. \A h \in BassHandles : dsp[h] = Absent
  BY DEF Attach, GameIsIdle, TickOrder
<1>3. BridgeTypeOK'
  <2>1. {instance', hooked'} \subseteq BOOLEAN
    BY <1>1, <1>2 DEF BridgeTypeOK, Attach, TickKeeps, GameIsIdle, CallRecords
  <2> QED
    BY <1>1, <2>1 DEF BridgeTypeOK, CallRecords
<1>4. ShutdownIsAlone' /\ CallSteps' /\ HasHandle' /\ OneHandle' /\ DspIsOfItsHandle' /\ OneOwner' /\ RegisteredIsKnown' /\ KnownIsNotStopped'
  BY <1>1, PartsKept
<1>5. TickOrder'
  BY <1>1, <1>2, <1>3
     DEF BridgeTypeOK, BridgeAssumption, CallSteps, TickOrder, InTable, NothingSeen, Attach, TickKeeps, GameIsIdle
<1>6. SilenceIsBeingMended'
  BY <1>1, <1>2 DEF SilenceIsBeingMended, Silenced
<1> QED
  BY <1>3, <1>4, <1>5, <1>6

\* Tick takes the lists.
LEMMA BeginTickStep ==
  ASSUME BridgeAssumption, CoreInv, BeginTick
  PROVE  CoreInv'
<1> USE DEF CoreInv
<1>1. UNCHANGED <<stream, dsp, instance, hooked, table, channel, used, calls, call, callback, made, eos, stop,
                  finished, queued, waiting, rendered, turnedAway, liveChannels, seen, overtaken, offered>>
  BY DEF BeginTick, TickKeeps, GameIsIdle, bassVars, hookVars, tableVars, channelVars, callVars, flagVars, pipeVars,
         tickVars
<1>2. /\ dead = {} /\ deadStale = {} /\ liveChannels = {} /\ seen = NothingSeen /\ seen.channel = Absent
  BY DEF BeginTick, GameIsIdle, TickOrder, NothingSeen
<1>3. BridgeTypeOK'
  <2>1. pendingUnregister' \subseteq used' /\ used' \subseteq BassChannels
    BY <1>1, <1>2 DEF BridgeTypeOK, BeginTick, TickKeeps, GameIsIdle, CallRecords
  <2>2. /\ made' \subseteq Sources
       /\ eos' \union stop' \union finished' \union queued' \union waiting' \union rendered' \union stale' \union deadStale'
            \subseteq made'
    BY <1>1, <1>2 DEF BridgeTypeOK, BeginTick, TickKeeps, GameIsIdle, CallRecords
  <2>3. gamePc' \in {"lua", "dead", "live", "unhook", "retire", "down"}
    BY <1>1, <1>2 DEF BridgeTypeOK, BeginTick, TickKeeps, GameIsIdle, CallRecords
  <2>4. dead' \union liveChannels' \union keptChannels' \subseteq used'
    BY <1>1, <1>2 DEF BridgeTypeOK, BeginTick, TickKeeps, GameIsIdle, CallRecords
  <2> QED
    BY <1>1, <2>1, <2>2, <2>3, <2>4 DEF BridgeTypeOK, CallRecords
<1>4. CallSteps' /\ HasHandle' /\ KnownIsNotStopped' /\ SilenceIsBeingMended'
  BY <1>1, PartsKept
<1>5. ShutdownIsAlone'
  BY <1>1, <1>2, <1>3
     DEF BridgeTypeOK, BridgeAssumption, CallSteps, ShutdownIsAlone, BeginTick, TickKeeps, GameIsIdle
<1>6. OneHandle'
  BY <1>1, <1>2, <1>3
     DEF BridgeTypeOK, BridgeAssumption, CallSteps, OneHandle, InTable, Out, BeingInserted, BeginTick, TickKeeps,
         GameIsIdle
<1>7. DspIsOfItsHandle'
  BY <1>1, <1>2, <1>3
     DEF BridgeTypeOK, BridgeAssumption, CallSteps, DspIsOfItsHandle, BeginTick, TickKeeps, GameIsIdle
<1>8. TickOrder'
  BY <1>1, <1>2, <1>3
     DEF BridgeTypeOK, BridgeAssumption, CallSteps, TickOrder, InTable, NothingSeen, BeginTick, TickKeeps,
         GameIsIdle
<1>9. OneOwner'
  BY <1>1, <1>2, <1>3 DEF BridgeTypeOK, BridgeAssumption, CallSteps, OneOwner, BeginTick, TickKeeps, GameIsIdle
<1>10. RegisteredIsKnown'
  BY <1>1, <1>2, <1>3
     DEF BridgeTypeOK, BridgeAssumption, CallSteps, RegisteredIsKnown, InTable, BeginTick, TickKeeps, GameIsIdle
<1> QED
  BY <1>3, <1>4, <1>5, <1>6, <1>7, <1>8, <1>9, <1>10

\* Tick copies the table.
LEMMA ListLiveStep ==
  ASSUME BridgeAssumption, CoreInv, ListLive
  PROVE  CoreInv'
<1> USE DEF CoreInv
<1>1. UNCHANGED <<stream, dsp, instance, hooked, table, pendingUnregister, stale, channel, used, calls, call,
                  callback, made, eos, stop, finished, queued, waiting, rendered, turnedAway, dead, deadStale, seen,
                  overtaken, offered>>
  BY DEF ListLive, TickKeeps, bassVars, hookVars, tableVars, channelVars, callVars, flagVars, pipeVars, tickVars
<1>2. gamePc = "dead" /\ dead = {} /\ deadStale = {} /\ seen = NothingSeen /\ seen.channel = Absent
  BY DEF ListLive, TickOrder, NothingSeen
<1>3. BridgeTypeOK'
  <2>1. gamePc' \in {"lua", "dead", "live", "unhook", "retire", "down"}
    BY <1>1, <1>2 DEF BridgeTypeOK, ListLive, TickKeeps, CallRecords
  <2>2. dead' \union liveChannels' \union keptChannels' \subseteq used'
    BY <1>1, <1>2 DEF BridgeTypeOK, ListLive, TickKeeps, CallRecords
  <2> QED
    BY <1>1, <2>1, <2>2 DEF BridgeTypeOK, CallRecords
<1>4. CallSteps' /\ HasHandle' /\ OneHandle' /\ OneOwner' /\ RegisteredIsKnown' /\ KnownIsNotStopped' /\ SilenceIsBeingMended'
  BY <1>1, PartsKept
<1>5. ShutdownIsAlone'
  BY <1>1, <1>2, <1>3 DEF BridgeTypeOK, BridgeAssumption, CallSteps, ShutdownIsAlone, ListLive, TickKeeps
<1>6. DspIsOfItsHandle'
  BY <1>1, <1>2, <1>3 DEF BridgeTypeOK, BridgeAssumption, CallSteps, DspIsOfItsHandle, ListLive, TickKeeps
<1>7. TickOrder'
  BY <1>1, <1>2, <1>3
     DEF BridgeTypeOK, BridgeAssumption, CallSteps, TickOrder, InTable, NothingSeen, ListLive, TickKeeps
<1> QED
  BY <1>3, <1>4, <1>5, <1>6, <1>7

\* Tick reads the state of a stream, outside ch->lock.
LEMMA LookAtChannelStep ==
  ASSUME BridgeAssumption, CoreInv, NEW c \in BassChannels, LookAtChannel(c)
  PROVE  CoreInv'
<1> USE DEF CoreInv
<1>1. UNCHANGED <<stream, dsp, instance, hooked, table, pendingUnregister, stale, channel, used, calls, call,
                  callback, made, eos, stop, finished, queued, waiting, rendered, turnedAway, gamePc, dead,
                  deadStale, keptChannels, overtaken, offered>>
  BY DEF LookAtChannel, TickKeeps, bassVars, hookVars, tableVars, channelVars, callVars, flagVars, pipeVars,
         tickVars
<1>2. c \in used /\ c # Absent /\ channel[c].handle \in BassHandles /\ gamePc = "live"
  BY DEF LookAtChannel, BridgeTypeOK, BridgeAssumption, HasHandle
<1>3. seen' \in [channel : used \union {Absent}, state : States] /\ seen'.channel = c
  BY <1>2 DEF LookAtChannel, BridgeTypeOK
<1>4. BridgeTypeOK'
  <2>1. dead' \union liveChannels' \union keptChannels' \subseteq used'
    BY <1>1, <1>2, <1>3 DEF BridgeTypeOK, LookAtChannel, TickKeeps, CallRecords
  <2>2. seen' \in [channel : used' \union {Absent}, state : States]
    BY <1>1, <1>3
  <2> QED
    BY <1>1, <2>1, <2>2 DEF BridgeTypeOK, CallRecords
<1>5. ShutdownIsAlone' /\ CallSteps' /\ HasHandle' /\ OneHandle' /\ DspIsOfItsHandle' /\ OneOwner' /\ RegisteredIsKnown' /\ KnownIsNotStopped' /\ SilenceIsBeingMended'
  BY <1>1, PartsKept
<1>6. TickOrder'
  BY <1>1, <1>2, <1>3, <1>4
     DEF BridgeTypeOK, BridgeAssumption, CallSteps, TickOrder, InTable, NothingSeen, LookAtChannel, TickKeeps
<1> QED
  BY <1>4, <1>5, <1>6

\* Shutdown has waited for all calls, and takes the table and the lists.
LEMMA TakeAllStep ==
  ASSUME BridgeAssumption, CoreInv, TakeAll
  PROVE  CoreInv'
<1> USE DEF CoreInv
<1>1. UNCHANGED <<stream, dsp, instance, hooked, channel, used, calls, call, callback, made, eos, stop, finished,
                  queued, waiting, rendered, turnedAway, liveChannels, seen, overtaken, offered>>
  BY DEF TakeAll, TickKeeps, ReadersAreGone, bassVars, hookVars, tableVars, channelVars, callVars, flagVars,
         pipeVars, tickVars
<1>2. /\ dead = {} /\ deadStale = {} /\ liveChannels = {} /\ seen = NothingSeen /\ seen.channel = Absent /\ ~hooked /\ ~instance
  BY DEF TakeAll, TickOrder, NothingSeen
<1>3. /\ gamePc' = "retire" /\ pendingUnregister' = {} /\ keptChannels' = dead' /\ \A h \in BassHandles : table'[h] = Absent
      /\ dead' = pendingUnregister \union ({table[h] : h \in BassHandles} \ {Absent})
  BY DEF TakeAll
<1>4. BridgeTypeOK'
  <2>1. table' \in [BassHandles -> used' \union {Absent}]
    BY <1>1, <1>2, <1>3 DEF BridgeTypeOK, TakeAll, TickKeeps, ReadersAreGone, CallRecords
  <2>2. pendingUnregister' \subseteq used' /\ used' \subseteq BassChannels
    BY <1>1, <1>2, <1>3 DEF BridgeTypeOK, TakeAll, TickKeeps, ReadersAreGone, CallRecords
  <2>3. /\ made' \subseteq Sources
       /\ eos' \union stop' \union finished' \union queued' \union waiting' \union rendered' \union stale' \union deadStale'
            \subseteq made'
    BY <1>1, <1>2, <1>3 DEF BridgeTypeOK, TakeAll, TickKeeps, ReadersAreGone, CallRecords
  <2>4. gamePc' \in {"lua", "dead", "live", "unhook", "retire", "down"}
    BY <1>1, <1>2, <1>3 DEF BridgeTypeOK, TakeAll, TickKeeps, ReadersAreGone, CallRecords
  <2>5. dead' \union liveChannels' \union keptChannels' \subseteq used'
    BY <1>1, <1>2, <1>3 DEF BridgeTypeOK, TakeAll, TickKeeps, ReadersAreGone, CallRecords
  <2> QED
    BY <1>1, <2>1, <2>2, <2>3, <2>4, <2>5 DEF BridgeTypeOK, CallRecords
<1>5. CallSteps' /\ HasHandle' /\ SilenceIsBeingMended'
  BY <1>1, PartsKept
<1>6. ShutdownIsAlone'
  BY <1>1, <1>2, <1>3, <1>4
     DEF BridgeTypeOK, BridgeAssumption, CallSteps, ShutdownIsAlone, TakeAll, TickKeeps, ReadersAreGone
<1>7. OneHandle'
  BY <1>1, <1>2, <1>3, <1>4
     DEF BridgeTypeOK, BridgeAssumption, CallSteps, OneHandle, InTable, Out, BeingInserted, TakeAll, TickKeeps,
         ReadersAreGone
<1>8. DspIsOfItsHandle'
  BY <1>1, <1>2, <1>3, <1>4
     DEF BridgeTypeOK, BridgeAssumption, CallSteps, DspIsOfItsHandle, TakeAll, TickKeeps, ReadersAreGone
<1>9. TickOrder'
  BY <1>1, <1>2, <1>3, <1>4 DEF TickOrder, InTable, BridgeTypeOK
<1>10. OneOwner'
  BY <1>1, <1>2, <1>3, <1>4
     DEF BridgeTypeOK, BridgeAssumption, CallSteps, OneOwner, TakeAll, TickKeeps, ReadersAreGone
<1>11. RegisteredIsKnown'
  <2>1. \A c \in used : c # Absent
    BY DEF BridgeTypeOK, BridgeAssumption
  <2>2. \A c \in used' : channel'[c].registered => InTable(c)' \/ c \in (pendingUnregister \union dead)'
    BY <1>1, <1>2, <1>3, <2>1 DEF RegisteredIsKnown, InTable
  <2> QED
    BY <1>1, <2>2 DEF RegisteredIsKnown
<1>12. KnownIsNotStopped'
  BY <1>1, <1>2, <1>3, <1>4
     DEF BridgeTypeOK, BridgeAssumption, CallSteps, KnownIsNotStopped, InTable, Out, BeingInserted, TakeAll,
         TickKeeps, ReadersAreGone
<1> QED
  BY <1>4, <1>5, <1>6, <1>7, <1>8, <1>9, <1>10, <1>11, <1>12

\* Shutdown stops the source that a restart replaced.
LEMMA RetireStaleStep ==
  ASSUME BridgeAssumption, CoreInv, NEW s \in Sources, RetireStale(s)
  PROVE  CoreInv'
<1> USE DEF CoreInv
<1>1. UNCHANGED <<stream, dsp, instance, hooked, table, pendingUnregister, stale, channel, used, calls, call,
                  callback, made, finished, queued, waiting, rendered, turnedAway, gamePc, dead, liveChannels, seen,
                  keptChannels, overtaken, offered>>
  BY DEF RetireStale, TickKeeps, bassVars, hookVars, tableVars, channelVars, callVars, flagVars, pipeVars, tickVars
<1>2. s \in deadStale /\ stop' = stop \union {s} /\ ~instance /\ s # Absent
  BY DEF RetireStale, TickOrder, BridgeAssumption
<1>3. BridgeTypeOK'
  <2>1. /\ made' \subseteq Sources
       /\ eos' \union stop' \union finished' \union queued' \union waiting' \union rendered' \union stale' \union deadStale'
            \subseteq made'
    BY <1>1, <1>2 DEF BridgeTypeOK, RetireStale, TickKeeps, CallRecords
  <2> QED
    BY <1>1, <2>1 DEF BridgeTypeOK, CallRecords
<1>4. ShutdownIsAlone' /\ CallSteps' /\ HasHandle' /\ OneHandle' /\ DspIsOfItsHandle'
  BY <1>1, PartsKept
<1>5. TickOrder'
  BY <1>1, <1>2, <1>3
     DEF BridgeTypeOK, BridgeAssumption, CallSteps, TickOrder, InTable, NothingSeen, RetireStale, TickKeeps
<1>6. OneOwner'
  BY <1>1, <1>2, <1>3 DEF BridgeTypeOK, BridgeAssumption, CallSteps, OneOwner, RetireStale, TickKeeps
<1>7. RegisteredIsKnown'
  BY <1>1, <1>2, <1>3
     DEF BridgeTypeOK, BridgeAssumption, CallSteps, RegisteredIsKnown, InTable, RetireStale, TickKeeps
<1>8. KnownIsNotStopped'
  <2>1. \A c \in used : ~Out(c)' => ~Out(c) /\ channel[c].source # s
    BY <1>1, <1>2 DEF Out, InTable, BeingInserted, OneOwner
  <2> QED
    BY <1>1, <1>2, <2>1 DEF KnownIsNotStopped
<1>9. SilenceIsBeingMended'
  BY <1>1, <1>2 DEF SilenceIsBeingMended, Silenced
<1> QED
  BY <1>3, <1>4, <1>5, <1>6, <1>7, <1>8, <1>9

\* A channel out of the table gives up its source in Tick.
LEMMA TickDeadStep ==
  ASSUME BridgeAssumption, CoreInv, NEW c \in BassChannels, TickDead(c)
  PROVE  CoreInv'
<1> USE DEF CoreInv
<1>1. UNCHANGED <<stream, dsp, instance, hooked, table, pendingUnregister, stale, used, calls, call, callback, made,
                  stop, finished, queued, rendered, turnedAway, gamePc, deadStale, liveChannels, seen, keptChannels,
                  overtaken>>
  BY DEF TickDead, TickKeeps, bassVars, hookVars, tableVars, channelVars, callVars, flagVars, pipeVars, tickVars
<1>2. /\ gamePc = "dead" /\ c \in dead /\ c \in used /\ c # Absent /\ Out(c) /\ channel[c].source \in made \union {Absent}
      /\ Absent \notin made \union stale \union deadStale \union offered
  BY DEF TickDead, OneHandle, OneOwner, BridgeTypeOK, BridgeAssumption
<1>3. /\ channel' \in [BassChannels -> [handle : BassHandles \union {Absent}, source : made' \union {Absent},
                                           registered : BOOLEAN, rejected : BOOLEAN]]
  BY <1>1, GivesUp DEF TickDead
<1>4. /\ channel'[c].source = Absent /\ channel'[c].registered = FALSE
      /\ \A d \in BassChannels : d # c => channel'[d] = channel[d]
      /\ HandlesKept
  BY <1>1, GivesUp DEF TickDead
<1>5. /\ eos' = eos \union ({channel[c].source} \ {Absent}) /\ dead' = dead \ {c}
  BY DEF TickDead
<1>6. \A d : (InTable(d)' <=> InTable(d)) /\ (BeingInserted(d)' <=> BeingInserted(d)) /\ (Out(d)' <=> Out(d)) /\ (d \in dead' <=> d \in dead /\ d # c)
  BY <1>1, <1>5 DEF InTable, BeingInserted, Out
<1>7. \/ waiting' = waiting /\ offered' = offered
      \/ /\ channel[c].source \in made \ offered /\ offered' = offered \union {channel[c].source}
         /\ waiting \subseteq waiting' /\ waiting' \subseteq waiting \union {channel[c].source}
  BY <1>2 DEF TickDead, RegisterSource, OneOwner, BridgeTypeOK
<1>8. BridgeTypeOK'
  <2>1. channel' \in [BassChannels -> [handle : BassHandles \union {Absent}, source : made' \union {Absent},
                                     registered : BOOLEAN, rejected : BOOLEAN]]
    BY <1>3
  <2>2. /\ made' \subseteq Sources
       /\ eos' \union stop' \union finished' \union queued' \union waiting' \union rendered' \union stale' \union deadStale'
            \subseteq made'
    BY <1>1, <1>2, <1>5, <1>7 DEF BridgeTypeOK
  <2>3. dead' \union liveChannels' \union keptChannels' \subseteq used'
    BY <1>1, <1>2, <1>3, <1>4, <1>5, <1>6, <1>7 DEF BridgeTypeOK, TickDead, TickKeeps, CallRecords
  <2> QED
    BY <1>1, <2>1, <2>2, <2>3 DEF BridgeTypeOK, CallRecords
<1>9. ShutdownIsAlone' /\ CallSteps'
  BY <1>1, PartsKept
<1>10. HasHandle'
  BY <1>1, <1>2, <1>4 DEF HasHandle, HandlesKept, BridgeTypeOK
<1>11. OneHandle'
  <2>1. \A h \in BassHandles : table[h] # Absent => table[h] \in BassChannels
    BY DEF BridgeTypeOK
  <2>2. \A u \in Callers : call[u].pc = "insert" => call[u].channel \in BassChannels
    BY CallHas DEF BridgeTypeOK
  <2> QED
    BY <1>1, <1>2, <1>4, <1>6, <2>1, <2>2 DEF OneHandle, HandlesKept, InTable, Out, BeingInserted
<1>12. DspIsOfItsHandle'
  <2>1. callback' # Absent => \E g \in BassHandles : dsp'[g] = callback'
    BY <1>1 DEF DspIsOfItsHandle
  <2>2. \A u \in Callers : call'[u].pc \in {"insert", "play"} => dsp'[call'[u].handle] \in {call'[u].channel, Absent}
    BY <1>1, CallHas DEF DspIsOfItsHandle
  <2>3. \A g \in BassHandles : dsp'[g] \in {dsp[g], Absent} /\ (stream'[g] = Absent => dsp'[g] = Absent)
    BY <1>1 DEF DspIsOfItsHandle
  <2>4. \A g \in BassHandles : dsp[g] \in BassChannels \union {Absent}
    BY DEF BridgeTypeOK
  <2>5. \A h \in BassHandles : dsp'[h] # Absent =>
          /\ table[h] = dsp[h] => table'[h] = table[h]
          /\ gamePc = "retire" /\ dsp[h] \in dead => gamePc' = "retire" /\ dsp[h] \in dead'
    BY <1>1, <1>2
  <2> QED
    BY <1>1, <1>4, <2>1, <2>2, <2>3, <2>4, <2>5, DspKept
<1>13. TickOrder'
  BY <1>1, <1>2, <1>3, <1>4, <1>5, <1>6, <1>7, <1>8
     DEF BridgeTypeOK, BridgeAssumption, CallSteps, TickOrder, InTable, NothingSeen
<1>14. OneOwner'
  <2>1. \A d \in used : d # c => channel'[d] = channel[d] /\ channel[d].source \in made \union {Absent}
    BY <1>4 DEF BridgeTypeOK
  <2>2. \A d, e \in used' : channel'[d].source = channel'[e].source /\ channel'[d].source # Absent => d = e
    BY <1>1, <1>4, <2>1 DEF OneOwner
  <2>3. \A d \in used' : channel'[d].source \notin (stale \union deadStale)'
    BY <1>1, <1>2, <1>4, <2>1 DEF OneOwner
  <2>4. \A d \in used' : channel'[d].source \in offered' => channel'[d].registered \/ channel'[d].rejected
    BY <1>1, <1>2, <1>4, <1>7, <2>1 DEF OneOwner
  <2> QED
    BY <1>1, <1>2, <1>7, <2>2, <2>3, <2>4 DEF OneOwner
<1>15. RegisteredIsKnown'
  <2>1. \A d \in used : d # c => channel'[d] = channel[d]
    BY <1>4 DEF BridgeTypeOK
  <2>2. \A d \in used' : channel'[d].registered => InTable(d)' \/ d \in (pendingUnregister \union dead)'
    BY <1>1, <1>4, <1>6, <2>1 DEF RegisteredIsKnown
  <2>3. ASSUME NEW x \in (waiting' \union rendered') \ (eos' \union stop') PROVE \E d \in used : channel'[d].source = x /\ channel'[d].registered
    <3>1. x # channel[c].source /\ x \in (waiting \union rendered) \ (eos \union stop)
      BY <1>1, <1>2, <1>5, <1>7 DEF BridgeTypeOK
    <3>2. PICK d \in used : channel[d].source = x /\ channel[d].registered
      BY <3>1 DEF RegisteredIsKnown
    <3> QED
      BY <2>1, <3>1, <3>2
  <2> QED
    BY <1>1, <2>2, <2>3 DEF RegisteredIsKnown
<1>16. KnownIsNotStopped'
  <2>1. \A d \in used : ~Out(d)' => ~Out(d) /\ d # c /\ channel'[d] = channel[d]
    BY <1>2, <1>4, <1>6 DEF BridgeTypeOK
  <2> QED
    BY <1>1, <2>1 DEF KnownIsNotStopped
<1>17. SilenceIsBeingMended'
  <2>1. ASSUME NEW h \in BassHandles, Silenced(h)' PROVE Silenced(h) /\ channel'[dsp[h]] = channel[dsp[h]]
    <3>1. dsp[h] # Absent
      BY <1>1, <2>1 DEF Silenced
    <3>2. dsp[h] # c /\ dsp[h] \in BassChannels /\ channel[c].source # channel[dsp[h]].source /\ channel[dsp[h]].source # Absent
      BY <1>2, <3>1, DspIsKnown DEF BridgeTypeOK
    <3>3. channel'[dsp[h]] = channel[dsp[h]]
      BY <1>4, <3>2
    <3> QED
      BY <1>1, <1>5, <2>1, <3>2, <3>3 DEF Silenced, Live
  <2> QED
    BY <1>1, <2>1 DEF SilenceIsBeingMended, BeingPlayed
<1> QED
  BY <1>8, <1>9, <1>10, <1>11, <1>12, <1>13, <1>14, <1>15, <1>16, <1>17

\* Tick retires a channel whose stream is gone.
LEMMA RetireVanishedStep ==
  ASSUME BridgeAssumption, CoreInv, NEW c, c = seen.channel, RetireVanished
  PROVE  CoreInv'
<1> USE DEF CoreInv
<1>1. UNCHANGED <<stream, instance, hooked, pendingUnregister, stale, used, calls, call, callback, made, stop,
                  finished, queued, waiting, rendered, turnedAway, gamePc, dead, deadStale, liveChannels,
                  keptChannels, overtaken, offered>>
  BY DEF RetireVanished, TickKeeps, DspRemoved, NotCalledBack, bassVars, hookVars, tableVars, channelVars, callVars,
         flagVars, pipeVars, tickVars
<1>2. /\ gamePc = "live" /\ c \in used /\ c # Absent /\ channel[c].source \in made \union {Absent}
      /\ Absent \notin made \union stale \union deadStale \union offered /\ ~BeingInserted(c) /\ c \in BassChannels
  <2>1. c # Absent /\ seen.channel = c
    BY DEF RetireVanished
  <2>2. c \in used /\ channel[c].source \in made \union {Absent} /\ Absent \notin made \union stale \union deadStale \union offered /\ c \in BassChannels
    BY <2>1 DEF BridgeTypeOK, OneOwner, BridgeAssumption
  <2>3. gamePc = "live" /\ (InTable(c) \/ c \in pendingUnregister)
    BY <2>1 DEF TickOrder, NothingSeen
  <2>4. ~BeingInserted(c)
    BY <2>3 DEF OneHandle, Out, BeingInserted
  <2> QED
    BY <2>1, <2>2, <2>3, <2>4
<1>3. /\ channel' \in [BassChannels -> [handle : BassHandles \union {Absent}, source : made' \union {Absent},
                                           registered : BOOLEAN, rejected : BOOLEAN]]
  BY <1>1, <1>2, GivesUp DEF RetireVanished
<1>4. /\ channel'[c].source = Absent /\ channel'[c].registered = FALSE
      /\ \A d \in BassChannels : d # c => channel'[d] = channel[d]
      /\ HandlesKept
  BY <1>1, <1>2, GivesUp DEF RetireVanished
<1>5. eos' = eos \union ({channel[c].source} \ {Absent}) /\ seen' = NothingSeen
  BY DEF RetireVanished
<1>6. /\ Out(c)'
      /\ \A d \in used : d # c => (InTable(d)' <=> InTable(d)) /\ (BeingInserted(d)' <=> BeingInserted(d)) /\ (Out(d)' <=> Out(d))
  <2>1. ~InTable(c)' /\ ~BeingInserted(c)'
    BY <1>1, <1>2 DEF RetireVanished, InTable, BeingInserted
  <2>2. ASSUME NEW d \in used, d # c PROVE (InTable(d)' <=> InTable(d)) /\ (BeingInserted(d)' <=> BeingInserted(d))
    <3>1. d # Absent
      BY DEF BridgeTypeOK, BridgeAssumption
    <3>2. InTable(d)' <=> InTable(d)
      BY <2>2, <3>1 DEF RetireVanished, InTable
    <3> QED
      BY <1>1, <3>2 DEF BeingInserted
  <2> QED
    BY <2>1, <2>2 DEF Out
<1>7. /\ \A h \in BassHandles : table'[h] \in {table[h], Absent} /\ (table[h] # c => table'[h] = table[h])
      /\ \A h \in BassHandles : dsp'[h] \in {dsp[h], Absent} /\ (dsp[h] # c => dsp'[h] = dsp[h]) /\ (dsp[h] = c => dsp'[h] = Absent)
      /\ callback # c
  BY DEF RetireVanished, DspRemoved, NotCalledBack
<1>8. BridgeTypeOK'
  <2>1. dsp' \in [BassHandles -> used' \union {Absent}]
    BY <1>1 DEF RetireVanished, DspRemoved, BridgeTypeOK
  <2>2. table' \in [BassHandles -> used' \union {Absent}]
    BY <1>1 DEF RetireVanished, BridgeTypeOK
  <2>3. channel' \in [BassChannels -> [handle : BassHandles \union {Absent}, source : made' \union {Absent},
                                     registered : BOOLEAN, rejected : BOOLEAN]]
    BY <1>3
  <2>4. /\ made' \subseteq Sources
       /\ eos' \union stop' \union finished' \union queued' \union waiting' \union rendered' \union stale' \union deadStale'
            \subseteq made'
    BY <1>1, <1>2, <1>5 DEF BridgeTypeOK
  <2>5. seen' \in [channel : used' \union {Absent}, state : States]
    BY <1>5 DEF NothingSeen, States
  <2> QED
    BY <1>1, <2>1, <2>2, <2>3, <2>4, <2>5 DEF BridgeTypeOK, CallRecords
<1>9. ShutdownIsAlone' /\ CallSteps'
  BY <1>1, PartsKept
<1>10. HasHandle'
  BY <1>1, <1>2, <1>4 DEF HasHandle, HandlesKept, BridgeTypeOK
<1>11. OneHandle'
  <2>1. \A h \in BassHandles : table'[h] # Absent => channel'[table'[h]].handle = h
    BY <1>4, <1>7 DEF OneHandle, HandlesKept, BridgeTypeOK
  <2>2. \A u \in Callers : call[u].pc = "insert" => /\ channel'[call[u].channel].handle = call[u].handle
                                                  /\ ~InTable(call[u].channel)'
    <3> SUFFICES ASSUME NEW u \in Callers, call[u].pc = "insert"
                 PROVE  channel'[call[u].channel].handle = call[u].handle /\ ~InTable(call[u].channel)'
      OBVIOUS
    <3>1. channel[call[u].channel].handle = call[u].handle /\ call[u].channel \in BassChannels /\ call[u].channel # Absent
      BY CallHas DEF OneHandle, BridgeTypeOK
    <3>2. ~InTable(call[u].channel)
      BY DEF OneHandle
    <3> QED
      BY <1>1, <1>4, <1>7, <3>1, <3>2 DEF HandlesKept, InTable
  <2>3. \A d \in (pendingUnregister \union dead)' : Out(d)'
    BY <1>1, <1>6 DEF OneHandle, BridgeTypeOK
  <2>4. \A u \in Callers : call[u].pc = "end" => Out(call[u].channel)'
    <3> SUFFICES ASSUME NEW u \in Callers, call[u].pc = "end" PROVE Out(call[u].channel)'
      OBVIOUS
    <3>1. \A d : d = call[u].channel => d \in used /\ Out(d)
      BY CallHas DEF OneHandle
    <3>2. \A d : d = call[u].channel => Out(d)'
      BY <1>6, <3>1
    <3> QED
      BY <1>1, <3>2 DEF Out, InTable, BeingInserted
  <2>5. \A u \in Callers : call[u].pc = "insert" =>
          \A v \in Callers \ {u} : call[v].handle # call[u].handle /\ call[v].channel # call[u].channel
    BY DEF OneHandle
  <2> QED
    BY <1>1, <2>1, <2>2, <2>3, <2>4, <2>5 DEF OneHandle
<1>12. DspIsOfItsHandle'
  <2>1. callback' # Absent => \E g \in BassHandles : dsp'[g] = callback'
    BY <1>1, <1>7 DEF DspIsOfItsHandle
  <2>2. \A u \in Callers : call'[u].pc \in {"insert", "play"} => dsp'[call'[u].handle] \in {call'[u].channel, Absent}
    BY <1>1, <1>7, CallHas DEF DspIsOfItsHandle
  <2>3. \A g \in BassHandles : dsp'[g] \in {dsp[g], Absent} /\ (stream'[g] = Absent => dsp'[g] = Absent)
    BY <1>1, <1>7 DEF DspIsOfItsHandle
  <2>4. \A g \in BassHandles : dsp[g] \in BassChannels \union {Absent}
    BY DEF BridgeTypeOK
  <2>5. \A h \in BassHandles : dsp'[h] # Absent =>
          /\ table[h] = dsp[h] => table'[h] = table[h]
          /\ gamePc = "retire" /\ dsp[h] \in dead => gamePc' = "retire" /\ dsp[h] \in dead'
    BY <1>1, <1>2, <1>7
  <2> QED
    BY <1>1, <1>4, <2>1, <2>2, <2>3, <2>4, <2>5, DspKept
<1>13. TickOrder'
  <2>1. Absent \notin liveChannels /\ liveChannels \subseteq used /\ seen'.channel = Absent
    BY <1>5 DEF BridgeTypeOK, BridgeAssumption, NothingSeen
  <2>2. \A d \in liveChannels : InTable(d)' \/ d \in pendingUnregister
    BY <1>6, <2>1 DEF TickOrder
  <2> QED
    BY <1>1, <1>2, <1>7, <2>1, <2>2 DEF TickOrder
<1>14. OneOwner'
  <2>1. \A d \in used : d # c => channel'[d] = channel[d] /\ channel[d].source \in made \union {Absent}
    BY <1>4 DEF BridgeTypeOK
  <2>2. \A d, e \in used' : channel'[d].source = channel'[e].source /\ channel'[d].source # Absent => d = e
    BY <1>1, <1>4, <2>1 DEF OneOwner
  <2>3. \A d \in used' : channel'[d].source \notin (stale \union deadStale)'
    BY <1>1, <1>2, <1>4, <2>1 DEF OneOwner
  <2>4. \A d \in used' : channel'[d].source \in offered' => channel'[d].registered \/ channel'[d].rejected
    BY <1>1, <1>2, <1>4, <2>1 DEF OneOwner
  <2> QED
    BY <1>1, <1>2, <2>2, <2>3, <2>4 DEF OneOwner
<1>15. RegisteredIsKnown'
  <2>1. \A d \in used : d # c => channel'[d] = channel[d]
    BY <1>4 DEF BridgeTypeOK
  <2>2. \A d \in used' : channel'[d].registered => InTable(d)' \/ d \in (pendingUnregister \union dead)'
    BY <1>1, <1>4, <1>6, <2>1 DEF RegisteredIsKnown
  <2>3. ASSUME NEW x \in (waiting' \union rendered') \ (eos' \union stop') PROVE \E d \in used : channel'[d].source = x /\ channel'[d].registered
    <3>1. x # channel[c].source /\ x \in (waiting \union rendered) \ (eos \union stop)
      BY <1>1, <1>2, <1>5 DEF BridgeTypeOK
    <3>2. PICK d \in used : channel[d].source = x /\ channel[d].registered
      BY <3>1 DEF RegisteredIsKnown
    <3> QED
      BY <2>1, <3>1, <3>2
  <2> QED
    BY <1>1, <2>2, <2>3 DEF RegisteredIsKnown
<1>16. KnownIsNotStopped'
  <2>1. \A d \in used : ~Out(d)' => ~Out(d) /\ d # c /\ channel'[d] = channel[d]
    BY <1>2, <1>4, <1>6 DEF BridgeTypeOK
  <2> QED
    BY <1>1, <2>1 DEF KnownIsNotStopped
<1>17. SilenceIsBeingMended'
  <2>1. ASSUME NEW h \in BassHandles, Silenced(h)' PROVE Silenced(h) /\ channel'[dsp[h]] = channel[dsp[h]] /\ dsp'[h] = dsp[h]
    <3>1. dsp'[h] # Absent
      BY <2>1 DEF Silenced
    <3>2. dsp'[h] = dsp[h] /\ dsp[h] # c /\ dsp[h] # Absent
      BY <1>7, <3>1
    <3>3. dsp[h] \in BassChannels /\ channel[c].source # channel[dsp[h]].source /\ channel[dsp[h]].source # Absent
      BY <1>2, <3>2, DspIsKnown DEF BridgeTypeOK
    <3>4. channel'[dsp[h]] = channel[dsp[h]]
      BY <1>4, <3>2, <3>3
    <3> QED
      BY <1>1, <1>5, <2>1, <3>2, <3>3, <3>4 DEF Silenced, Live
  <2> QED
    BY <1>1, <2>1 DEF SilenceIsBeingMended, BeingPlayed
<1> QED
  BY <1>8, <1>9, <1>10, <1>11, <1>12, <1>13, <1>14, <1>15, <1>16, <1>17

\* Shutdown retires a channel.
LEMMA RetireChannelStep ==
  ASSUME BridgeAssumption, CoreInv, NEW c \in BassChannels, RetireChannel(c)
  PROVE  CoreInv'
<1> USE DEF CoreInv
<1>1. UNCHANGED <<stream, instance, hooked, table, pendingUnregister, stale, used, calls, call, callback, made,
                  finished, queued, waiting, rendered, turnedAway, gamePc, deadStale, liveChannels, seen,
                  keptChannels, overtaken, offered>>
  BY DEF RetireChannel, TickKeeps, DspRemoved, NotCalledBack, bassVars, hookVars, tableVars, channelVars, callVars,
         flagVars, pipeVars, tickVars
<1>2. /\ gamePc = "retire" /\ c \in dead /\ c \in used /\ c # Absent /\ Out(c) /\ channel[c].source \in made \union {Absent}
      /\ Absent \notin made \union stale \union deadStale \union offered /\ ~instance /\ callback = Absent
  BY DEF RetireChannel, OneHandle, OneOwner, BridgeTypeOK, BridgeAssumption, TickOrder, ShutdownIsAlone
<1>3. /\ channel' \in [BassChannels -> [handle : BassHandles \union {Absent}, source : made' \union {Absent},
                                           registered : BOOLEAN, rejected : BOOLEAN]]
  BY <1>1, GivesUp DEF RetireChannel
<1>4. /\ channel'[c].source = Absent /\ channel'[c].registered = FALSE
      /\ \A d \in BassChannels : d # c => channel'[d] = channel[d]
      /\ HandlesKept
  BY <1>1, GivesUp DEF RetireChannel
<1>5. /\ eos' = eos \union ({channel[c].source} \ {Absent}) /\ dead' = dead \ {c}
      /\ stop' = stop \union ({channel[c].source} \ {Absent})
  BY DEF RetireChannel
<1>6. \A d : (InTable(d)' <=> InTable(d)) /\ (BeingInserted(d)' <=> BeingInserted(d)) /\ (Out(d)' <=> Out(d)) /\ (d \in dead' <=> d \in dead /\ d # c)
  BY <1>1, <1>5 DEF InTable, BeingInserted, Out
<1>7. /\ \A h \in BassHandles : dsp'[h] \in {dsp[h], Absent} /\ (dsp[h] # c => dsp'[h] = dsp[h]) /\ (dsp[h] = c => dsp'[h] = Absent)
  BY DEF RetireChannel, DspRemoved
<1>8. \A u \in Callers : call[u] = NoCall /\ call[u].pc = "out"
  BY <1>2, NoCallFields DEF ShutdownIsAlone
<1>9. BridgeTypeOK'
  <2>1. dsp' \in [BassHandles -> used' \union {Absent}]
    BY <1>1 DEF RetireChannel, DspRemoved, BridgeTypeOK
  <2>2. channel' \in [BassChannels -> [handle : BassHandles \union {Absent}, source : made' \union {Absent},
                                     registered : BOOLEAN, rejected : BOOLEAN]]
    BY <1>3
  <2>3. /\ made' \subseteq Sources
       /\ eos' \union stop' \union finished' \union queued' \union waiting' \union rendered' \union stale' \union deadStale'
            \subseteq made'
    BY <1>1, <1>2, <1>5 DEF BridgeTypeOK
  <2>4. dead' \union liveChannels' \union keptChannels' \subseteq used'
    BY <1>1, <1>2, <1>3, <1>4, <1>5, <1>6, <1>7, <1>8
       DEF BridgeTypeOK, RetireChannel, TickKeeps, DspRemoved, NotCalledBack, CallRecords
  <2> QED
    BY <1>1, <2>1, <2>2, <2>3, <2>4 DEF BridgeTypeOK, CallRecords
<1>10. ShutdownIsAlone' /\ CallSteps'
  BY <1>1, PartsKept
<1>11. HasHandle'
  BY <1>1, <1>2, <1>4 DEF HasHandle, HandlesKept, BridgeTypeOK
<1>12. OneHandle'
  <2>1. \A h \in BassHandles : table[h] # Absent => table[h] \in BassChannels
    BY DEF BridgeTypeOK
  <2>2. \A d \in (pendingUnregister \union dead)' : Out(d)'
    BY <1>1, <1>5, <1>6 DEF OneHandle
  <2> QED
    BY <1>1, <1>4, <1>8, <2>1, <2>2 DEF OneHandle, HandlesKept
<1>13. DspIsOfItsHandle'
  <2>1. callback' # Absent => \E g \in BassHandles : dsp'[g] = callback'
    BY <1>1, <1>2 DEF DspIsOfItsHandle
  <2>2. \A u \in Callers : call'[u].pc \in {"insert", "play"} => dsp'[call'[u].handle] \in {call'[u].channel, Absent}
    BY <1>1, <1>8, CallHas DEF DspIsOfItsHandle
  <2>3. \A g \in BassHandles : dsp'[g] \in {dsp[g], Absent} /\ (stream'[g] = Absent => dsp'[g] = Absent)
    BY <1>1, <1>7 DEF DspIsOfItsHandle
  <2>4. \A g \in BassHandles : dsp[g] \in BassChannels \union {Absent}
    BY DEF BridgeTypeOK
  <2>5. \A h \in BassHandles : dsp'[h] # Absent =>
          /\ table[h] = dsp[h] => table'[h] = table[h]
          /\ gamePc = "retire" /\ dsp[h] \in dead => gamePc' = "retire" /\ dsp[h] \in dead'
    BY <1>1, <1>2, <1>5, <1>7
  <2> QED
    BY <1>1, <1>4, <2>1, <2>2, <2>3, <2>4, <2>5, DspKept
<1>14. TickOrder'
  <2>1. gamePc' = "retire" /\ dead' \subseteq dead
    BY <1>1, <1>2, <1>5
  <2> QED
    BY <1>1, <2>1 DEF TickOrder, InTable
<1>15. OneOwner'
  <2>1. \A d \in used : d # c => channel'[d] = channel[d] /\ channel[d].source \in made \union {Absent}
    BY <1>4 DEF BridgeTypeOK
  <2>2. \A d, e \in used' : channel'[d].source = channel'[e].source /\ channel'[d].source # Absent => d = e
    BY <1>1, <1>4, <2>1 DEF OneOwner
  <2>3. \A d \in used' : channel'[d].source \notin (stale \union deadStale)'
    BY <1>1, <1>2, <1>4, <2>1 DEF OneOwner
  <2>4. \A d \in used' : channel'[d].source \in offered' => channel'[d].registered \/ channel'[d].rejected
    BY <1>1, <1>2, <1>4, <2>1 DEF OneOwner
  <2> QED
    BY <1>1, <1>2, <2>2, <2>3, <2>4 DEF OneOwner
<1>16. RegisteredIsKnown'
  <2>1. \A d \in used : d # c => channel'[d] = channel[d]
    BY <1>4 DEF BridgeTypeOK
  <2>2. \A d \in used' : channel'[d].registered => InTable(d)' \/ d \in (pendingUnregister \union dead)'
    BY <1>1, <1>4, <1>6, <2>1 DEF RegisteredIsKnown
  <2>3. ASSUME NEW x \in (waiting' \union rendered') \ (eos' \union stop') PROVE \E d \in used : channel'[d].source = x /\ channel'[d].registered
    <3>1. x # channel[c].source /\ x \in (waiting \union rendered) \ (eos \union stop)
      BY <1>1, <1>2, <1>5 DEF BridgeTypeOK
    <3>2. PICK d \in used : channel[d].source = x /\ channel[d].registered
      BY <3>1 DEF RegisteredIsKnown
    <3> QED
      BY <2>1, <3>1, <3>2
  <2> QED
    BY <1>1, <2>2, <2>3 DEF RegisteredIsKnown
<1>17. KnownIsNotStopped'
  <2>1. \A d \in used : ~Out(d)' => ~Out(d) /\ d # c /\ channel'[d] = channel[d]
    BY <1>2, <1>4, <1>6 DEF BridgeTypeOK
  <2>2. \A d \in used : d # c => channel[d].source # channel[c].source \/ channel[d].source = Absent
    BY <1>2 DEF OneOwner
  <2> QED
    BY <1>1, <1>5, <2>1, <2>2 DEF KnownIsNotStopped
<1>18. SilenceIsBeingMended'
  BY <1>1, <1>2 DEF SilenceIsBeingMended, Silenced
<1> QED
  BY <1>9, <1>10, <1>11, <1>12, <1>13, <1>14, <1>15, <1>16, <1>17, <1>18

\* Tick finds no source, or one that was rejected.
LEMMA RefreshNothingStep ==
  ASSUME BridgeAssumption, CoreInv, NEW c, c = seen.channel, RefreshChannel,
         channel[c].source = Absent \/ channel[c].rejected
  PROVE  CoreInv'
<1> USE DEF CoreInv
<1>1. UNCHANGED <<stream, dsp, instance, hooked, table, pendingUnregister, stale, channel, used, calls, call,
                  callback, made, eos, stop, finished, queued, waiting, rendered, turnedAway, gamePc, dead,
                  deadStale, liveChannels, keptChannels, overtaken, offered>>
  BY DEF RefreshChannel, TickKeeps, bassVars, hookVars, tableVars, channelVars, callVars, flagVars, pipeVars,
         tickVars
<1>2. /\ gamePc = "live" /\ c \in used /\ c # Absent /\ channel[c].source \in made \union {Absent} /\ c \in BassChannels
      /\ Absent \notin made
  <2>1. c # Absent /\ seen.channel = c
    BY DEF RefreshChannel
  <2>2. c \in used /\ channel[c].source \in made \union {Absent} /\ Absent \notin made /\ c \in BassChannels
    BY <2>1 DEF BridgeTypeOK, BridgeAssumption
  <2>3. gamePc = "live"
    BY <2>1 DEF TickOrder, NothingSeen
  <2> QED
    BY <2>1, <2>2, <2>3
<1>3. seen' = NothingSeen
  BY DEF RefreshChannel
<1>4. /\ channel' = channel /\ eos' = eos /\ overtaken' = overtaken /\ waiting' = waiting /\ offered' = offered
  BY DEF RefreshChannel
<1>5. BridgeTypeOK'
  <2>1. seen' \in [channel : used' \union {Absent}, state : States]
    BY <1>3 DEF NothingSeen, States
  <2> QED
    BY <1>1, <2>1 DEF BridgeTypeOK, CallRecords
<1>6. ShutdownIsAlone' /\ CallSteps' /\ HasHandle' /\ OneHandle' /\ DspIsOfItsHandle' /\ OneOwner' /\ RegisteredIsKnown' /\ KnownIsNotStopped' /\ SilenceIsBeingMended'
  BY <1>1, PartsKept
<1>7. TickOrder'
  <2>1. Absent \notin liveChannels /\ seen'.channel = Absent
    BY <1>3 DEF BridgeTypeOK, BridgeAssumption, NothingSeen
  <2>2. \A d \in liveChannels : InTable(d)' \/ d \in pendingUnregister
    BY <1>1 DEF TickOrder, InTable
  <2> QED
    BY <1>1, <1>2, <2>1, <2>2 DEF TickOrder
<1> QED
  BY <1>5, <1>6, <1>7

\* Tick ends the source of a stream it saw stopped; a stream that plays again by then is overtaken.
LEMMA RefreshRegisteredStep ==
  ASSUME BridgeAssumption, CoreInv, NEW c, c = seen.channel, RefreshChannel, channel[c].source # Absent,
         ~channel[c].rejected, channel[c].registered
  PROVE  CoreInv'
<1> USE DEF CoreInv
<1>1. UNCHANGED <<stream, dsp, instance, hooked, table, pendingUnregister, stale, channel, used, calls, call,
                  callback, made, stop, finished, queued, waiting, rendered, turnedAway, gamePc, dead, deadStale,
                  liveChannels, keptChannels, offered>>
  BY DEF RefreshChannel, TickKeeps, bassVars, hookVars, tableVars, channelVars, callVars, flagVars, pipeVars,
         tickVars
<1>2. /\ gamePc = "live" /\ c \in used /\ c # Absent /\ channel[c].source \in made \union {Absent} /\ c \in BassChannels
      /\ Absent \notin made
  <2>1. c # Absent /\ seen.channel = c
    BY DEF RefreshChannel
  <2>2. c \in used /\ channel[c].source \in made \union {Absent} /\ Absent \notin made /\ c \in BassChannels
    BY <2>1 DEF BridgeTypeOK, BridgeAssumption
  <2>3. gamePc = "live"
    BY <2>1 DEF TickOrder, NothingSeen
  <2> QED
    BY <2>1, <2>2, <2>3
<1>3. seen' = NothingSeen
  BY DEF RefreshChannel
<1>4. /\ eos \subseteq eos' /\ eos' \subseteq eos \union {channel[c].source} /\ overtaken \subseteq overtaken'
      /\ eos' # eos /\ stream[channel[c].handle] = "playing" => c \in overtaken'
  BY DEF RefreshChannel
<1>5. channel' = channel /\ waiting' = waiting /\ offered' = offered
  BY DEF RefreshChannel
<1>6. BridgeTypeOK'
  <2>1. /\ made' \subseteq Sources
       /\ eos' \union stop' \union finished' \union queued' \union waiting' \union rendered' \union stale' \union deadStale'
            \subseteq made'
    BY <1>1, <1>2, <1>4 DEF BridgeTypeOK
  <2>2. seen' \in [channel : used' \union {Absent}, state : States]
    BY <1>3 DEF NothingSeen, States
  <2> QED
    BY <1>1, <2>1, <2>2 DEF BridgeTypeOK, CallRecords
<1>7. ShutdownIsAlone' /\ CallSteps' /\ HasHandle' /\ OneHandle' /\ DspIsOfItsHandle' /\ OneOwner' /\ KnownIsNotStopped'
  BY <1>1, PartsKept
<1>8. TickOrder'
  <2>1. Absent \notin liveChannels /\ seen'.channel = Absent
    BY <1>3 DEF BridgeTypeOK, BridgeAssumption, NothingSeen
  <2>2. \A d \in liveChannels : InTable(d)' \/ d \in pendingUnregister
    BY <1>1 DEF TickOrder, InTable
  <2> QED
    BY <1>1, <1>2, <2>1, <2>2 DEF TickOrder
<1>9. RegisteredIsKnown'
  BY <1>1, <1>4 DEF RegisteredIsKnown, InTable
<1>10. SilenceIsBeingMended'
  <2>1. ASSUME NEW h \in BassHandles, Silenced(h)'
        PROVE  channel[dsp[h]].source \in turnedAway \/ dsp[h] \in overtaken' \/ BeingPlayed(h)
    <3>1. dsp[h] # Absent /\ stream[h] = "playing" /\ instance
      BY <1>1, <2>1 DEF Silenced
    <3>2. dsp[h] \in used /\ channel[dsp[h]].handle = h /\ \A d \in used : d # dsp[h] => channel[d].source # channel[dsp[h]].source
      BY <1>2, <3>1, DspIsKnown DEF DspIsOfItsHandle
    <3>3. CASE dsp[h] = c /\ eos' # eos
      BY <1>4, <3>1, <3>2, <3>3
    <3>4. CASE ~(dsp[h] = c /\ eos' # eos)
      <4>1. channel'[dsp[h]].source = channel[dsp[h]].source /\ (channel'[dsp[h]].rejected \/ ~channel[dsp[h]].rejected)
        BY <1>1, <3>2 DEF BridgeTypeOK
      <4>2. Silenced(h)
        BY <1>1, <1>2, <1>4, <2>1, <3>1, <3>2, <3>4, <4>1 DEF Silenced, Live
      <4> QED
        BY <1>4, <4>2 DEF SilenceIsBeingMended
    <3> QED
      BY <3>3, <3>4
  <2>2. \A h \in BassHandles : BeingPlayed(h)' <=> BeingPlayed(h)
    BY <1>1 DEF BeingPlayed
  <2>3. \A h \in BassHandles : dsp[h] # Absent => channel'[dsp[h]].source = channel[dsp[h]].source
    BY <1>1 DEF BridgeTypeOK
  <2>4. \A h \in BassHandles : Silenced(h)' => dsp[h] # Absent
    BY <1>1 DEF Silenced
  <2> QED
    BY <1>1, <2>1, <2>2, <2>3, <2>4 DEF SilenceIsBeingMended
<1> QED
  BY <1>6, <1>7, <1>8, <1>9, <1>10

\* Tick offers the channel's source to the pipeline for the first time.
LEMMA RegisterStep ==
  ASSUME BridgeAssumption, CoreInv, NEW c, c = seen.channel, RefreshChannel, channel[c].source # Absent,
         ~channel[c].rejected, ~channel[c].registered
  PROVE  CoreInv'
<1> USE DEF CoreInv
<1>1. UNCHANGED <<stream, dsp, instance, hooked, table, pendingUnregister, stale, used, calls, call, callback, made,
                  stop, finished, queued, rendered, turnedAway, gamePc, dead, deadStale, liveChannels,
                  keptChannels>>
  BY DEF RefreshChannel, TickKeeps, bassVars, hookVars, tableVars, channelVars, callVars, flagVars, pipeVars,
         tickVars
<1>2. /\ gamePc = "live" /\ c \in used /\ c # Absent /\ channel[c].source \in made \union {Absent} /\ c \in BassChannels
      /\ Absent \notin made
  <2>1. c # Absent /\ seen.channel = c
    BY DEF RefreshChannel
  <2>2. c \in used /\ channel[c].source \in made \union {Absent} /\ Absent \notin made /\ c \in BassChannels
    BY <2>1 DEF BridgeTypeOK, BridgeAssumption
  <2>3. gamePc = "live"
    BY <2>1 DEF TickOrder, NothingSeen
  <2> QED
    BY <2>1, <2>2, <2>3
<1>3. seen' = NothingSeen
  BY DEF RefreshChannel
<1>4. /\ eos \subseteq eos' /\ eos' \subseteq eos \union {channel[c].source} /\ overtaken \subseteq overtaken'
      /\ eos' # eos /\ stream[channel[c].handle] = "playing" => c \in overtaken'
  BY DEF RefreshChannel
<1>5. PICK ok \in BOOLEAN :
          RegisterSource(channel[c].source, ok) /\ channel' = [channel EXCEPT ![c].registered = ok, ![c].rejected = ~ok]
  BY DEF RefreshChannel
<1>6. /\ channel' \in [BassChannels -> [handle : BassHandles \union {Absent}, source : made' \union {Absent},
                                           registered : BOOLEAN, rejected : BOOLEAN]]
      /\ channel'[c].source = channel[c].source /\ channel'[c].registered = ok /\ channel'[c].rejected = ~ok
      /\ \A d \in BassChannels : d # c => channel'[d] = channel[d]
      /\ HandlesKept
  <2>1. PICK r : r = [channel[c] EXCEPT !.registered = ok, !.rejected = ~ok]
    OBVIOUS
  <2>2. /\ r \in [handle : BassHandles \union {Absent}, source : made \union {Absent}, registered : BOOLEAN, rejected : BOOLEAN]
        /\ r.source = channel[c].source /\ r.registered = ok /\ r.rejected = ~ok /\ r.handle = channel[c].handle
    BY SMTT(30), <1>2, <1>5, <2>1 DEF BridgeTypeOK
  <2>3. channel' = [channel EXCEPT ![c] = r]
    BY <1>5, <2>1
  <2>4. channel \in [BassChannels -> [handle : BassHandles \union {Absent}, source : made \union {Absent},
                                      registered : BOOLEAN, rejected : BOOLEAN]]
    BY DEF BridgeTypeOK
  <2>5. channel'[c] = r /\ \A d \in BassChannels : d # c => channel'[d] = channel[d]
    BY <1>2, <2>3, <2>4
  <2> QED
    BY <1>1, <1>2, <2>2, <2>3, <2>4, <2>5 DEF HandlesKept
<1>7. /\ offered' = offered \union {channel[c].source} /\ channel[c].source \notin offered /\ channel[c].source \in made
      /\ waiting' = IF ok THEN waiting \union {channel[c].source} ELSE waiting
  BY <1>2, <1>5 DEF RegisterSource, OneOwner
<1>8. \A d \in used : channel'[d].source = channel[d].source /\ (channel[d].registered => channel'[d].registered)
                         /\ (channel[d].rejected => channel'[d].rejected)
  BY <1>6 DEF BridgeTypeOK
<1>9. InTable(c) \/ c \in pendingUnregister
  BY <1>2 DEF TickOrder
<1>10. BridgeTypeOK'
  <2>1. channel' \in [BassChannels -> [handle : BassHandles \union {Absent}, source : made' \union {Absent},
                                     registered : BOOLEAN, rejected : BOOLEAN]]
    BY <1>6
  <2>2. /\ made' \subseteq Sources
       /\ eos' \union stop' \union finished' \union queued' \union waiting' \union rendered' \union stale' \union deadStale'
            \subseteq made'
    BY <1>1, <1>2, <1>4, <1>7 DEF BridgeTypeOK
  <2>3. seen' \in [channel : used' \union {Absent}, state : States]
    BY <1>3 DEF NothingSeen, States
  <2> QED
    BY <1>1, <2>1, <2>2, <2>3 DEF BridgeTypeOK, CallRecords
<1>11. ShutdownIsAlone' /\ CallSteps'
  BY <1>1, PartsKept
<1>12. HasHandle'
  BY <1>1, <1>6 DEF HasHandle, HandlesKept, BridgeTypeOK
<1>13. OneHandle'
  <2>1. \A h \in BassHandles : table[h] # Absent => table[h] \in BassChannels
    BY DEF BridgeTypeOK
  <2>2. \A u \in Callers : call[u].pc = "insert" => call[u].channel \in BassChannels
    BY CallHas DEF BridgeTypeOK
  <2> QED
    BY <1>1, <1>6, <2>1, <2>2 DEF OneHandle, HandlesKept, InTable, Out, BeingInserted
<1>14. DspIsOfItsHandle'
  <2>1. callback' # Absent => \E g \in BassHandles : dsp'[g] = callback'
    BY <1>1 DEF DspIsOfItsHandle
  <2>2. \A u \in Callers : call'[u].pc \in {"insert", "play"} => dsp'[call'[u].handle] \in {call'[u].channel, Absent}
    BY <1>1, CallHas DEF DspIsOfItsHandle
  <2>3. \A g \in BassHandles : dsp'[g] \in {dsp[g], Absent} /\ (stream'[g] = Absent => dsp'[g] = Absent)
    BY <1>1 DEF DspIsOfItsHandle
  <2>4. \A g \in BassHandles : dsp[g] \in BassChannels \union {Absent}
    BY DEF BridgeTypeOK
  <2>5. \A h \in BassHandles : dsp'[h] # Absent =>
          /\ table[h] = dsp[h] => table'[h] = table[h]
          /\ gamePc = "retire" /\ dsp[h] \in dead => gamePc' = "retire" /\ dsp[h] \in dead'
    BY <1>1
  <2> QED
    BY <1>1, <1>6, <2>1, <2>2, <2>3, <2>4, <2>5, DspKept
<1>15. TickOrder'
  <2>1. Absent \notin liveChannels /\ seen'.channel = Absent
    BY <1>3 DEF BridgeTypeOK, BridgeAssumption, NothingSeen
  <2>2. \A d \in liveChannels : InTable(d)' \/ d \in pendingUnregister
    BY <1>1 DEF TickOrder, InTable
  <2> QED
    BY <1>1, <1>2, <2>1, <2>2 DEF TickOrder
<1>16. OneOwner'
  <2>1. \A d, e \in used' : channel'[d].source = channel'[e].source /\ channel'[d].source # Absent => d = e
    BY <1>1, <1>8 DEF OneOwner
  <2>2. \A d \in used' : channel'[d].source \notin (stale \union deadStale)'
    BY <1>1, <1>8 DEF OneOwner
  <2>3. ASSUME NEW d \in used', channel'[d].source \in offered' PROVE channel'[d].registered \/ channel'[d].rejected
    <3>1. CASE d = c
      BY <1>6, <3>1
    <3>2. CASE d # c
      <4>1. channel[d].source # channel[c].source
        BY <1>1, <1>2, <3>2 DEF OneOwner
      <4>2. channel[d].source \in offered
        BY <1>1, <1>7, <1>8, <2>3, <4>1
      <4> QED
        BY <1>1, <1>8, <4>2 DEF OneOwner
    <3> QED
      BY <3>1, <3>2
  <2>4. /\ waiting' \intersect rendered' = {} /\ (waiting' \union rendered') \intersect finished' = {}
        /\ waiting' \union rendered' \union finished' \subseteq offered' /\ offered' \subseteq made'
    BY <1>1, <1>7 DEF OneOwner
  <2> QED
    BY <2>1, <2>2, <2>3, <2>4 DEF OneOwner
<1>17. RegisteredIsKnown'
  <2>1. \A d \in used' : channel'[d].registered => InTable(d)' \/ d \in (pendingUnregister \union dead)'
    <3>1. \A d \in used : channel'[d].registered => InTable(d) \/ d \in pendingUnregister \union dead
      BY <1>6, <1>9 DEF RegisteredIsKnown, BridgeTypeOK
    <3> QED
      BY <1>1, <3>1 DEF InTable
  <2>2. ASSUME NEW x \in (waiting' \union rendered') \ (eos' \union stop') PROVE \E d \in used : channel'[d].source = x /\ channel'[d].registered
    <3>1. CASE x \in waiting \union rendered
      BY <1>1, <1>4, <1>8, <2>2, <3>1 DEF RegisteredIsKnown
    <3>2. CASE x \notin waiting \union rendered
      BY <1>1, <1>2, <1>6, <1>7, <2>2, <3>2
    <3> QED
      BY <3>1, <3>2
  <2> QED
    BY <1>1, <2>1, <2>2 DEF RegisteredIsKnown
<1>18. KnownIsNotStopped'
  BY <1>1, <1>8 DEF KnownIsNotStopped, Out, InTable, BeingInserted
<1>19. SilenceIsBeingMended'
  <2>1. ASSUME NEW h \in BassHandles, Silenced(h)'
        PROVE  channel[dsp[h]].source \in turnedAway \/ dsp[h] \in overtaken' \/ BeingPlayed(h)
    <3>1. dsp[h] # Absent /\ stream[h] = "playing" /\ instance
      BY <1>1, <2>1 DEF Silenced
    <3>2. dsp[h] \in used /\ channel[dsp[h]].handle = h /\ \A d \in used : d # dsp[h] => channel[d].source # channel[dsp[h]].source
      BY <1>2, <3>1, DspIsKnown DEF DspIsOfItsHandle
    <3>3. CASE dsp[h] = c /\ eos' # eos
      BY <1>4, <3>1, <3>2, <3>3
    <3>4. CASE ~(dsp[h] = c /\ eos' # eos)
      <4>1. channel'[dsp[h]].source = channel[dsp[h]].source /\ (channel'[dsp[h]].rejected \/ ~channel[dsp[h]].rejected)
        BY <1>6, <3>2 DEF BridgeTypeOK
      <4>2. Silenced(h)
        BY <1>1, <1>2, <1>4, <2>1, <3>1, <3>2, <3>4, <4>1 DEF Silenced, Live
      <4> QED
        BY <1>4, <4>2 DEF SilenceIsBeingMended
    <3> QED
      BY <3>3, <3>4
  <2>2. \A h \in BassHandles : BeingPlayed(h)' <=> BeingPlayed(h)
    BY <1>1 DEF BeingPlayed
  <2>3. \A h \in BassHandles : dsp[h] # Absent => channel'[dsp[h]].source = channel[dsp[h]].source
    BY <1>6 DEF BridgeTypeOK
  <2>4. \A h \in BassHandles : Silenced(h)' => dsp[h] # Absent
    BY <1>1 DEF Silenced
  <2> QED
    BY <1>1, <2>1, <2>2, <2>3, <2>4 DEF SilenceIsBeingMended
<1> QED
  BY <1>10, <1>11, <1>12, <1>13, <1>14, <1>15, <1>16, <1>17, <1>18, <1>19

-------------------------------------------------------------------------------
\* A step that leaves the bridge alone.
LEMMA BridgeStutters == ASSUME CoreInv, UNCHANGED bridgeVars PROVE CoreInv'
<1> USE DEF CoreInv
<1>1. UNCHANGED <<stream, dsp, instance, hooked, table, pendingUnregister, stale, channel, used, made, eos, stop,
                  finished, queued, waiting, rendered, turnedAway, calls, call, callback, gamePc, dead, deadStale,
                  liveChannels, seen, keptChannels, overtaken, offered>>
  BY DEF bridgeVars, bassVars, hookVars, tableVars, channelVars, flagVars, pipeVars, callVars, tickVars
<1>2. BridgeTypeOK'
  BY <1>1 DEF BridgeTypeOK
<1> QED
  BY <1>1, <1>2, PartsKept

LEMMA BridgeStarts == ASSUME BridgeAssumption, BridgeInit PROVE CoreInv
<1> USE DEF BridgeInit
<1>1. BridgeTypeOK
  <2>1. NoCall \in CallRecords(used)
    BY DEF CallRecords, NoCall
  <2>2. NoBassChannel \in [handle : BassHandles \union {Absent}, source : made \union {Absent}, registered : BOOLEAN,
                           rejected : BOOLEAN]
    BY DEF NoBassChannel
  <2>3. call \in [Callers -> CallRecords(used)]
    BY <2>1
  <2>4. seen \in [channel : used \union {Absent}, state : States] /\ calls \in 0 .. MaxBassCalls
    BY DEF NothingSeen, States, BridgeAssumption
  <2> QED
    BY <2>2, <2>3, <2>4 DEF BridgeTypeOK, States, CallRecords
<1>2. \A t \in Callers : call[t] = NoCall /\ call[t].pc = "out"
  BY NoCallFields
<1>3. ShutdownIsAlone /\ HasHandle /\ KnownIsNotStopped
  BY DEF ShutdownIsAlone, HasHandle, KnownIsNotStopped
<1>4. CallSteps
  BY <1>2, NoCallSteps DEF CallSteps, StepOf
<1>5. OneHandle /\ DspIsOfItsHandle
  BY <1>2 DEF OneHandle, DspIsOfItsHandle
<1>6. TickOrder
  BY DEF TickOrder, NothingSeen
<1>7. OneOwner /\ RegisteredIsKnown
  BY DEF OneOwner, RegisteredIsKnown
<1>8. SilenceIsBeingMended
  BY DEF SilenceIsBeingMended, Silenced
<1> QED
  BY <1>1, <1>3, <1>4, <1>5, <1>6, <1>7, <1>8 DEF CoreInv

\* A step of a thread that called BASS.
LEMMA CallerStep == ASSUME BridgeAssumption, CoreInv, NEW t \in Callers, Caller(t) PROVE CoreInv'
<1>1. CASE BassCall(t, "create", Absent, FALSE)
  BY <1>1, BassCallStep
<1>2. CASE \E h \in BassHandles : BassCall(t, "free", h, FALSE)
  <2>1. PICK h \in BassHandles : BassCall(t, "free", h, FALSE)
    BY <1>2
  <2>2. h # Absent
    BY DEF BridgeAssumption
  <2> QED
    BY <2>1, <2>2, BassCallStep
<1>3. CASE \E h \in BassHandles, restart \in BOOLEAN : BassCall(t, "play", h, restart)
  <2>1. PICK h \in BassHandles, restart \in BOOLEAN : BassCall(t, "play", h, restart)
    BY <1>3
  <2>2. h # Absent
    BY DEF BridgeAssumption
  <2> QED
    BY <2>1, <2>2, BassCallStep
<1>4. CASE \E h \in BassHandles : StreamCreated(t, h)
  <2>1. PICK h \in BassHandles : StreamCreated(t, h)
    BY <1>4
  <2>2. CASE Returns(t) /\ UNCHANGED <<dsp, channelVars, made>>
    BY <2>1, <2>2, StreamLeftStep DEF Returns, channelVars
  <2>3. CASE \E c \in NextOf(BassChannels \ used), s \in NextOf(Sources \ made) :
               /\ used' = used \union {c} /\ made' = made \union {s}
               /\ channel' = [channel EXCEPT ![c] = Fresh(h, s)]
               /\ dsp' = [dsp EXCEPT ![h] = c]
               /\ call' = [call EXCEPT ![t].pc = "insert", ![t].handle = h, ![t].channel = c]
    <3>1. PICK c \in BassChannels \ used, s \in Sources \ made :
            /\ used' = used \union {c} /\ made' = made \union {s}
            /\ channel' = [channel EXCEPT ![c] = Fresh(h, s)]
            /\ dsp' = [dsp EXCEPT ![h] = c]
            /\ call' = [call EXCEPT ![t].pc = "insert", ![t].handle = h, ![t].channel = c]
      BY <2>3 DEF NextOf
    <3> QED
      BY <2>1, <3>1, StreamCreatedStep
  <2> QED
    BY <2>1, <2>2, <2>3 DEF StreamCreated
<1>5. CASE OnStreamCreated(t)
  BY <1>5, OnStreamCreatedStep
<1>6. CASE LookAtState(t)
  BY <1>6, LookAtStateStep
<1>7. CASE EraseChannel(t)
  <2>1. CASE table[call[t].handle] = Absent
    BY <1>7, <2>1, EraseNothingStep
  <2>2. CASE table[call[t].handle] # Absent
    <3>1. call[t].pc = "erase"
      BY <1>7 DEF EraseChannel
    <3>2. table[call[t].handle] \in used
      BY <2>2, <3>1, CallHas DEF CoreInv, BridgeTypeOK
    <3> QED
      BY <1>7, <2>2, <3>2, EraseChannelStep
  <2> QED
    BY <2>1, <2>2
<1>8. CASE EndSource(t)
  BY <1>8, EndSourceStep
<1>9. CASE StreamFreed(t)
  BY <1>9, StreamFreedStep
<1>10. CASE StreamPlayed(t)
  BY <1>10, PlayFailsStep, StreamPlayedStep
<1>11. CASE FindChannel(t)
  <2>1. CASE table[call[t].handle] = Absent
    BY <1>11, <2>1, FindNothingStep
  <2>2. CASE table[call[t].handle] # Absent
    <3>1. call[t].pc = "find"
      BY <1>11 DEF FindChannel
    <3>2. table[call[t].handle] \in used
      BY <2>2, <3>1, CallHas DEF CoreInv, BridgeTypeOK
    <3> QED
      BY <1>11, <3>2, FindChannelStep
  <2> QED
    BY <2>1, <2>2
<1>12. CASE OnChannelPlay(t)
  BY <1>12, PlayOnStep, ReplaceStep
<1> QED
  BY <1>1, <1>2, <1>3, <1>4, <1>5, <1>6, <1>7, <1>8, <1>9, <1>10, <1>11, <1>12 DEF Caller

\* A step of the game thread.
LEMMA GameStep == ASSUME BridgeAssumption, CoreInv, Game PROVE CoreInv'
<1>1. CASE Attach
  BY <1>1, AttachStep
<1>2. CASE BeginTick
  BY <1>2, BeginTickStep
<1>3. CASE ListLive
  BY <1>3, ListLiveStep
<1>4. CASE RetireVanished
  BY <1>4, RetireVanishedStep
<1>5. CASE RefreshChannel
  BY <1>5, RefreshNothingStep, RefreshRegisteredStep, RegisterStep
<1>6. CASE TickEnds
  BY <1>6, TickEndsStep
<1>7. CASE \E c \in BassChannels : TickDead(c) \/ LookAtChannel(c) \/ RetireChannel(c)
  BY <1>7, TickDeadStep, LookAtChannelStep, RetireChannelStep
<1>8. CASE \E s \in Sources : TickStale(s) \/ RetireStale(s)
  BY <1>8, TickStaleStep, RetireStaleStep
<1>9. CASE RemoveDetours \/ TakeAll \/ ShutdownEnds
  BY <1>9, RemoveDetoursStep, TakeAllStep, ShutdownEndsStep
<1> QED
  BY <1>1, <1>2, <1>3, <1>4, <1>5, <1>6, <1>7, <1>8, <1>9 DEF Game

\* CoreInv is inductive.
LEMMA BridgeStep == ASSUME BridgeAssumption, CoreInv, [BridgeNext]_bridgeVars PROVE CoreInv'
<1>1. CASE Bass
  <2>1. PICK h \in BassHandles : \/ StreamStops(h) \/ StreamVanishes(h)
                                 \/ \E state \in States : UnseenCall(h, state)
    BY <1>1 DEF Bass
  <2>2. CASE StreamStops(h)
    BY <2>2, StreamChangesStep DEF StreamStops, States
  <2>3. CASE StreamVanishes(h)
    <3>1. Absent \in States /\ Absent # "playing"
      BY DEF States, Absent
    <3> QED
      BY <2>3, <3>1, StreamChangesStep DEF StreamVanishes
  <2>4. CASE \E state \in States : UnseenCall(h, state)
    BY <2>4, StreamChangesStep DEF UnseenCall
  <2> QED
    BY <2>1, <2>2, <2>3, <2>4
<1>2. CASE \E t \in Callers : Caller(t)
  BY <1>2, CallerStep
<1>3. CASE Callback
  BY <1>3, DspCallbackStep, ProcessBlockStep DEF Callback
<1>4. CASE Pipeline
  BY <1>4, TakeOrTurnAwayStep, RenderStep DEF Pipeline
<1>5. CASE Game
  BY <1>5, GameStep
<1>6. CASE UNCHANGED bridgeVars
  BY <1>6, BridgeStutters
<1> QED
  BY <1>1, <1>2, <1>3, <1>4, <1>5, <1>6 DEF BridgeNext

LEMMA BridgeIsSafe == BridgeSpec => []CoreInv
<1>1. BridgeInit => CoreInv
  BY BridgeAssumption, BridgeStarts
<1>2. CoreInv /\ [BridgeNext]_bridgeVars => CoreInv'
  BY BridgeAssumption, BridgeStep
<1> QED
  BY <1>1, <1>2, PTL DEF BridgeSpec

\* Whatever calls of BASS meet, on however many threads, BASS's pointers lead to
\* channels that some shared_ptr keeps (BassBridge.cpp: the DSP is removed before
\* a channel is dropped), and Shutdown takes the table down alone.
THEOREM BridgeSafety == BridgeSpec => []BridgeInv
BY BridgeIsSafe, CoreSuffices, PTL

\* A source the audio thread goes on rendering belongs to a channel that the
\* table, the list for Tick or a reference of Tick still keeps: it is registered,
\* and a registered channel is known until its last tick has ended its source.
THEOREM SourcesEndWithTheirChannels == BridgeSpec => []OnlyCurrentSourcesGoOn
<1>1. CoreInv => OnlyCurrentSourcesGoOn
  <2>1. SUFFICES ASSUME CoreInv, NEW s \in (waiting \union rendered) \ (eos \union stop)
                 PROVE  \E c \in used : channel[c].source = s /\ Alive(c)
    BY DEF OnlyCurrentSourcesGoOn
  <2>2. PICK c \in used : channel[c].source = s /\ channel[c].registered
    BY <2>1 DEF CoreInv, RegisteredIsKnown
  <2>3. InTable(c) \/ c \in pendingUnregister \union keptChannels
    BY <2>1, <2>2 DEF CoreInv, RegisteredIsKnown, TickOrder
  <2> QED
    BY <2>2, <2>3 DEF Alive, InTable
<1> QED
  BY <1>1, BridgeIsSafe, PTL

\* With no call under way, a stream that plays in silence was turned away by the
\* audio thread or overtaken by a restart between the two halves of Tick's look
\* at it: any other one would be in the call that is to replace its source.
THEOREM SilentStreamsAreExplained == BridgeSpec => []SilenceIsExplained
<1>1. CoreInv => SilenceIsExplained
  <2>1. Quiet => \A h \in BassHandles : ~BeingPlayed(h)
    BY NoCallFields DEF Quiet, BeingPlayed, Absent
  <2> QED
    BY <2>1 DEF CoreInv, SilenceIsBeingMended, SilenceIsExplained
<1> QED
  BY <1>1, BridgeIsSafe, PTL

-----------------------------------------------------------------------------
(* SoundOverrides: the matcher                                             *)

-----------------------------------------------------------------------------
(* Numbers                                                                   *)

\* A set of numbers with 0 and the successor of each of its elements below n has all up to n.
LEMMA UpTo ==
  ASSUME NEW n \in Nat, NEW T, 0 \in T, \A k \in 1 .. n : k - 1 \in T => k \in T
  PROVE  0 .. n \subseteq T
<1> DEFINE Missing == (0 .. n) \ T
<1>1. SUFFICES ASSUME Missing # {} PROVE FALSE
  OBVIOUS
<1>2. PICK m \in Missing : \A k \in Missing : ~(<<k, m>> \in OpToRel(<, Nat))
  <2>1. Missing \subseteq Nat
    OBVIOUS
  <2> HIDE DEF Missing
  <2> QED
    BY <1>1, <2>1, WFMin, NatLessThanWellFounded
<1>3. ASSUME NEW k \in Missing, k < m PROVE FALSE
  <2>1. <<k, m>> \in Nat \X Nat /\ <<k, m>>[1] = k /\ <<k, m>>[2] = m
    OBVIOUS
  <2>2. <<k, m>> \in OpToRel(<, Nat)
    BY <2>1, <1>3 DEF OpToRel
  <2> QED
    BY <2>2, <1>2
<1>4. m \in 1 .. n /\ m - 1 \in 0 .. n
  OBVIOUS
<1>5. m - 1 \in T
  BY <1>3, <1>4
<1> QED
  BY <1>4, <1>5

\* Some numbers up to n have a greatest one.
LEMMA Greatest ==
  ASSUME NEW n \in Nat, NEW z \in SUBSET (0 .. n), z # {}
  PROVE  \E m \in z : \A y \in z : y <= m
<1> DEFINE Below == {k \in 0 .. n : \E y \in z : y >= k}
<1>1. SUFFICES ASSUME \A m \in z : \E y \in z : y > m PROVE FALSE
  OBVIOUS
<1>2. 0 \in Below
  <2>1. PICK y \in z : TRUE
    OBVIOUS
  <2>2. y \in 0 .. n /\ 0 \in 0 .. n
    OBVIOUS
  <2>3. y >= 0
    BY <2>2
  <2> QED
    BY <2>2, <2>3
<1>3. \A k \in 1 .. n : k - 1 \in Below => k \in Below
  <2> SUFFICES ASSUME NEW k \in 1 .. n, NEW y \in z, y >= k - 1 PROVE \E x \in z : x >= k
    OBVIOUS
  <2>1. PICK x \in z : x > y
    BY <1>1
  <2> QED
    BY <2>1
<1>4. n \in Below
  <2> HIDE DEF Below
  <2> QED
    BY <1>2, <1>3, UpTo
<1>5. PICK y \in z : y >= n
  BY <1>4
<1>6. PICK x \in z : x > y
  BY <1>1
<1> QED
  BY <1>5, <1>6

-----------------------------------------------------------------------------
(* The glob matcher                                                          *)

\* A cut of the text gives this character of the pattern its piece.
CutAt(pattern, text, cut, q) ==
  IF pattern[q] = "*" THEN cut[q] <= cut[q + 1] ELSE cut[q + 1] = cut[q] + 1 /\ pattern[q] \in {"?", text[cut[q]]}

\* The text from t on splits over the pattern from p on.
SplitsFrom(pattern, text, p, t) ==
  \E cut \in [p .. Len(pattern) + 1 -> 1 .. Len(text) + 1] :
    /\ cut[p] = t /\ cut[Len(pattern) + 1] = Len(text) + 1
    /\ \A q \in p .. Len(pattern) : CutAt(pattern, text, cut, q)

LEMMA SplitsAll == ASSUME NEW pattern, NEW text PROVE Splits(pattern, text) <=> SplitsFrom(pattern, text, 1, 1)
BY DEF Splits, SplitsFrom, CutAt

\* Behind the pattern, nothing of the text may be left.
LEMMA SplitsEnd ==
  ASSUME NEW pattern \in Seq(STRING), NEW text \in Seq(STRING), NEW t \in 1 .. Len(text) + 1
  PROVE  SplitsFrom(pattern, text, Len(pattern) + 1, t) <=> t = Len(text) + 1
<1> DEFINE cut == [q \in Len(pattern) + 1 .. Len(pattern) + 1 |-> t]
<1>1. Len(pattern) \in Nat /\ Len(text) \in Nat
  OBVIOUS
<1>2. cut \in [Len(pattern) + 1 .. Len(pattern) + 1 -> 1 .. Len(text) + 1] /\ cut[Len(pattern) + 1] = t
  BY <1>1
<1> HIDE DEF cut
<1>3. \A q : ~(q \in Len(pattern) + 1 .. Len(pattern))
  BY <1>1
<1> QED
  BY <1>2, <1>3 DEF SplitsFrom

\* What is behind the first piece splits over the rest of the pattern.
LEMMA SplitsOn ==
  ASSUME NEW pattern \in Seq(STRING), NEW text \in Seq(STRING), NEW p \in 1 .. Len(pattern), NEW t \in 1 .. Len(text) + 1
  PROVE  SplitsFrom(pattern, text, p, t) <=>
           \E u \in 1 .. Len(text) + 1 :
             /\ IF pattern[p] = "*" THEN t <= u ELSE u = t + 1 /\ pattern[p] \in {"?", text[t]}
             /\ SplitsFrom(pattern, text, p + 1, u)
<1> DEFINE pn == Len(pattern)
           tn == Len(text)
<1>1. pn \in Nat /\ tn \in Nat
  OBVIOUS
<1> HIDE DEF pn, tn
<1>2. ASSUME SplitsFrom(pattern, text, p, t)
      PROVE  \E u \in 1 .. tn + 1 :
             /\ IF pattern[p] = "*" THEN t <= u ELSE u = t + 1 /\ pattern[p] \in {"?", text[t]}
             /\ SplitsFrom(pattern, text, p + 1, u)
  <2>1. PICK cut \in [p .. pn + 1 -> 1 .. tn + 1] :
          cut[p] = t /\ cut[pn + 1] = tn + 1 /\ \A q \in p .. pn : CutAt(pattern, text, cut, q)
    BY <1>2 DEF SplitsFrom, pn, tn
  <2> DEFINE rest == [q \in p + 1 .. pn + 1 |-> cut[q]]
  <2>2. p \in 1 .. pn /\ p \in p .. pn /\ p + 1 \in p .. pn + 1 /\ cut[p + 1] \in 1 .. tn + 1
    BY <1>1 DEF pn
  <2>3. rest \in [p + 1 .. pn + 1 -> 1 .. tn + 1] /\ rest[p + 1] = cut[p + 1] /\ rest[pn + 1] = tn + 1
    BY <1>1, <2>1, <2>2
  <2>4. \A q \in p + 1 .. pn : rest[q] = cut[q] /\ rest[q + 1] = cut[q + 1] /\ q \in p .. pn
    BY <1>1, <2>2
  <2> HIDE DEF rest
  <2>5. \A q \in p + 1 .. pn : CutAt(pattern, text, rest, q)
    BY <2>1, <2>4 DEF CutAt
  <2>6. SplitsFrom(pattern, text, p + 1, cut[p + 1])
    BY <2>3, <2>5 DEF SplitsFrom, pn, tn
  <2>7. CutAt(pattern, text, cut, p)
    BY <2>1, <2>2
  <2> QED
    BY <2>1, <2>2, <2>6, <2>7 DEF CutAt
<1>3. ASSUME NEW u \in 1 .. tn + 1, SplitsFrom(pattern, text, p + 1, u),
             IF pattern[p] = "*" THEN t <= u ELSE u = t + 1 /\ pattern[p] \in {"?", text[t]}
      PROVE  SplitsFrom(pattern, text, p, t)
  <2>1. PICK rest \in [p + 1 .. pn + 1 -> 1 .. tn + 1] :
          rest[p + 1] = u /\ rest[pn + 1] = tn + 1 /\ \A q \in p + 1 .. pn : CutAt(pattern, text, rest, q)
    BY <1>3 DEF SplitsFrom, pn, tn
  <2> DEFINE cut == [q \in p .. pn + 1 |-> IF q = p THEN t ELSE rest[q]]
  <2>2. p \in 1 .. pn /\ t \in 1 .. tn + 1
    BY DEF pn, tn
  <2>3. cut \in [p .. pn + 1 -> 1 .. tn + 1]
    BY <1>1, <2>1, <2>2
  <2>4. cut[p] = t /\ cut[p + 1] = u /\ cut[pn + 1] = tn + 1
    BY <1>1, <2>1, <2>2
  <2>5. \A q \in p + 1 .. pn : cut[q] = rest[q] /\ cut[q + 1] = rest[q + 1]
    BY <1>1, <2>2
  <2> HIDE DEF cut
  <2>6. \A q \in p .. pn : CutAt(pattern, text, cut, q)
    <3> SUFFICES ASSUME NEW q \in p .. pn PROVE CutAt(pattern, text, cut, q)
      OBVIOUS
    <3>1. CASE q = p
      BY <3>1, <1>3, <2>4 DEF CutAt
    <3>2. CASE q # p
      <4>1. q \in p + 1 .. pn
        BY <3>2, <1>1, <2>2
      <4> QED
        BY <4>1, <2>1, <2>5 DEF CutAt
    <3> QED
      BY <3>1, <3>2
  <2> QED
    BY <2>3, <2>4, <2>6 DEF SplitsFrom, pn, tn
<1> QED
  BY <1>2, <1>3 DEF tn

LEMMA SplitsStar ==
  ASSUME NEW pattern \in Seq(STRING), NEW text \in Seq(STRING), NEW p \in 1 .. Len(pattern), NEW t \in 1 .. Len(text) + 1,
         pattern[p] = "*"
  PROVE  SplitsFrom(pattern, text, p, t) <=> \E u \in t .. Len(text) + 1 : SplitsFrom(pattern, text, p + 1, u)
<1>1. Len(text) \in Nat /\ \A u : u \in t .. Len(text) + 1 <=> u \in 1 .. Len(text) + 1 /\ t <= u
  OBVIOUS
<1> QED
  BY <1>1, SplitsOn

LEMMA SplitsChar ==
  ASSUME NEW pattern \in Seq(STRING), NEW text \in Seq(STRING), NEW p \in 1 .. Len(pattern), NEW t \in 1 .. Len(text) + 1,
         pattern[p] # "*"
  PROVE  SplitsFrom(pattern, text, p, t) <=>
           t <= Len(text) /\ pattern[p] \in {"?", text[t]} /\ SplitsFrom(pattern, text, p + 1, t + 1)
<1>1. Len(text) \in Nat /\ (t + 1 \in 1 .. Len(text) + 1 <=> t <= Len(text))
  OBVIOUS
<1> QED
  BY <1>1, SplitsOn

\* A split from behind a star goes on at each character up to the next one.
LEMMA SplitsStretch ==
  ASSUME NEW pattern \in Seq(STRING), NEW text \in Seq(STRING), NEW star \in 0 .. Len(pattern), NEW p \in 1 .. Len(pattern) + 1,
         NEW u \in 1 .. Len(text) + 1, star < p, \A q \in star + 1 .. p - 1 : pattern[q] # "*",
         SplitsFrom(pattern, text, star + 1, u)
  PROVE  u + (p - star - 1) \in 1 .. Len(text) + 1 /\ SplitsFrom(pattern, text, p, u + (p - star - 1))
<1> DEFINE n == p - star - 1
           T == {k \in 0 .. n : u + k \in 1 .. Len(text) + 1 /\ SplitsFrom(pattern, text, star + 1 + k, u + k)}
<1>1. Len(text) \in Nat /\ Len(pattern) \in Nat /\ n \in Nat
  OBVIOUS
<1>2. 0 \in T
  <2>1. u + 0 = u /\ star + 1 + 0 = star + 1 /\ 0 \in 0 .. n
    BY <1>1
  <2> QED
    BY <2>1
<1>3. ASSUME NEW k \in 1 .. n, k - 1 \in T PROVE k \in T
  <2> DEFINE q == star + 1 + (k - 1)
             v == u + (k - 1)
  <2>1. q \in 1 .. Len(pattern) /\ v \in 1 .. Len(text) + 1 /\ pattern[q] # "*" /\ SplitsFrom(pattern, text, q, v)
    BY <1>1, <1>3
  <2>2. q + 1 = star + 1 + k /\ v + 1 = u + k /\ v \in Int /\ k \in 0 .. n
    BY <1>1
  <2> HIDE DEF q, v
  <2>3. v <= Len(text) /\ SplitsFrom(pattern, text, q + 1, v + 1)
    BY <2>1, SplitsChar
  <2>4. v + 1 \in 1 .. Len(text) + 1
    BY <2>1, <2>3, <1>1
  <2> QED
    BY <2>2, <2>3, <2>4
<1>4. n \in T
  <2> HIDE DEF n, T
  <2>1. 0 .. n \subseteq T
    BY <1>1, <1>2, <1>3, UpTo
  <2> QED
    BY <1>1, <2>1
<1> HIDE DEF n, T
<1>5. star + 1 + n = p
  BY DEF n
<1> QED
  BY <1>4, <1>5 DEF T, n

\* Of a text that is used up, stars may be left.
LEMMA SplitsNothing ==
  ASSUME NEW pattern \in Seq(STRING), NEW text \in Seq(STRING), NEW p \in 1 .. Len(pattern) + 1
  PROVE  SplitsFrom(pattern, text, p, Len(text) + 1) <=> \A q \in p .. Len(pattern) : pattern[q] = "*"
<1> DEFINE pn == Len(pattern)
           tn == Len(text)
<1>1. pn \in Nat /\ tn \in Nat /\ p \in 1 .. pn + 1
  OBVIOUS
<1>2. ASSUME \A q \in p .. pn : pattern[q] = "*" PROVE SplitsFrom(pattern, text, p, tn + 1)
  <2> DEFINE cut == [q \in p .. pn + 1 |-> tn + 1]
  <2>1. cut \in [p .. pn + 1 -> 1 .. tn + 1] /\ cut[p] = tn + 1 /\ cut[pn + 1] = tn + 1
    BY <1>1
  <2>2. \A q \in p .. pn : cut[q] <= cut[q + 1]
    BY <1>1
  <2> HIDE DEF cut
  <2>3. \A q \in p .. pn : CutAt(pattern, text, cut, q)
    BY <1>2, <2>2 DEF CutAt
  <2> QED
    BY <2>1, <2>3 DEF SplitsFrom
<1>3. ASSUME SplitsFrom(pattern, text, p, tn + 1) PROVE \A q \in p .. pn : pattern[q] = "*"
  <2>1. PICK cut \in [p .. pn + 1 -> 1 .. tn + 1] : cut[p] = tn + 1 /\ \A q \in p .. pn : CutAt(pattern, text, cut, q)
    BY <1>3 DEF SplitsFrom
  <2> DEFINE n == pn + 1 - p
             T == {k \in 0 .. n : cut[p + k] = tn + 1 /\ (k > 0 => pattern[p + k - 1] = "*")}
  <2>2. n \in Nat /\ 0 \in T
    BY <1>1, <2>1
  <2>3. ASSUME NEW k \in 1 .. n, k - 1 \in T PROVE k \in T
    <3>1. p + k - 1 \in p .. pn /\ p + k \in p .. pn + 1 /\ p + (k - 1) = p + k - 1 /\ (p + k - 1) + 1 = p + k
      BY <1>1
    <3>2. CutAt(pattern, text, cut, p + k - 1) /\ cut[p + k - 1] = tn + 1 /\ cut[p + k] \in 1 .. tn + 1
      BY <3>1, <2>1, <2>3
    <3>3. pattern[p + k - 1] = "*" /\ cut[p + k] = tn + 1
      BY <3>1, <3>2, <1>1 DEF CutAt
    <3> QED
      BY <3>3
  <2>4. 0 .. n \subseteq T
    <3> HIDE DEF n, T
    <3> QED
      BY <2>2, <2>3, UpTo
  <2> SUFFICES ASSUME NEW q \in p .. pn PROVE pattern[q] = "*"
    OBVIOUS
  <2>5. q - p + 1 \in 0 .. n /\ q - p + 1 > 0 /\ p + (q - p + 1) - 1 = q
    BY <1>1
  <2>6. q - p + 1 \in T
    BY <2>4, <2>5
  <2> QED
    BY <2>5, <2>6
<1> QED
  BY <1>2, <1>3

\* Where the matcher may be: since the last star the pattern took a character of the text at each step.
Spots(pattern, text) ==
  {s \in [p : 1 .. Len(pattern) + 1, t : 1 .. Len(text) + 1, star : 0 .. Len(pattern), back : 1 .. Len(text) + 1] :
    /\ s.star < s.p /\ s.t - s.back = s.p - s.star - 1
    /\ \A q \in s.star + 1 .. s.p - 1 : pattern[q] # "*"}

\* Its steps: at a star, at a character that fits, at one that does not.
AtStar(s) == [p |-> s.p + 1, t |-> s.t, star |-> s.p, back |-> s.t]
AtChar(s) == [p |-> s.p + 1, t |-> s.t + 1, star |-> s.star, back |-> s.back]
AtOther(s) == [p |-> s.star + 1, t |-> s.back + 1, star |-> s.star, back |-> s.back + 1]
SeesStar(pattern, text, s) == s.t <= Len(text) /\ s.p <= Len(pattern) /\ pattern[s.p] = "*"
SeesChar(pattern, text, s) ==
  s.t <= Len(text) /\ s.p <= Len(pattern) /\ pattern[s.p] \in {"?", text[s.t]} /\ pattern[s.p] # "*"

GlobStep(pattern, text, r, s) ==
  CASE s.t > Len(text) -> \A q \in s.p .. Len(pattern) : pattern[q] = "*"
    [] s.t <= Len(text) /\ s.p <= Len(pattern) /\ pattern[s.p] = "*" -> r[[p |-> s.p + 1, t |-> s.t, star |-> s.p, back |-> s.t]]
    [] s.t <= Len(text) /\ s.p <= Len(pattern) /\ pattern[s.p] \in {"?", text[s.t]} /\ pattern[s.p] # "*"
       -> r[[p |-> s.p + 1, t |-> s.t + 1, star |-> s.star, back |-> s.back]]
    [] OTHER -> s.star # 0 /\ r[[p |-> s.star + 1, t |-> s.back + 1, star |-> s.star, back |-> s.back + 1]]

IsGlobRun(pattern, text, r) == r = [s \in Spots(pattern, text) |-> GlobStep(pattern, text, r, s)]
GlobRun(pattern, text) == CHOOSE r : IsGlobRun(pattern, text, r)

LEMMA GlobIsRun ==
  ASSUME NEW pattern, NEW text
  PROVE  GlobMatch(pattern, text) = GlobRun(pattern, text)[[p |-> 1, t |-> 1, star |-> 0, back |-> 1]]
BY Zenon DEF GlobMatch, GlobRun, IsGlobRun, GlobStep, Spots

\* What a spot is worth: the text there splits, or behind the last star a later piece of it does.
Worth(pattern, text, s) ==
  \/ SplitsFrom(pattern, text, s.p, s.t)
  \/ s.star # 0 /\ \E u \in s.back + 1 .. Len(text) + 1 : SplitsFrom(pattern, text, s.star + 1, u)

LEMMA SpotHas ==
  ASSUME NEW pattern \in Seq(STRING), NEW text \in Seq(STRING), NEW s \in Spots(pattern, text)
  PROVE  /\ Len(pattern) \in Nat /\ Len(text) \in Nat
         /\ s.p \in 1 .. Len(pattern) + 1 /\ s.t \in 1 .. Len(text) + 1 /\ s.star \in 0 .. Len(pattern)
         /\ s.back \in 1 .. Len(text) + 1 /\ s.star < s.p /\ s.t - s.back = s.p - s.star - 1
         /\ \A q \in s.star + 1 .. s.p - 1 : pattern[q] # "*"
BY DEF Spots

LEMMA AtStarStep ==
  ASSUME NEW pattern \in Seq(STRING), NEW text \in Seq(STRING), NEW s \in Spots(pattern, text), SeesStar(pattern, text, s)
  PROVE  /\ AtStar(s) \in Spots(pattern, text) /\ AtStar(s).star > s.star
         /\ Worth(pattern, text, AtStar(s)) <=> Worth(pattern, text, s)
<1> DEFINE w == AtStar(s)
<1>1. /\ Len(pattern) \in Nat /\ Len(text) \in Nat
      /\ s.p \in 1 .. Len(pattern) /\ s.t \in 1 .. Len(text) /\ s.t \in 1 .. Len(text) + 1 /\ s.star \in 0 .. Len(pattern) /\ s.back \in 1 .. Len(text) + 1
      /\ s.star < s.p /\ s.t - s.back = s.p - s.star - 1 /\ pattern[s.p] = "*"
      /\ \A q \in s.star + 1 .. s.p - 1 : pattern[q] # "*"
  BY SpotHas DEF SeesStar
<1>2. /\ w.p = s.p + 1 /\ w.t = s.t /\ w.star = s.p /\ w.back = s.t
      /\ w \in [p : 1 .. Len(pattern) + 1, t : 1 .. Len(text) + 1, star : 0 .. Len(pattern), back : 1 .. Len(text) + 1]
  BY <1>1 DEF AtStar
<1> HIDE DEF w
<1>3. \A q : ~(q \in w.star + 1 .. w.p - 1)
  BY <1>1, <1>2
<1>4. w \in Spots(pattern, text) /\ w.star > s.star
  BY <1>1, <1>2, <1>3 DEF Spots
<1>5. SplitsFrom(pattern, text, s.p, s.t) <=> \E u \in s.t .. Len(text) + 1 : SplitsFrom(pattern, text, s.p + 1, u)
  BY <1>1, SplitsStar
<1>6. Worth(pattern, text, w) <=> SplitsFrom(pattern, text, s.p, s.t)
  <2>1. Worth(pattern, text, w) <=>
          \/ SplitsFrom(pattern, text, s.p + 1, s.t)
          \/ \E u \in s.t + 1 .. Len(text) + 1 : SplitsFrom(pattern, text, s.p + 1, u)
    <3>1. w.star # 0
      BY <1>1, <1>2
    <3> QED
      BY <1>2, <3>1 DEF Worth
  <2>2. \A u : u \in s.t .. Len(text) + 1 <=> u = s.t \/ u \in s.t + 1 .. Len(text) + 1
    BY <1>1
  <2> QED
    BY <1>5, <2>1, <2>2
<1>7. ASSUME s.star # 0, NEW u \in s.back + 1 .. Len(text) + 1, SplitsFrom(pattern, text, s.star + 1, u)
      PROVE  SplitsFrom(pattern, text, s.p, s.t)
  <2> DEFINE v == u + (s.p - s.star - 1)
  <2>1. u \in 1 .. Len(text) + 1 /\ s.p \in 1 .. Len(pattern) + 1
    BY <1>1
  <2>2. v \in 1 .. Len(text) + 1 /\ SplitsFrom(pattern, text, s.p, v)
    BY <1>1, <1>7, <2>1, SplitsStretch
  <2>3. v >= s.t
    BY <1>1
  <2> HIDE DEF v
  <2>4. PICK x \in v .. Len(text) + 1 : SplitsFrom(pattern, text, s.p + 1, x)
    BY <1>1, <2>2, SplitsStar
  <2>5. x \in s.t .. Len(text) + 1
    BY <1>1, <2>2, <2>3
  <2> QED
    BY <1>5, <2>4, <2>5
<1> QED
  BY <1>4, <1>6, <1>7 DEF Worth, w

LEMMA AtCharStep ==
  ASSUME NEW pattern \in Seq(STRING), NEW text \in Seq(STRING), NEW s \in Spots(pattern, text), SeesChar(pattern, text, s)
  PROVE  /\ AtChar(s) \in Spots(pattern, text) /\ AtChar(s).star = s.star /\ AtChar(s).back = s.back /\ AtChar(s).p > s.p
         /\ Worth(pattern, text, AtChar(s)) <=> Worth(pattern, text, s)
<1> DEFINE w == AtChar(s)
<1>1. /\ Len(pattern) \in Nat /\ Len(text) \in Nat
      /\ s.p \in 1 .. Len(pattern) /\ s.t \in 1 .. Len(text) /\ s.t \in 1 .. Len(text) + 1 /\ s.star \in 0 .. Len(pattern) /\ s.back \in 1 .. Len(text) + 1
      /\ s.star < s.p /\ s.t - s.back = s.p - s.star - 1 /\ pattern[s.p] # "*" /\ pattern[s.p] \in {"?", text[s.t]}
      /\ \A q \in s.star + 1 .. s.p - 1 : pattern[q] # "*"
  BY SpotHas DEF SeesChar
<1>2. /\ w.p = s.p + 1 /\ w.t = s.t + 1 /\ w.star = s.star /\ w.back = s.back
      /\ w \in [p : 1 .. Len(pattern) + 1, t : 1 .. Len(text) + 1, star : 0 .. Len(pattern), back : 1 .. Len(text) + 1]
  BY <1>1 DEF AtChar
<1> HIDE DEF w
<1>3. \A q \in w.star + 1 .. w.p - 1 : q = s.p \/ q \in s.star + 1 .. s.p - 1
  BY <1>1, <1>2
<1>4. w \in Spots(pattern, text) /\ w.p > s.p
  BY <1>1, <1>2, <1>3 DEF Spots
<1>5. SplitsFrom(pattern, text, s.p, s.t) <=> SplitsFrom(pattern, text, s.p + 1, s.t + 1)
  BY <1>1, SplitsChar
<1> QED
  BY <1>2, <1>4, <1>5 DEF Worth, w

LEMMA AtOtherStep ==
  ASSUME NEW pattern \in Seq(STRING), NEW text \in Seq(STRING), NEW s \in Spots(pattern, text), s.t <= Len(text),
         ~SeesStar(pattern, text, s), ~SeesChar(pattern, text, s)
  PROVE  /\ s.star = 0 => ~Worth(pattern, text, s)
         /\ s.star # 0 => /\ AtOther(s) \in Spots(pattern, text) /\ AtOther(s).star = s.star /\ AtOther(s).back > s.back
                          /\ Worth(pattern, text, AtOther(s)) <=> Worth(pattern, text, s)
<1> DEFINE w == AtOther(s)
<1>1. /\ Len(pattern) \in Nat /\ Len(text) \in Nat
      /\ s.p \in 1 .. Len(pattern) + 1 /\ s.t \in 1 .. Len(text) /\ s.t \in 1 .. Len(text) + 1 /\ s.star \in 0 .. Len(pattern) /\ s.back \in 1 .. Len(text)
      /\ s.star < s.p /\ s.t - s.back = s.p - s.star - 1
  BY SpotHas
<1>2. ~SplitsFrom(pattern, text, s.p, s.t)
  <2>1. CASE s.p = Len(pattern) + 1
    BY <2>1, <1>1, SplitsEnd
  <2>2. CASE s.p # Len(pattern) + 1
    <3>1. s.p \in 1 .. Len(pattern) /\ pattern[s.p] # "*" /\ ~(pattern[s.p] \in {"?", text[s.t]})
      BY <2>2, <1>1 DEF SeesStar, SeesChar
    <3> QED
      BY <3>1, <1>1, SplitsChar
  <2> QED
    BY <2>1, <2>2
<1>3. ASSUME s.star # 0
      PROVE  /\ w \in Spots(pattern, text) /\ w.star = s.star /\ w.back > s.back
             /\ Worth(pattern, text, w) <=> Worth(pattern, text, s)
  <2>1. /\ w.p = s.star + 1 /\ w.t = s.back + 1 /\ w.star = s.star /\ w.back = s.back + 1
        /\ w \in [p : 1 .. Len(pattern) + 1, t : 1 .. Len(text) + 1, star : 0 .. Len(pattern), back : 1 .. Len(text) + 1]
    BY <1>1 DEF AtOther
  <2> HIDE DEF w
  <2>2. \A q : ~(q \in w.star + 1 .. w.p - 1)
    BY <1>1, <2>1
  <2>3. w \in Spots(pattern, text)
    BY <1>1, <2>1, <2>2 DEF Spots
  <2>4. Worth(pattern, text, w) <=>
          \/ SplitsFrom(pattern, text, s.star + 1, s.back + 1)
          \/ \E u \in s.back + 1 + 1 .. Len(text) + 1 : SplitsFrom(pattern, text, s.star + 1, u)
    BY <1>3, <2>1 DEF Worth
  <2>5. Worth(pattern, text, s) <=> \E u \in s.back + 1 .. Len(text) + 1 : SplitsFrom(pattern, text, s.star + 1, u)
    BY <1>2, <1>3 DEF Worth
  <2>6. \A u : u \in s.back + 1 .. Len(text) + 1 <=> u = s.back + 1 \/ u \in s.back + 1 + 1 .. Len(text) + 1
    BY <1>1
  <2>7. (\E u \in s.back + 1 .. Len(text) + 1 : SplitsFrom(pattern, text, s.star + 1, u))
        <=> \/ SplitsFrom(pattern, text, s.star + 1, s.back + 1)
            \/ \E u \in s.back + 1 + 1 .. Len(text) + 1 : SplitsFrom(pattern, text, s.star + 1, u)
    BY <2>6
  <2> QED
    BY <1>1, <2>1, <2>3, <2>4, <2>5, <2>7
<1> QED
  BY <1>2, <1>3 DEF Worth, w

\* Behind the text nothing later can split.
LEMMA AtEnd ==
  ASSUME NEW pattern \in Seq(STRING), NEW text \in Seq(STRING), NEW s \in Spots(pattern, text), s.t > Len(text)
  PROVE  Worth(pattern, text, s) <=> \A q \in s.p .. Len(pattern) : pattern[q] = "*"
<1>1. /\ Len(pattern) \in Nat /\ Len(text) \in Nat
      /\ s.p \in 1 .. Len(pattern) + 1 /\ s.t = Len(text) + 1 /\ s.star \in 0 .. Len(pattern) /\ s.back \in 1 .. Len(text) + 1
      /\ s.star < s.p /\ s.t - s.back = s.p - s.star - 1
      /\ \A q \in s.star + 1 .. s.p - 1 : pattern[q] # "*"
  BY SpotHas
<1>2. ASSUME NEW u \in s.back + 1 .. Len(text) + 1, SplitsFrom(pattern, text, s.star + 1, u) PROVE FALSE
  <2>1. u \in 1 .. Len(text) + 1 /\ ~(u + (s.p - s.star - 1) \in 1 .. Len(text) + 1)
    BY <1>1
  <2> QED
    BY <1>1, <1>2, <2>1, SplitsStretch
<1>3. SplitsFrom(pattern, text, s.p, Len(text) + 1) <=> \A q \in s.p .. Len(pattern) : pattern[q] = "*"
  BY <1>1, SplitsNothing
<1> QED
  BY <1>1, <1>2, <1>3 DEF Worth

LEMMA GlobStepIs ==
  ASSUME NEW pattern \in Seq(STRING), NEW text \in Seq(STRING), NEW r, NEW s \in Spots(pattern, text)
  PROVE  /\ s.t > Len(text) => GlobStep(pattern, text, r, s) = (\A q \in s.p .. Len(pattern) : pattern[q] = "*")
         /\ ~(s.t > Len(text)) /\ SeesStar(pattern, text, s) => GlobStep(pattern, text, r, s) = r[AtStar(s)]
         /\ ~(s.t > Len(text)) /\ ~SeesStar(pattern, text, s) /\ SeesChar(pattern, text, s)
              => GlobStep(pattern, text, r, s) = r[AtChar(s)]
         /\ ~(s.t > Len(text)) /\ ~SeesStar(pattern, text, s) /\ ~SeesChar(pattern, text, s)
              => GlobStep(pattern, text, r, s) = (s.star # 0 /\ r[AtOther(s)])
<1>0. s.t \in Int /\ Len(text) \in Int
  BY SpotHas
<1> USE DEF GlobStep, SeesStar, SeesChar, AtStar, AtChar, AtOther
<1>1. s.t > Len(text) => GlobStep(pattern, text, r, s) = (\A q \in s.p .. Len(pattern) : pattern[q] = "*")
  <2> SUFFICES ASSUME s.t > Len(text) PROVE GlobStep(pattern, text, r, s) = (\A q \in s.p .. Len(pattern) : pattern[q] = "*")
    OBVIOUS
  <2>1. ~(s.t <= Len(text))
    BY <1>0
  <2> QED
    BY <2>1, Zenon
<1>2. ~(s.t > Len(text)) /\ SeesStar(pattern, text, s) => GlobStep(pattern, text, r, s) = r[AtStar(s)]
  BY <1>0
<1>3. ~(s.t > Len(text)) /\ ~SeesStar(pattern, text, s) /\ SeesChar(pattern, text, s)
        => GlobStep(pattern, text, r, s) = r[AtChar(s)]
  BY <1>0
<1>4. ~(s.t > Len(text)) /\ ~SeesStar(pattern, text, s) /\ ~SeesChar(pattern, text, s)
        => GlobStep(pattern, text, r, s) = (s.star # 0 /\ r[AtOther(s)])
  BY <1>0
<1> QED
  BY <1>1, <1>2, <1>3, <1>4

LEMMA WorthOfStep ==
  ASSUME NEW pattern \in Seq(STRING), NEW text \in Seq(STRING), NEW r, NEW s \in Spots(pattern, text),
         SeesStar(pattern, text, s) => r[AtStar(s)] = Worth(pattern, text, AtStar(s)),
         SeesChar(pattern, text, s) => r[AtChar(s)] = Worth(pattern, text, AtChar(s)),
         s.star # 0 /\ s.t <= Len(text) /\ ~SeesStar(pattern, text, s) /\ ~SeesChar(pattern, text, s)
           => r[AtOther(s)] = Worth(pattern, text, AtOther(s))
  PROVE  GlobStep(pattern, text, r, s) = Worth(pattern, text, s)
<1>1. CASE s.t > Len(text)
  <2>1. GlobStep(pattern, text, r, s) = (\A q \in s.p .. Len(pattern) : pattern[q] = "*")
    BY <1>1, GlobStepIs
  <2>2. Worth(pattern, text, s) <=> (\A q \in s.p .. Len(pattern) : pattern[q] = "*")
    BY <1>1, AtEnd
  <2>3. (Worth(pattern, text, s) \in BOOLEAN)
    BY DEF Worth
  <2> QED
    BY <2>1, <2>2, <2>3
<1>2. CASE ~(s.t > Len(text)) /\ SeesStar(pattern, text, s)
  <2>1. GlobStep(pattern, text, r, s) = Worth(pattern, text, AtStar(s))
    BY <1>2, GlobStepIs
  <2>2. Worth(pattern, text, AtStar(s)) <=> Worth(pattern, text, s)
    BY <1>2, AtStarStep
  <2>3. (Worth(pattern, text, s) \in BOOLEAN) /\ (Worth(pattern, text, AtStar(s)) \in BOOLEAN)
    BY DEF Worth
  <2> QED
    BY <2>1, <2>2, <2>3
<1>3. CASE ~(s.t > Len(text)) /\ ~SeesStar(pattern, text, s) /\ SeesChar(pattern, text, s)
  <2>1. GlobStep(pattern, text, r, s) = Worth(pattern, text, AtChar(s))
    BY <1>3, GlobStepIs
  <2>2. Worth(pattern, text, AtChar(s)) <=> Worth(pattern, text, s)
    BY <1>3, AtCharStep
  <2>3. (Worth(pattern, text, s) \in BOOLEAN) /\ (Worth(pattern, text, AtChar(s)) \in BOOLEAN)
    BY DEF Worth
  <2> QED
    BY <2>1, <2>2, <2>3
<1>4. CASE ~(s.t > Len(text)) /\ ~SeesStar(pattern, text, s) /\ ~SeesChar(pattern, text, s)
  <2>1. s.t <= Len(text)
    BY <1>4, SpotHas
  <2>2. GlobStep(pattern, text, r, s) = (s.star # 0 /\ r[AtOther(s)])
    BY <1>4, GlobStepIs
  <2>3. /\ s.star = 0 => ~Worth(pattern, text, s)
        /\ s.star # 0 => (Worth(pattern, text, AtOther(s)) <=> Worth(pattern, text, s))
    BY <1>4, <2>1, AtOtherStep
  <2>4. s.star # 0 => r[AtOther(s)] = Worth(pattern, text, AtOther(s))
    BY <1>4, <2>1
  <2>5. (Worth(pattern, text, s) \in BOOLEAN) /\ (Worth(pattern, text, AtOther(s)) \in BOOLEAN)
    BY DEF Worth
  <2> QED
    BY <2>2, <2>3, <2>4, <2>5
<1> QED
  BY <1>1, <1>2, <1>3, <1>4

\* The matcher's run is well defined: what its spots are worth is one.
LEMMA GlobRunIs ==
  ASSUME NEW pattern \in Seq(STRING), NEW text \in Seq(STRING)
  PROVE  IsGlobRun(pattern, text, GlobRun(pattern, text))
<1> DEFINE r == [s \in Spots(pattern, text) |-> Worth(pattern, text, s)]
<1>1. \A s \in Spots(pattern, text) : r[s] = Worth(pattern, text, s)
  OBVIOUS
<1>2. r = [s \in Spots(pattern, text) |-> r[s]]
  OBVIOUS
<1> HIDE DEF r
<1>3. \A s \in Spots(pattern, text) : GlobStep(pattern, text, r, s) = r[s]
  <2> SUFFICES ASSUME NEW s \in Spots(pattern, text) PROVE GlobStep(pattern, text, r, s) = r[s]
    OBVIOUS
  <2>0. SeesChar(pattern, text, s) /\ SeesStar(pattern, text, s) => FALSE
    BY DEF SeesChar, SeesStar
  <2>1. SeesStar(pattern, text, s) => r[AtStar(s)] = Worth(pattern, text, AtStar(s))
    BY <1>1, AtStarStep
  <2>2. SeesChar(pattern, text, s) => r[AtChar(s)] = Worth(pattern, text, AtChar(s))
    BY <1>1, AtCharStep
  <2>3. s.star # 0 /\ s.t <= Len(text) /\ ~SeesStar(pattern, text, s) /\ ~SeesChar(pattern, text, s)
           => r[AtOther(s)] = Worth(pattern, text, AtOther(s))
    BY <1>1, AtOtherStep
  <2> QED
    BY <1>1, <2>1, <2>2, <2>3, WorthOfStep
<1>4. IsGlobRun(pattern, text, r)
  BY <1>2, <1>3 DEF IsGlobRun
<1> QED
  BY <1>4, Zenon DEF GlobRun

\* There is no other: take a spot where it differs, of those with the last star one with the latest try, of these the last.
LEMMA GlobRunIsWorth ==
  ASSUME NEW pattern \in Seq(STRING), NEW text \in Seq(STRING), NEW r, IsGlobRun(pattern, text, r)
  PROVE  \A s \in Spots(pattern, text) : r[s] = Worth(pattern, text, s)
<1> DEFINE Bad == {s \in Spots(pattern, text) : r[s] # Worth(pattern, text, s)}
<1>1. SUFFICES ASSUME Bad # {} PROVE FALSE
  OBVIOUS
<1>2. \A s \in Bad : /\ s \in Spots(pattern, text) /\ s.star \in 0 .. Len(pattern)
                     /\ s.back \in 0 .. Len(text) + 1 /\ s.p \in 0 .. Len(pattern) + 1
  BY SpotHas
<1>3. Len(pattern) \in Nat /\ Len(pattern) + 1 \in Nat /\ Len(text) + 1 \in Nat
  OBVIOUS
<1>4. \A s \in Spots(pattern, text) : s \notin Bad => r[s] = Worth(pattern, text, s)
  OBVIOUS
<1>5. \A s \in Bad : r[s] # Worth(pattern, text, s)
  OBVIOUS
<1> HIDE DEF Bad
<1>6. PICK s1 \in Bad : \A s \in Bad : s.star <= s1.star
  <2> DEFINE Stars == {s.star : s \in Bad}
  <2>1. Stars \in SUBSET (0 .. Len(pattern)) /\ Stars # {}
    BY <1>1, <1>2
  <2> HIDE DEF Stars
  <2>2. PICK m \in Stars : \A y \in Stars : y <= m
    BY <1>3, <2>1, Greatest
  <2> QED
    BY <2>2 DEF Stars
<1>7. PICK s2 \in Bad : s2.star = s1.star /\ \A s \in Bad : s.star = s1.star => s.back <= s2.back
  <2> DEFINE Backs == {s.back : s \in {x \in Bad : x.star = s1.star}}
  <2>1. Backs \in SUBSET (0 .. Len(text) + 1) /\ Backs # {}
    BY <1>2, <1>6
  <2> HIDE DEF Backs
  <2>2. PICK m \in Backs : \A y \in Backs : y <= m
    BY <1>3, <2>1, Greatest
  <2> QED
    BY <2>2 DEF Backs
<1>8. PICK s \in Bad : /\ s.star = s1.star /\ s.back = s2.back
                       /\ \A x \in Bad : x.star = s1.star /\ x.back = s2.back => x.p <= s.p
  <2> DEFINE Ps == {s.p : s \in {x \in Bad : x.star = s1.star /\ x.back = s2.back}}
  <2>1. Ps \in SUBSET (0 .. Len(pattern) + 1) /\ Ps # {}
    BY <1>2, <1>7
  <2> HIDE DEF Ps
  <2>2. PICK m \in Ps : \A y \in Ps : y <= m
    BY <1>3, <2>1, Greatest
  <2> QED
    BY <2>2 DEF Ps
<1>9. \A x \in Spots(pattern, text) :
        \/ x.star > s.star
        \/ x.star = s.star /\ x.back > s.back
        \/ x.star = s.star /\ x.back = s.back /\ x.p > s.p
        => r[x] = Worth(pattern, text, x)
  <2> SUFFICES ASSUME NEW x \in Bad,
                      \/ x.star > s.star
                      \/ x.star = s.star /\ x.back > s.back
                      \/ x.star = s.star /\ x.back = s.back /\ x.p > s.p
               PROVE  FALSE
    BY <1>4
  <2>1. /\ s \in Bad /\ s.star \in Int /\ s.back \in Int /\ s.p \in Int
        /\ x.star \in Int /\ x.back \in Int /\ x.p \in Int
    BY <1>2, <1>8
  <2>2. x.star <= s.star
    BY <1>6, <1>8
  <2>3. x.star = s.star => x.back <= s.back
    BY <1>7, <1>8
  <2>4. x.star = s.star /\ x.back = s.back => x.p <= s.p
    BY <1>8
  <2> QED
    BY <2>1, <2>2, <2>3, <2>4
<1>10. s \in Spots(pattern, text) /\ r[s] # Worth(pattern, text, s)
  BY <1>2, <1>5, <1>8
<1>11. SeesStar(pattern, text, s) => r[AtStar(s)] = Worth(pattern, text, AtStar(s))
  BY <1>9, <1>10, AtStarStep
<1>12. SeesChar(pattern, text, s) => r[AtChar(s)] = Worth(pattern, text, AtChar(s))
  BY <1>9, <1>10, AtCharStep
<1>13. s.star # 0 /\ s.t <= Len(text) /\ ~SeesStar(pattern, text, s) /\ ~SeesChar(pattern, text, s)
         => r[AtOther(s)] = Worth(pattern, text, AtOther(s))
  BY <1>9, <1>10, AtOtherStep
<1>14. GlobStep(pattern, text, r, s) = Worth(pattern, text, s)
  BY <1>10, <1>11, <1>12, <1>13, WorthOfStep
<1>15. r[s] = GlobStep(pattern, text, r, s)
  <2>1. r = [x \in Spots(pattern, text) |-> GlobStep(pattern, text, r, x)]
    BY DEF IsGlobRun
  <2> QED
    BY <1>10, <2>1, Zenon
<1> QED
  BY <1>10, <1>14, <1>15

\* The greedy matcher decides what the split over the pattern says, for every pattern and text.
THEOREM GlobMatchIsSplits ==
  ASSUME NEW pattern \in Seq(STRING), NEW text \in Seq(STRING)
  PROVE  GlobMatch(pattern, text) = Splits(pattern, text)
<1> DEFINE first == [p |-> 1, t |-> 1, star |-> 0, back |-> 1]
<1>1. first \in [p : 1 .. Len(pattern) + 1, t : 1 .. Len(text) + 1, star : 0 .. Len(pattern), back : 1 .. Len(text) + 1]
  OBVIOUS
<1>2. first.p = 1 /\ first.t = 1 /\ first.star = 0 /\ first.back = 1
  OBVIOUS
<1>3. first \in Spots(pattern, text)
  <2> HIDE DEF first
  <2>1. \A q : ~(q \in 0 + 1 .. 1 - 1)
    OBVIOUS
  <2> QED
    BY <1>1, <1>2, <2>1 DEF Spots
<1>4. GlobMatch(pattern, text) = GlobRun(pattern, text)[first]
  BY GlobIsRun
<1> HIDE DEF first
<1>5. GlobRun(pattern, text)[first] = Worth(pattern, text, first)
  BY <1>3, GlobRunIs, GlobRunIsWorth
<1>6. Worth(pattern, text, first) <=> Splits(pattern, text)
  BY <1>2, SplitsAll DEF Worth
<1>7. (Worth(pattern, text, first) \in BOOLEAN) /\ (Splits(pattern, text) \in BOOLEAN)
  BY DEF Worth, Splits
<1> QED
  BY <1>4, <1>5, <1>6, <1>7

-----------------------------------------------------------------------------
(* The entries of the table                                                  *)

EntryFields == {"name", "ov", "rule", "version", "entity", "channel", "lastSeen", "observed"}

\* An entry whose rules are those of a version up to v.
IsEntry(e, v) ==
  /\ DOMAIN e = EntryFields /\ e = [x \in EntryFields |-> e[x]]
  /\ e.lastSeen \in Nat /\ e.version \in 0 .. v

\* The entry of a sound that plays: seen since the time given, with what was asked for, with the
\* rules that stand if it has their version, and observed if a poll heard the sound.
Fits(sound, e, v, list, ov, heard, from) ==
  /\ e.lastSeen >= from /\ e.ov = ov
  /\ e.version = v => e.rule = RulesFor(list, sound.channel, e.name)
  /\ heard = "unheard" \/ e.observed

\* A sound that plays without an entry has been asked for nothing, and not been heard.
Tracks(sounds, last, v, list, g, as, ta, from) ==
  /\ DOMAIN g \subseteq 1 .. last
  /\ \A k \in DOMAIN g : IsEntry(g[k], v)
  /\ \A k \in DOMAIN sounds :
       /\ k \in DOMAIN g => Fits(sounds[k], g[k], v, list, as[k], ta[k], from)
       /\ k \notin DOMAIN g => as[k] = NoOverride /\ ta[k] = "unheard"

\* What was seen since then is of these sounds.
SeenIn(g, from, R) == \A k \in DOMAIN g : g[k].lastSeen >= from => k \in R

InTime == {"unheard", "heard", "took"}
TableTypes ==
  /\ lastStarted \in 0 .. LastGuid /\ tableNow \in Nat /\ rulesVersion \in Nat \ {0}
  /\ DOMAIN asked = 1 .. LastGuid /\ DOMAIN taken = 1 .. LastGuid /\ \A k \in 1 .. LastGuid : taken[k] \in InTime
  /\ \A k \in lastStarted + 1 .. LastGuid : asked[k] = NoOverride /\ taken[k] = "unheard"
  /\ DOMAIN playing \subseteq 1 .. lastStarted
RecentAreFew == Cardinality(Recent) <= MaxGuidEntries - MaxGuidEntries \div 2 + 1
AppliedIsOfPlaying == polled => DOMAIN applied \subseteq DOMAIN playing

OverridesCore ==
  /\ TableTypes /\ RecentAreFew /\ AppliedIsOfPlaying /\ PlaysAsAsked
  /\ Tracks(playing, lastStarted, rulesVersion, rules, guids, asked, taken, tableNow)
  /\ \A k \in DOMAIN guids : guids[k].lastSeen <= tableNow

LEMMA HalvesOrdered ==
  ASSUME NEW m \in Nat, NEW n \in Nat, m <= n
  PROVE  m - m \div 2 <= n - n \div 2 /\ n \div 2 \in Nat /\ m \div 2 \in Nat
OBVIOUS

\* Making room keeps what was seen lately: it is at most the half that stays.
LEMMA TrimKeeps ==
  ASSUME NEW last \in Nat, NEW g, DOMAIN g \subseteq 1 .. last, \A k \in DOMAIN g : g[k].lastSeen \in Nat,
         NEW M \in Nat, Cardinality(DOMAIN g) >= M,
         NEW from, NEW R, IsFiniteSet(R), SeenIn(g, from, R), Cardinality(R) <= M - M \div 2,
         NEW k \in DOMAIN g, g[k].lastSeen >= from, from \in Nat
  PROVE  k \in Trim(g)
<1> DEFINE S == DOMAIN g
           B == {l \in S : g[l].lastSeen < g[k].lastSeen \/ (g[l].lastSeen = g[k].lastSeen /\ l < k)}
<1>1. IsFiniteSet(S)
  <2>1. IsFiniteSet(1 .. last)
    BY FS_Interval
  <2> QED
    BY <2>1, FS_Subset
<1>2. B \subseteq S /\ S \ B \subseteq R
  <2> SUFFICES ASSUME NEW l \in S \ B PROVE l \in R
    OBVIOUS
  <2>1. g[l].lastSeen \in Nat /\ g[k].lastSeen \in Nat
    OBVIOUS
  <2>2. g[l].lastSeen >= from
    BY <2>1
  <2> QED
    BY <2>2 DEF SeenIn
<1>3. IsFiniteSet(B) /\ IsFiniteSet(S \ B)
  BY <1>1, <1>2, FS_Subset
<1> HIDE DEF B
<1>4. Cardinality(S \ B) <= Cardinality(R)
  BY <1>2, FS_Subset
<1>5. Cardinality(S) = Cardinality(B) + Cardinality(S \ B)
  <2>1. S = B \cup (S \ B) /\ B \cap (S \ B) = {}
    BY <1>2
  <2>2. Cardinality(B \cup (S \ B)) = Cardinality(B) + Cardinality(S \ B) - Cardinality(B \cap (S \ B))
    BY <1>3, FS_Union
  <2>3. Cardinality({}) = 0
    BY FS_EmptySet
  <2>4. Cardinality(B) \in Nat /\ Cardinality(S \ B) \in Nat
    BY <1>3, FS_CardinalityType
  <2>5. Cardinality(S) = Cardinality(B \cup (S \ B))
    BY <2>1, Zenon
  <2>6. Cardinality(B \cap (S \ B)) = 0
    BY <2>1, <2>3, Zenon
  <2> HIDE DEF S
  <2> QED
    BY <2>2, <2>4, <2>5, <2>6
<1>6. Cardinality(B) \in Nat /\ Cardinality(S) \in Nat /\ Cardinality(S \ B) \in Nat /\ Cardinality(R) \in Nat
  BY <1>1, <1>3, FS_CardinalityType
<1>7. Cardinality(B) >= Cardinality(S) \div 2
  <2> DEFINE c == Cardinality(S)
             b == Cardinality(B)
             d == Cardinality(S \ B)
             e == Cardinality(R)
  <2>1. b \in Nat /\ c \in Nat /\ d \in Nat /\ e \in Nat /\ c = b + d /\ d <= e /\ e <= M - M \div 2 /\ M <= c
    BY <1>4, <1>5, <1>6
  <2> HIDE DEF b, c, d, e
  <2>2. M - M \div 2 <= c - c \div 2 /\ c \div 2 \in Nat /\ M \div 2 \in Nat
    BY <2>1, HalvesOrdered
  <2>3. b >= c \div 2
    BY <2>1, <2>2
  <2> QED
    BY <2>3 DEF b, c
<1> QED
  BY <1>7 DEF Trim, B

\* Besides this sound, so few were seen lately that making room keeps them.
LEMMA RoomFor ==
  ASSUME NEW R, IsFiniteSet(R), NEW guid, MaxGuidEntries \in Nat,
         Cardinality(R \cup {guid}) <= MaxGuidEntries - MaxGuidEntries \div 2 + 1
  PROVE  IsFiniteSet(R \ {guid}) /\ Cardinality(R \ {guid}) <= MaxGuidEntries - MaxGuidEntries \div 2
<1> DEFINE S == R \cup {guid}
<1>1. IsFiniteSet(S) /\ guid \in S
  BY FS_AddElement
<1>2. S \ {guid} = R \ {guid}
  OBVIOUS
<1>3. IsFiniteSet(S \ {guid}) /\ Cardinality(S \ {guid}) = Cardinality(S) - 1
  <2> HIDE DEF S
  <2> QED
    BY <1>1, FS_RemoveElement
<1>4. Cardinality(S) \in Nat /\ MaxGuidEntries \div 2 \in Nat
  BY <1>1, FS_CardinalityType
<1> QED
  BY <1>2, <1>3, <1>4

LEMMA NewEntryIs ==
  ASSUME NEW now \in Nat, NEW v \in Nat
  PROVE  /\ IsEntry(NewEntry(now), v) /\ NewEntry(now).lastSeen = now /\ NewEntry(now).ov = NoOverride
         /\ NewEntry(now).version = 0 /\ NewEntry(now).observed = FALSE
<1>1. DOMAIN NewEntry(now) = EntryFields
  BY DEF NewEntry, EntryFields
<1>2. NewEntry(now) = [x \in DOMAIN NewEntry(now) |-> NewEntry(now)[x]]
  BY DEF NewEntry
<1>3. /\ NewEntry(now).lastSeen = now /\ NewEntry(now).ov = NoOverride
      /\ NewEntry(now).version = 0 /\ NewEntry(now).observed = FALSE
  BY DEF NewEntry
<1>4. NewEntry(now).lastSeen \in Nat /\ NewEntry(now).version \in 0 .. v
  BY <1>3
<1>5. NewEntry(now) = [x \in EntryFields |-> NewEntry(now)[x]]
  BY <1>1, <1>2, Zenon
<1> QED
  BY <1>1, <1>3, <1>4, <1>5 DEF IsEntry

\* What the table has for a sound when it looks: its entry, or a new one.
Found(g, guid, now) == IF guid \in DOMAIN g THEN g[guid] ELSE NewEntry(now)

\* The table after a look: what was seen lately stays.
Looked(g, guid, now, from) ==
  /\ guid \in DOMAIN WithEntry(g, guid, now) /\ DOMAIN WithEntry(g, guid, now) \subseteq DOMAIN g \cup {guid}
  /\ WithEntry(g, guid, now)[guid] = Found(g, guid, now)
  /\ \A j \in DOMAIN WithEntry(g, guid, now) : j # guid => WithEntry(g, guid, now)[j] = g[j]
  /\ \A j \in DOMAIN g : g[j].lastSeen >= from => j \in DOMAIN WithEntry(g, guid, now)

LEMMA WithEntryIs ==
  ASSUME NEW last \in Nat, NEW v \in Nat \ {0}, NEW sounds, NEW list, NEW g, NEW as, NEW ta, NEW from \in Nat, NEW now \in Nat,
         Tracks(sounds, last, v, list, g, as, ta, from), NEW guid, MaxGuidEntries \in Nat,
         NEW R, IsFiniteSet(R), SeenIn(g, from, R),
         Cardinality(R \cup {guid}) <= MaxGuidEntries - MaxGuidEntries \div 2 + 1
  PROVE  Looked(g, guid, now, from)
<1>1. CASE guid \in DOMAIN g
  <2>1. WithEntry(g, guid, now) = g
    BY <1>1 DEF WithEntry
  <2> QED
    BY <1>1, <2>1 DEF Found, Looked
<1>2. CASE guid \notin DOMAIN g
  <2> DEFINE full == Cardinality(DOMAIN g) >= MaxGuidEntries
             room == IF full THEN Restrict(g, Trim(g)) ELSE g
  <2>1. WithEntry(g, guid, now) = [k \in DOMAIN room \cup {guid} |-> IF k = guid THEN NewEntry(now) ELSE room[k]]
    BY <1>2 DEF WithEntry
  <2>2. /\ DOMAIN room \subseteq DOMAIN g
        /\ \A j \in DOMAIN room : room[j] = g[j]
    <3>1. Trim(g) \subseteq DOMAIN g
      BY DEF Trim
    <3> QED
      BY <3>1 DEF Restrict
  <2>3. \A j \in DOMAIN g : g[j].lastSeen >= from => j \in DOMAIN room
    <3> SUFFICES ASSUME NEW j \in DOMAIN g, g[j].lastSeen >= from PROVE j \in DOMAIN room
      OBVIOUS
    <3>1. CASE ~full
      BY <3>1
    <3>2. CASE full
      <4>1. IsFiniteSet(R \ {guid}) /\ Cardinality(R \ {guid}) <= MaxGuidEntries - MaxGuidEntries \div 2
        BY RoomFor
      <4>2. SeenIn(g, from, R \ {guid})
        BY <1>2 DEF SeenIn
      <4>3. DOMAIN g \subseteq 1 .. last /\ \A k \in DOMAIN g : g[k].lastSeen \in Nat
        BY DEF Tracks, IsEntry
      <4>4. j \in Trim(g)
        BY <3>2, <4>1, <4>2, <4>3, TrimKeeps
      <4> QED
        BY <3>2, <4>4 DEF Restrict
    <3> QED
      BY <3>1, <3>2
  <2> HIDE DEF room
  <2>4. /\ DOMAIN WithEntry(g, guid, now) = DOMAIN room \cup {guid}
        /\ WithEntry(g, guid, now)[guid] = NewEntry(now)
        /\ \A j \in DOMAIN room : j # guid => WithEntry(g, guid, now)[j] = room[j]
    BY <2>1
  <2> QED
    BY <1>2, <2>2, <2>3, <2>4 DEF Found, Looked
<1> QED
  BY <1>1, <1>2

\* The table after a look and a change of the entry found.
Changed(g, guid, e, g2, from) ==
  /\ guid \in DOMAIN g2 /\ g2[guid] = e /\ DOMAIN g2 \subseteq DOMAIN g \cup {guid}
  /\ \A j \in DOMAIN g2 : j # guid => j \in DOMAIN g /\ g2[j] = g[j]
  /\ \A j \in DOMAIN g : g[j].lastSeen >= from => j \in DOMAIN g2
IsChange(g, g2, guid, e, now) == g2 = [WithEntry(g, guid, now) EXCEPT ![guid] = e]
SameBut(sounds, guid, as, ta, as2, ta2) == \A j \in DOMAIN sounds : j # guid => as2[j] = as[j] /\ ta2[j] = ta[j]
TracksChange(sounds, last, v, list, g, g2, guid, e, as2, ta2, from) ==
  Changed(g, guid, e, g2, from) /\ Tracks(sounds, last, v, list, g2, as2, ta2, from)

LEMMA EntryChanges ==
  ASSUME NEW last \in Nat, NEW v \in Nat \ {0}, NEW sounds, NEW list, NEW g, NEW as, NEW ta, NEW from \in Nat, NEW now \in Nat,
         Tracks(sounds, last, v, list, g, as, ta, from), NEW guid \in 1 .. last, MaxGuidEntries \in Nat,
         NEW R, IsFiniteSet(R), SeenIn(g, from, R),
         Cardinality(R \cup {guid}) <= MaxGuidEntries - MaxGuidEntries \div 2 + 1,
         NEW e, IsEntry(e, v), NEW as2, NEW ta2,
         SameBut(sounds, guid, as, ta, as2, ta2),
         guid \in DOMAIN sounds => Fits(sounds[guid], e, v, list, as2[guid], ta2[guid], from),
         NEW g2, IsChange(g, g2, guid, e, now)
  PROVE  TracksChange(sounds, last, v, list, g, g2, guid, e, as2, ta2, from)
<1> DEFINE w == WithEntry(g, guid, now)
<1>0. Looked(g, guid, now, from)
  BY WithEntryIs
<1>1. /\ guid \in DOMAIN w /\ DOMAIN w \subseteq DOMAIN g \cup {guid}
      /\ \A j \in DOMAIN w : j # guid => w[j] = g[j]
      /\ \A j \in DOMAIN g : g[j].lastSeen >= from => j \in DOMAIN w
  BY <1>0 DEF Looked
<1> HIDE DEF w
<1>2. DOMAIN g2 = DOMAIN w /\ g2[guid] = e /\ \A j \in DOMAIN w : j # guid => g2[j] = w[j]
  <2>1. g2 = [w EXCEPT ![guid] = e]
    BY DEF IsChange, w
  <2> QED
    BY <1>1, <2>1
<1>3. Changed(g, guid, e, g2, from)
  BY <1>1, <1>2 DEF Changed
<1>4. DOMAIN g2 \subseteq 1 .. last
  BY <1>1, <1>2 DEF Tracks
<1>5. \A k \in DOMAIN g2 : IsEntry(g2[k], v)
  BY <1>3 DEF Tracks, Changed
<1>6. ASSUME NEW k \in DOMAIN sounds
      PROVE  /\ k \in DOMAIN g2 => Fits(sounds[k], g2[k], v, list, as2[k], ta2[k], from)
             /\ k \notin DOMAIN g2 => as2[k] = NoOverride /\ ta2[k] = "unheard"
  <2>1. CASE k = guid
    BY <2>1, <1>3 DEF Changed
  <2>2. CASE k # guid
    <3>1. as2[k] = as[k] /\ ta2[k] = ta[k]
      BY <2>2 DEF SameBut
    <3>2. k \in DOMAIN g2 => Fits(sounds[k], g2[k], v, list, as2[k], ta2[k], from)
      BY <2>2, <3>1, <1>3 DEF Tracks, Changed
    <3>3. k \in DOMAIN g => g[k].lastSeen >= from
      BY DEF Tracks, Fits
    <3>4. k \notin DOMAIN g2 => k \notin DOMAIN g
      BY <3>3, <1>3 DEF Changed
    <3> QED
      BY <3>1, <3>2, <3>4 DEF Tracks
  <2> QED
    BY <2>1, <2>2
<1> QED
  BY <1>3, <1>4, <1>5, <1>6 DEF Tracks, TracksChange

\* A new or found entry may be changed to fit.
LEMMA FoundHas ==
  ASSUME NEW last \in Nat, NEW v \in Nat \ {0}, NEW sounds, NEW list, NEW g, NEW as, NEW ta, NEW from \in Nat, NEW now \in Nat,
         Tracks(sounds, last, v, list, g, as, ta, from), NEW guid
  PROVE  /\ IsEntry(Found(g, guid, now), v)
         /\ guid \in DOMAIN sounds =>
              /\ Found(g, guid, now).ov = as[guid] /\ (ta[guid] = "unheard" \/ Found(g, guid, now).observed)
              /\ Found(g, guid, now).version = v =>
                   Found(g, guid, now).rule = RulesFor(list, sounds[guid].channel, Found(g, guid, now).name)
<1>1. CASE guid \in DOMAIN g
  <2>1. Found(g, guid, now) = g[guid]
    BY <1>1 DEF Found
  <2> QED
    BY <1>1, <2>1 DEF Tracks, Fits
<1>2. CASE guid \notin DOMAIN g
  <2>1. Found(g, guid, now) = NewEntry(now)
    BY <1>2 DEF Found
  <2> QED
    BY <1>2, <2>1, NewEntryIs DEF Tracks
<1> QED
  BY <1>1, <1>2

\* Changes of an entry.
WithOv(e, e2, o, at, v) ==
  /\ IsEntry(e2, v) /\ e2.ov = o /\ e2.lastSeen = at
  /\ e2.name = e.name /\ e2.version = e.version /\ e2.rule = e.rule /\ e2.observed = e.observed
LEMMA OvChanges ==
  ASSUME NEW v \in Nat, NEW e, IsEntry(e, v), NEW o, NEW at \in Nat,
         NEW e2, e2 = [e EXCEPT !.ov = o, !.lastSeen = at]
  PROVE  WithOv(e, e2, o, at, v)
<1>1. DOMAIN e = EntryFields /\ e.version \in 0 .. v
  BY DEF IsEntry
<1>2. DOMAIN e2 = EntryFields /\ e2 = [x \in EntryFields |-> e2[x]]
  BY <1>1
<1>3. /\ e2.ov = o /\ e2.lastSeen = at
      /\ e2.name = e.name /\ e2.version = e.version /\ e2.rule = e.rule /\ e2.observed = e.observed
  BY <1>1 DEF EntryFields
<1> QED
  BY <1>1, <1>2, <1>3 DEF IsEntry, WithOv

WithOvOnly(e, e2, o, v) ==
  /\ IsEntry(e2, v) /\ e2.ov = o /\ e2.lastSeen = e.lastSeen /\ e2.channel = e.channel
  /\ e2.name = e.name /\ e2.version = e.version /\ e2.rule = e.rule /\ e2.observed = e.observed
LEMMA OvCleared ==
  ASSUME NEW v \in Nat, NEW e, IsEntry(e, v), NEW o,
         NEW e2, e2 = [e EXCEPT !.ov = o]
  PROVE  WithOvOnly(e, e2, o, v)
<1>1. DOMAIN e = EntryFields /\ e.version \in 0 .. v /\ e.lastSeen \in Nat
  BY DEF IsEntry
<1>2. DOMAIN e2 = EntryFields /\ e2 = [x \in EntryFields |-> e2[x]]
  BY <1>1
<1>3. /\ e2.ov = o /\ e2.lastSeen = e.lastSeen /\ e2.channel = e.channel
      /\ e2.name = e.name /\ e2.version = e.version /\ e2.rule = e.rule /\ e2.observed = e.observed
  BY <1>1 DEF EntryFields
<1> QED
  BY <1>1, <1>2, <1>3 DEF IsEntry, WithOvOnly

WithName(e, e2, nm, w, at, v) ==
  /\ IsEntry(e2, v) /\ e2.ov = e.ov /\ e2.lastSeen = at
  /\ e2.name = nm /\ e2.version = w /\ e2.rule = e.rule /\ e2.observed = e.observed
LEMMA NameChanges ==
  ASSUME NEW v \in Nat, NEW e, IsEntry(e, v), NEW at \in Nat, NEW en, NEW ch, NEW nm, NEW w \in 0 .. v,
         NEW e2, e2 = [e EXCEPT !.lastSeen = at, !.entity = en, !.channel = ch, !.name = nm, !.version = w]
  PROVE  WithName(e, e2, nm, w, at, v)
<1>1. DOMAIN e = EntryFields
  BY DEF IsEntry
<1>2. DOMAIN e2 = EntryFields /\ e2 = [x \in EntryFields |-> e2[x]]
  BY <1>1
<1>3. /\ e2.ov = e.ov /\ e2.lastSeen = at
      /\ e2.name = nm /\ e2.version = w /\ e2.rule = e.rule /\ e2.observed = e.observed
  BY <1>1 DEF EntryFields
<1> QED
  BY <1>1, <1>2, <1>3 DEF IsEntry, WithName

\* What Observe makes of an entry, before the expectation and the rules.
Looks(e, now, sound, named) ==
  [e EXCEPT !.lastSeen = now, !.entity = sound.entity, !.channel = sound.channel, !.observed = TRUE,
            !.name = IF named THEN sound.name ELSE @, !.version = IF named THEN 0 ELSE @]
LooksLike(e, e2, now, sound, named, v) ==
  /\ IsEntry(e2, v) /\ e2.ov = e.ov /\ e2.lastSeen = now /\ e2.observed = TRUE /\ e2.channel = sound.channel
  /\ e2.rule = e.rule
  /\ IF named THEN e2.version = 0 ELSE e2.version = e.version /\ e2.name = e.name
LEMMA LooksChanges ==
  ASSUME NEW v \in Nat, NEW e, IsEntry(e, v), NEW now \in Nat, NEW sound, NEW named,
         NEW e2, e2 = Looks(e, now, sound, named)
  PROVE  LooksLike(e, e2, now, sound, named, v)
<1>1. DOMAIN e = EntryFields /\ e.version \in 0 .. v
  BY DEF IsEntry
<1>2. DOMAIN e2 = EntryFields /\ e2 = [x \in EntryFields |-> e2[x]]
  BY <1>1 DEF Looks
<1>3. /\ e2.ov = e.ov /\ e2.lastSeen = now /\ e2.observed = TRUE /\ e2.channel = sound.channel
      /\ e2.rule = e.rule
  BY <1>1 DEF EntryFields, Looks
<1>4. IF named THEN e2.version = 0 ELSE e2.version = e.version /\ e2.name = e.name
  BY <1>1 DEF EntryFields, Looks
<1> QED
  BY <1>1, <1>2, <1>3, <1>4 DEF IsEntry, LooksLike

WithRules(e, e2, r, v) ==
  /\ IsEntry(e2, v) /\ e2.ov = e.ov /\ e2.lastSeen = e.lastSeen /\ e2.observed = e.observed
  /\ e2.channel = e.channel /\ e2.name = e.name /\ e2.version = v /\ e2.rule = r
LEMMA RulesChange ==
  ASSUME NEW v \in Nat, NEW e, IsEntry(e, v), NEW r,
         NEW e2, e2 = [e EXCEPT !.version = v, !.rule = r]
  PROVE  WithRules(e, e2, r, v)
<1>1. DOMAIN e = EntryFields /\ e.lastSeen \in Nat /\ v \in 0 .. v
  BY DEF IsEntry
<1>2. DOMAIN e2 = EntryFields /\ e2 = [x \in EntryFields |-> e2[x]]
  BY <1>1
<1>3. /\ e2.ov = e.ov /\ e2.lastSeen = e.lastSeen /\ e2.observed = e.observed
      /\ e2.channel = e.channel /\ e2.name = e.name /\ e2.version = v /\ e2.rule = r
  BY <1>1 DEF EntryFields
<1> QED
  BY <1>1, <1>2, <1>3 DEF IsEntry, WithRules

\* What one look at a sound that plays does to the table and its history.
Observed(t, t2, guid, now, from) ==
  /\ Tracks(playing, lastStarted, rulesVersion, rules, t2.guids, t2.asked, t2.taken, from)
  /\ Changed(t.guids, guid, t2.guids[guid], t2.guids, from)
  /\ t2.guids[guid].lastSeen = now /\ t2.guids[guid].rule = EvaluateRules(t2.guids[guid])
  /\ DOMAIN t2.asked = DOMAIN t.asked /\ DOMAIN t2.taken = DOMAIN t.taken
  /\ \A j \in DOMAIN t.asked : j # guid => t2.asked[j] = t.asked[j]
  /\ \A j \in DOMAIN t.taken : j # guid => t2.taken[j] = t.taken[j]
  /\ t2.taken[guid] \in InTime

LEMMA ObserveStep ==
  ASSUME NEW t, NEW from \in Nat, NEW now \in Nat, now >= from, NEW guid \in DOMAIN playing, guid \in 1 .. lastStarted,
         lastStarted \in Nat, rulesVersion \in Nat \ {0}, MaxGuidEntries \in Nat,
         Tracks(playing, lastStarted, rulesVersion, rules, t.guids, t.asked, t.taken, from),
         NEW R, IsFiniteSet(R), SeenIn(t.guids, from, R),
         Cardinality(R \cup {guid}) <= MaxGuidEntries - MaxGuidEntries \div 2 + 1,
         DOMAIN playing \subseteq DOMAIN t.asked, DOMAIN playing \subseteq DOMAIN t.taken, t.taken[guid] \in InTime
  PROVE  Observed(t, Observe(t, guid, now), guid, now, from)
<1> DEFINE sound == playing[guid]
           known == WithEntry(t.guids, guid, now)
           named == known[guid].name = <<>> /\ sound.handle
           e == Looks(known[guid], now, sound, named)
           first == CHOOSE k \in Expected(e, t.pending) : \A l \in Expected(e, t.pending) : k <= l
           consumes == Takes(known[guid]) /\ Expected(e, t.pending) # {}
           more == t.pending[first].ov
           after == IF consumes THEN [e EXCEPT !.ov = Merge(@, more)] ELSE e
           ruled == IF after.version = rulesVersion THEN after
                    ELSE [after EXCEPT !.version = rulesVersion, !.rule = EvaluateRules(after)]
           t2 == Observe(t, guid, now)
<1>1. /\ t2.guids = [known EXCEPT ![guid] = ruled]
      /\ t2.asked = IF consumes THEN [t.asked EXCEPT ![guid] = Merge(@, more)] ELSE t.asked
      /\ t2.taken = [t.taken EXCEPT ![guid] = Taking(@, consumes)]
  <2>1. Observe(t, guid, now) =
          [guids |-> [known EXCEPT ![guid] = ruled],
           pending |-> IF consumes THEN RemoveAt(t.pending, first) ELSE t.pending,
           asked |-> IF consumes THEN [t.asked EXCEPT ![guid] = Merge(@, more)] ELSE t.asked,
           taken |-> [t.taken EXCEPT ![guid] = Taking(@, consumes)]]
    BY Zenon DEF Observe, Looks
  <2> HIDE DEF known, ruled, consumes, first, more, t2
  <2>2. t2 = [guids |-> [known EXCEPT ![guid] = ruled],
              pending |-> IF consumes THEN RemoveAt(t.pending, first) ELSE t.pending,
              asked |-> IF consumes THEN [t.asked EXCEPT ![guid] = Merge(@, more)] ELSE t.asked,
              taken |-> [t.taken EXCEPT ![guid] = Taking(@, consumes)]]
    BY <2>1 DEF t2
  <2> QED
    BY <2>2
<1>2. known[guid] = Found(t.guids, guid, now)
  <2>1. Looked(t.guids, guid, now, from)
    BY WithEntryIs
  <2> QED
    BY <2>1 DEF Looked
<1>3. /\ IsEntry(known[guid], rulesVersion)
      /\ known[guid].ov = t.asked[guid] /\ (t.taken[guid] = "unheard" \/ known[guid].observed)
      /\ known[guid].version = rulesVersion => known[guid].rule = RulesFor(rules, sound.channel, known[guid].name)
  BY <1>2, FoundHas
<1> HIDE DEF known, named, sound
<1>4. /\ IsEntry(e, rulesVersion) /\ e.ov = known[guid].ov /\ e.lastSeen = now /\ e.observed = TRUE
      /\ e.channel = sound.channel /\ e.rule = known[guid].rule
      /\ IF named THEN e.version = 0 ELSE e.version = known[guid].version /\ e.name = known[guid].name
  <2>1. LooksLike(known[guid], e, now, sound, named, rulesVersion)
    BY <1>3, LooksChanges
  <2> HIDE DEF e
  <2> QED
    BY <2>1 DEF LooksLike
<1> HIDE DEF e
<1>5. consumes => t.taken[guid] = "unheard"
  BY <1>3 DEF Takes
<1> HIDE DEF consumes, more
<1>6. /\ IsEntry(after, rulesVersion) /\ after.ov = (IF consumes THEN Merge(e.ov, more) ELSE e.ov)
      /\ after.lastSeen = now /\ after.observed = TRUE /\ after.channel = sound.channel
      /\ after.rule = e.rule /\ after.version = e.version /\ after.name = e.name
  <2>1. CASE ~consumes
    BY <2>1, <1>4
  <2>2. CASE consumes
    <3> DEFINE o == Merge(e.ov, more)
    <3>1. after = [e EXCEPT !.ov = o]
      BY <2>2
    <3> HIDE DEF o, after
    <3>2. WithOvOnly(e, after, o, rulesVersion)
      BY <3>1, <1>4, OvCleared
    <3> QED
      BY <2>2, <3>2, <1>4 DEF o, WithOvOnly
  <2> QED
    BY <2>1, <2>2
<1>7. after.version = rulesVersion => after.rule = RulesFor(rules, sound.channel, after.name)
  <2>1. named => after.version # rulesVersion
    BY <1>4, <1>6
  <2> QED
    BY <2>1, <1>3, <1>4, <1>6
<1> HIDE DEF after
<1>8. /\ IsEntry(ruled, rulesVersion) /\ ruled.ov = after.ov
      /\ ruled.lastSeen = now /\ ruled.observed = TRUE /\ ruled.channel = sound.channel
      /\ ruled.rule = RulesFor(rules, sound.channel, ruled.name)
  <2>1. CASE after.version = rulesVersion
    BY <2>1, <1>6, <1>7
  <2>2. CASE after.version # rulesVersion
    <3> DEFINE r == EvaluateRules(after)
    <3>1. ruled = [after EXCEPT !.version = rulesVersion, !.rule = r]
      BY <2>2
    <3>2. r = RulesFor(rules, sound.channel, after.name)
      BY <1>6 DEF EvaluateRules
    <3> HIDE DEF r, ruled
    <3>3. WithRules(after, ruled, r, rulesVersion)
      BY <3>1, <1>6, RulesChange
    <3> QED
      BY <3>2, <3>3, <1>6 DEF WithRules
  <2> QED
    BY <2>1, <2>2
<1> HIDE DEF ruled, t2
<1>9. guid \in DOMAIN t.asked /\ guid \in DOMAIN t.taken
  OBVIOUS
<1>10. /\ DOMAIN t2.asked = DOMAIN t.asked /\ DOMAIN t2.taken = DOMAIN t.taken
       /\ \A j \in DOMAIN t.asked : j # guid => t2.asked[j] = t.asked[j]
       /\ \A j \in DOMAIN t.taken : j # guid => t2.taken[j] = t.taken[j]
       /\ t2.asked[guid] = (IF consumes THEN Merge(t.asked[guid], more) ELSE t.asked[guid])
       /\ t2.taken[guid] = Taking(t.taken[guid], consumes)
  BY <1>1, <1>9
<1>11. t2.taken[guid] \in InTime
  BY <1>5, <1>10 DEF Taking, InTime
<1>12. Fits(sound, ruled, rulesVersion, rules, t2.asked[guid], t2.taken[guid], from)
  BY <1>3, <1>4, <1>6, <1>8, <1>10 DEF Fits
<1>13. \A j \in DOMAIN playing : j # guid => t2.asked[j] = t.asked[j] /\ t2.taken[j] = t.taken[j]
  BY <1>10
<1>14. /\ Changed(t.guids, guid, ruled, t2.guids, from)
       /\ Tracks(playing, lastStarted, rulesVersion, rules, t2.guids, t2.asked, t2.taken, from)
  <2>1. Fits(playing[guid], ruled, rulesVersion, rules, t2.asked[guid], t2.taken[guid], from)
    BY <1>12 DEF sound
  <2> DEFINE g == t.guids
             as == t.asked
             ta == t.taken
             as2 == t2.asked
             ta2 == t2.taken
  <2>2. /\ Tracks(playing, lastStarted, rulesVersion, rules, g, as, ta, from) /\ SeenIn(g, from, R)
        /\ SameBut(playing, guid, as, ta, as2, ta2)
        /\ Fits(playing[guid], ruled, rulesVersion, rules, as2[guid], ta2[guid], from)
        /\ t2.guids = [WithEntry(g, guid, now) EXCEPT ![guid] = ruled]
    BY <1>1, <1>13, <2>1 DEF known, SameBut
  <2> HIDE DEF g, as, ta, as2, ta2
  <2> DEFINE g2 == t2.guids
  <2>3. IsChange(g, g2, guid, ruled, now)
    BY <2>2 DEF IsChange
  <2> HIDE DEF g2
  <2>4. TracksChange(playing, lastStarted, rulesVersion, rules, g, g2, guid, ruled, as2, ta2, from)
    BY <1>8, <2>2, <2>3, EntryChanges
  <2> QED
    BY <2>4 DEF TracksChange, g, g2, as2, ta2
<1>15. t2.guids[guid] = ruled
  BY <1>14 DEF Changed
<1>16. ruled.rule = EvaluateRules(ruled)
  BY <1>8 DEF EvaluateRules
<1>17. Observed(t, t2, guid, now, from)
  BY <1>8, <1>10, <1>11, <1>14, <1>15, <1>16 DEF Observed
<1> QED
  BY <1>17 DEF t2

-----------------------------------------------------------------------------
(* The poll                                                                  *)

Unobserved(now) == [guids |-> guids, pending |-> Unexpired(now), asked |-> asked, taken |-> taken]
ObserveNext(f, order, now, k) == IF k = 0 THEN Unobserved(now) ELSE Observe(f[k - 1], order[k], now)
IsObserving(f, order, now) == f = [k \in 0 .. Len(order) |-> ObserveNext(f, order, now, k)]
Observing(order, now) == CHOOSE f : IsObserving(f, order, now)

LEMMA ObserveAllIs ==
  ASSUME NEW order, NEW now
  PROVE  ObserveAll(order, now) = Observing(order, now)[Len(order)]
BY Zenon DEF ObserveAll, Observing, IsObserving, ObserveNext, Unobserved

\* The looks of a poll are well defined.
LEMMA ObservingIs ==
  ASSUME NEW order, NEW now, Len(order) \in Nat
  PROVE  IsObserving(Observing(order, now), order, now)
<1> DEFINE n == Len(order)
           Is(f, k) == f = [j \in 0 .. k |-> ObserveNext(f, order, now, j)]
           T == {k \in 0 .. n : \E f : Is(f, k)}
<1>1. 0 \in T
  <2> DEFINE f == [j \in 0 .. 0 |-> Unobserved(now)]
  <2>1. \A j \in 0 .. 0 : j = 0
    OBVIOUS
  <2>2. \A j \in 0 .. 0 : ObserveNext(f, order, now, j) = Unobserved(now)
    BY <2>1, Zenon DEF ObserveNext
  <2>3. f = [j \in 0 .. 0 |-> ObserveNext(f, order, now, j)]
    <3> HIDE DEF f
    <3>1. f = [j \in 0 .. 0 |-> Unobserved(now)]
      BY DEF f
    <3> QED
      BY <2>2, <3>1
  <2> HIDE DEF f
  <2> QED
    BY <2>3
<1>2. ASSUME NEW k \in 1 .. n, k - 1 \in T PROVE k \in T
  <2>1. PICK g : g = [j \in 0 .. k - 1 |-> ObserveNext(g, order, now, j)]
    BY <1>2
  <2> DEFINE h == [j \in 0 .. k |-> IF j = k THEN Observe(g[k - 1], order[k], now) ELSE g[j]]
  <2>2. h[k] = Observe(g[k - 1], order[k], now) /\ \A j \in 0 .. k - 1 : h[j] = g[j]
    OBVIOUS
  <2>3. h = [j \in 0 .. k |-> h[j]]
    OBVIOUS
  <2> HIDE DEF h
  <2>4. \A j \in 0 .. k : h[j] = ObserveNext(h, order, now, j)
    <3> SUFFICES ASSUME NEW j \in 0 .. k PROVE h[j] = ObserveNext(h, order, now, j)
      OBVIOUS
    <3>1. CASE j = k
      <4>1. k # 0 /\ k - 1 \in 0 .. k - 1
        OBVIOUS
      <4>2. ObserveNext(h, order, now, k) = Observe(h[k - 1], order[k], now)
        BY <4>1 DEF ObserveNext
      <4> QED
        BY <3>1, <4>1, <4>2, <2>2
    <3>2. CASE j = 0
      <4>1. 0 \in 0 .. k - 1
        OBVIOUS
      <4>2. g[0] = ObserveNext(g, order, now, 0)
        BY <4>1, <2>1
      <4> QED
        BY <3>2, <4>1, <4>2, <2>2 DEF ObserveNext
    <3>3. CASE j # 0 /\ j # k
      <4>1. j \in 0 .. k - 1 /\ j - 1 \in 0 .. k - 1
        BY <3>3
      <4>2. g[j] = ObserveNext(g, order, now, j)
        BY <4>1, <2>1
      <4>3. g[j] = Observe(g[j - 1], order[j], now)
        BY <3>3, <4>2 DEF ObserveNext
      <4>4. ObserveNext(h, order, now, j) = Observe(h[j - 1], order[j], now)
        BY <3>3 DEF ObserveNext
      <4> QED
        BY <4>1, <4>3, <4>4, <2>2
    <3> QED
      BY <3>1, <3>2, <3>3
  <2>5. h = [j \in 0 .. k |-> ObserveNext(h, order, now, j)]
    BY <2>3, <2>4
  <2> QED
    BY <2>5
<1>3. n \in T
  <2> HIDE DEF n, T
  <2>1. n \in Nat
    BY DEF n
  <2>2. 0 .. n \subseteq T
    BY <1>1, <1>2, <2>1, UpTo
  <2> QED
    BY <2>1, <2>2
<1>4. PICK f : IsObserving(f, order, now)
  BY <1>3 DEF IsObserving
<1> QED
  BY <1>4, Zenon DEF Observing

\* The list of the engine has each sound that plays.
LEMMA OrderHasAll ==
  ASSUME NEW S, IsFiniteSet(S), NEW order \in SetToSeqs(S)
  PROVE  /\ Len(order) \in Nat /\ \A k \in 1 .. Len(order) : order[k] \in S
         /\ \A s \in S : \E k \in 1 .. Len(order) : order[k] = s
<1> DEFINE n == Cardinality(S)
<1>1. n \in Nat
  BY FS_CardinalityType
<1>2. order \in [1 .. n -> S] /\ \A i, j \in 1 .. n : i # j => order[i] # order[j]
  BY DEF SetToSeqs
<1>3. Len(order) = n
  BY <1>1, <1>2
<1> HIDE DEF n
<1>4. order \in Injection(1 .. n, S)
  BY <1>2 DEF Injection, IsInjective
<1>5. Cardinality(1 .. n) = n
  BY <1>1, FS_Interval
<1>6. order \in Surjection(1 .. n, S)
  BY <1>4, <1>5, FS_Injection DEF n
<1> QED
  BY <1>1, <1>2, <1>3, <1>6 DEF Surjection

\* What a sound should play with.
Wanted(sound, ents, list, e, ov) ==
  ApplyParams(sound, Merge(Merge(RulesFor(list, e.channel, e.name),
                                 IF sound.entity \in DOMAIN ents THEN ents[sound.entity] ELSE NoOverride), ov))
AllAsWanted(ap, sounds, g, ents, list, as) ==
  \A guid \in DOMAIN ap : guid \in DOMAIN g /\ ap[guid] = Wanted(sounds[guid], ents, list, g[guid], as[guid])

LEMMA PlaysIsWanted ==
  /\ PlaysAsAsked <=> (polled => AllAsWanted(applied, playing, guids, entities, rules, asked))
  /\ PlaysAsAsked' <=> (polled' => AllAsWanted(applied', playing', guids', entities', rules', asked'))
BY Zenon DEF PlaysAsAsked, AllAsWanted, Wanted, Combined, EvaluateRules

\* What the assumption says of the sizes.
Sizes == LastGuid \in Nat /\ MaxGuidEntries \in Nat /\ Retention \in Nat
LEMMA SizesAreAssumed == OverridesAssumption => Sizes
<1>1. OverridesAssumption => {LastGuid, MaxGuidEntries, MaxPending, MaxRules, Retention, Ttl, MaxPlaying, MaxCalls, MaxNow} \subseteq Nat
  BY Zenon DEF OverridesAssumption
<1>2. {LastGuid, MaxGuidEntries, MaxPending, MaxRules, Retention, Ttl, MaxPlaying, MaxCalls, MaxNow} \subseteq Nat => Sizes
  BY Zenon DEF Sizes
<1> QED
  BY <1>1, <1>2, Zenon

\* Recent sounds are among those started.
LEMMA RecentIsFinite ==
  ASSUME OverridesCore, Sizes
  PROVE  /\ IsFiniteSet(Recent) /\ Recent \subseteq 1 .. lastStarted /\ SeenIn(guids, tableNow, Recent)
         /\ DOMAIN playing \subseteq Recent
<1>1. lastStarted \in Nat /\ DOMAIN playing \subseteq 1 .. lastStarted /\ DOMAIN guids \subseteq 1 .. lastStarted
  BY DEF Sizes, OverridesCore, TableTypes, Tracks
<1>2. Recent \subseteq 1 .. lastStarted /\ DOMAIN playing \subseteq Recent
  BY <1>1 DEF Recent
<1>3. IsFiniteSet(1 .. lastStarted)
  BY <1>1, FS_Interval
<1>4. IsFiniteSet(Recent)
  BY <1>2, <1>3, FS_Subset
<1>5. \A k \in DOMAIN guids : guids[k].lastSeen \in Nat /\ guids[k].lastSeen <= tableNow /\ tableNow \in Nat
  BY DEF OverridesCore, TableTypes, Tracks, IsEntry
<1>6. SeenIn(guids, tableNow, Recent)
  BY <1>5 DEF SeenIn, Recent
<1> QED
  BY <1>2, <1>4, <1>6

\* Observed at this poll.
Met(g, guid, now) == guid \in DOMAIN g /\ g[guid].lastSeen = now /\ g[guid].rule = EvaluateRules(g[guid])

\* The history of what was asked and taken.
HistoryTypes(as, ta, last) ==
  /\ DOMAIN as = 1 .. LastGuid /\ DOMAIN ta = 1 .. LastGuid /\ \A k \in 1 .. LastGuid : ta[k] \in InTime
  /\ \A k \in last + 1 .. LastGuid : as[k] = NoOverride /\ ta[k] = "unheard"

SeenBefore(g, from, now) == \A j \in DOMAIN g : g[j].lastSeen <= from \/ (g[j].lastSeen = now /\ j \in DOMAIN playing)

\* The table between two looks of a poll.
Walking(t, order, k, now) ==
  /\ Tracks(playing, lastStarted, rulesVersion, rules, t.guids, t.asked, t.taken, tableNow)
  /\ HistoryTypes(t.asked, t.taken, lastStarted)
  /\ SeenIn(t.guids, tableNow, Recent) /\ SeenBefore(t.guids, tableNow, now)
  /\ \A i \in 1 .. k : Met(t.guids, order[i], now)

LEMMA WalkStarts ==
  ASSUME OverridesCore, Sizes, NEW order, NEW now
  PROVE  Walking(Unobserved(now), order, 0, now)
<1>1. /\ Unobserved(now).guids = guids /\ Unobserved(now).asked = asked /\ Unobserved(now).taken = taken
  BY DEF Unobserved
<1>2. HistoryTypes(asked, taken, lastStarted)
  BY DEF OverridesCore, TableTypes, HistoryTypes
<1>3. SeenIn(guids, tableNow, Recent) /\ SeenBefore(guids, tableNow, now)
  BY RecentIsFinite DEF OverridesCore, SeenBefore
<1>4. \A i : ~(i \in 1 .. 0)
  OBVIOUS
<1> QED
  BY <1>1, <1>2, <1>3, <1>4 DEF OverridesCore, Walking

LEMMA WalkStep ==
  ASSUME OverridesCore, Sizes, NEW order, NEW now \in Nat, now > tableNow, NEW k \in Nat \ {0},
         order[k] \in DOMAIN playing, NEW t, Walking(t, order, k - 1, now)
  PROVE  Walking(Observe(t, order[k], now), order, k, now)
<1> DEFINE guid == order[k]
           t2 == Observe(t, guid, now)
<1>1. /\ lastStarted \in Nat /\ lastStarted <= LastGuid /\ rulesVersion \in Nat \ {0} /\ MaxGuidEntries \in Nat /\ tableNow \in Nat
      /\ LastGuid \in Nat /\ DOMAIN playing \subseteq 1 .. lastStarted
  BY DEF Sizes, OverridesCore, TableTypes
<1>2. /\ guid \in DOMAIN playing /\ guid \in 1 .. lastStarted /\ guid \in 1 .. LastGuid /\ guid \in Recent
      /\ DOMAIN playing \subseteq DOMAIN t.asked /\ DOMAIN playing \subseteq DOMAIN t.taken
  <2>1. DOMAIN t.asked = 1 .. LastGuid /\ DOMAIN t.taken = 1 .. LastGuid
    BY DEF Walking, HistoryTypes
  <2> QED
    BY <1>1, <2>1, RecentIsFinite
<1>3. /\ Tracks(playing, lastStarted, rulesVersion, rules, t.guids, t.asked, t.taken, tableNow)
      /\ SeenIn(t.guids, tableNow, Recent) /\ t.taken[guid] \in InTime
  BY <1>2 DEF Walking, HistoryTypes
<1>4. IsFiniteSet(Recent) /\ Cardinality(Recent \cup {guid}) <= MaxGuidEntries - MaxGuidEntries \div 2 + 1
  <2>1. Recent \cup {guid} = Recent
    BY <1>2
  <2> QED
    BY <2>1, RecentIsFinite DEF OverridesCore, RecentAreFew
<1>5. Observed(t, t2, guid, now, tableNow)
  <2> HIDE DEF guid
  <2>1. now >= tableNow
    BY <1>1
  <2> QED
    BY <1>1, <1>2, <1>3, <1>4, <2>1, ObserveStep
<1> HIDE DEF t2, guid
<1>6. Tracks(playing, lastStarted, rulesVersion, rules, t2.guids, t2.asked, t2.taken, tableNow)
  BY <1>5 DEF Observed
<1>7. HistoryTypes(t2.asked, t2.taken, lastStarted)
  <2>1. HistoryTypes(t.asked, t.taken, lastStarted)
    BY DEF Walking
  <2>2. \A j \in lastStarted + 1 .. LastGuid : j # guid /\ j \in 1 .. LastGuid
    BY <1>1, <1>2
  <2> QED
    BY <1>5, <2>1, <2>2 DEF Observed, HistoryTypes
<1>8. /\ guid \in DOMAIN t2.guids /\ t2.guids[guid].lastSeen = now /\ t2.guids[guid].rule = EvaluateRules(t2.guids[guid])
      /\ \A j \in DOMAIN t2.guids : j # guid => j \in DOMAIN t.guids /\ t2.guids[j] = t.guids[j]
      /\ \A j \in DOMAIN t.guids : t.guids[j].lastSeen >= tableNow => j \in DOMAIN t2.guids
  BY <1>5 DEF Observed, Changed
<1>9. SeenIn(t2.guids, tableNow, Recent)
  BY <1>2, <1>3, <1>8 DEF SeenIn
<1>10. SeenBefore(t2.guids, tableNow, now)
  BY <1>2, <1>8 DEF SeenBefore, Walking
<1>11. ASSUME NEW i \in 1 .. k PROVE Met(t2.guids, order[i], now)
  <2>1. CASE order[i] = guid
    BY <2>1, <1>8 DEF Met
  <2>2. CASE order[i] # guid
    <3>1. i \in 1 .. k - 1
      BY <2>2 DEF guid
    <3>2. Met(t.guids, order[i], now)
      BY <3>1 DEF Walking
    <3>3. order[i] \in DOMAIN t2.guids /\ t2.guids[order[i]] = t.guids[order[i]]
      BY <2>2, <3>2, <1>1, <1>8 DEF Met
    <3> QED
      BY <3>2, <3>3 DEF Met
  <2> QED
    BY <2>1, <2>2
<1>12. Walking(t2, order, k, now)
  BY <1>6, <1>7, <1>9, <1>10, <1>11 DEF Walking
<1> QED
  BY <1>12 DEF t2, guid

\* After a poll each sound that plays has been met.
LEMMA WalkEnds ==
  ASSUME OverridesCore, Sizes, NEW order \in SetToSeqs(DOMAIN playing), NEW now \in Nat, now > tableNow
  PROVE  Walking(ObserveAll(order, now), order, Len(order), now) /\
         \A guid \in DOMAIN playing : Met(ObserveAll(order, now).guids, guid, now)
<1> DEFINE n == Len(order)
           f == Observing(order, now)
           T == {k \in 0 .. n : Walking(f[k], order, k, now)}
<1>1. IsFiniteSet(DOMAIN playing)
  BY RecentIsFinite, FS_Subset
<1>2. /\ n \in Nat /\ \A k \in 1 .. n : order[k] \in DOMAIN playing
      /\ \A s \in DOMAIN playing : \E k \in 1 .. n : order[k] = s
  BY <1>1, OrderHasAll
<1>3. f[0] = Unobserved(now) /\ \A k \in 1 .. n : f[k] = Observe(f[k - 1], order[k], now)
  <2>1. f = [k \in 0 .. n |-> ObserveNext(f, order, now, k)]
    BY <1>2, ObservingIs DEF IsObserving
  <2> HIDE DEF f, n
  <2>2. \A k \in 0 .. n : f[k] = ObserveNext(f, order, now, k)
    BY <2>1
  <2>3. 0 \in 0 .. n /\ \A k \in 1 .. n : k \in 0 .. n /\ k # 0
    BY <1>2
  <2> QED
    BY <2>2, <2>3 DEF ObserveNext
<1>4. ObserveAll(order, now) = f[n]
  BY ObserveAllIs
<1> HIDE DEF f, n
<1>5. 0 \in T
  BY <1>2, <1>3, WalkStarts
<1>6. ASSUME NEW k \in 1 .. n, k - 1 \in T PROVE k \in T
  <2>1. Walking(f[k - 1], order, k - 1, now) /\ k \in Nat \ {0} /\ k \in 0 .. n
    BY <1>2, <1>6
  <2>2. Walking(Observe(f[k - 1], order[k], now), order, k, now)
    BY <1>2, <2>1, WalkStep
  <2> QED
    BY <1>3, <2>1, <2>2
<1>7. n \in T
  <2> HIDE DEF T
  <2>1. 0 .. n \subseteq T
    BY <1>2, <1>5, <1>6, UpTo
  <2> QED
    BY <1>2, <2>1
<1>8. Walking(f[n], order, n, now)
  BY <1>7
<1>9. \A guid \in DOMAIN playing : Met(f[n].guids, guid, now)
  BY <1>2, <1>8 DEF Walking
<1> QED
  BY <1>4, <1>8, <1>9 DEF n

-----------------------------------------------------------------------------
(* The steps                                                                 *)

RecentOf(g, sounds, at) == {k \in DOMAIN g : g[k].lastSeen = at} \cup DOMAIN sounds
LEMMA RecentIs == Recent = RecentOf(guids, playing, tableNow) /\ Recent' = RecentOf(guids', playing', tableNow')
BY Zenon DEF Recent, RecentOf

\* Those seen lately stay few when one sound joins them that there is room for.
LEMMA FewStay ==
  ASSUME OverridesCore, Sizes, NEW guid, Recent' \subseteq Recent \cup {guid},
         Cardinality(Recent \cup {guid}) <= MaxGuidEntries - MaxGuidEntries \div 2 + 1
  PROVE  RecentAreFew'
<1>1. IsFiniteSet(Recent \cup {guid})
  BY RecentIsFinite, FS_AddElement
<1>2. IsFiniteSet(Recent') /\ Cardinality(Recent') <= Cardinality(Recent \cup {guid})
  BY <1>1, FS_Subset
<1>3. Cardinality(Recent') \in Nat /\ Cardinality(Recent \cup {guid}) \in Nat /\ MaxGuidEntries \div 2 \in Nat
  BY <1>1, <1>2, FS_CardinalityType DEF Sizes
<1>4. Cardinality(Recent') <= MaxGuidEntries - MaxGuidEntries \div 2 + 1
  BY <1>2, <1>3 DEF Sizes
<1> QED
  BY <1>4 DEF RecentAreFew

LEMMA FewerStay ==
  ASSUME OverridesCore, Sizes, Recent' \subseteq Recent
  PROVE  RecentAreFew'
<1>1. IsFiniteSet(Recent)
  BY RecentIsFinite
<1>2. IsFiniteSet(Recent') /\ Cardinality(Recent') <= Cardinality(Recent)
  BY <1>1, FS_Subset
<1>3. Cardinality(Recent') \in Nat /\ Cardinality(Recent) \in Nat /\ MaxGuidEntries \div 2 \in Nat
  BY <1>1, <1>2, FS_CardinalityType DEF Sizes
<1>4. Cardinality(Recent') <= MaxGuidEntries - MaxGuidEntries \div 2 + 1
  BY <1>2, <1>3 DEF Sizes, OverridesCore, RecentAreFew
<1> QED
  BY <1>4 DEF RecentAreFew

LEMMA PollStep ==
  ASSUME OverridesCore, Sizes, NEW order \in SetToSeqs(DOMAIN playing), NEW passed \in {1, Retention + 1},
         PollActiveSounds(order, passed)
  PROVE  OverridesCore'
<1> DEFINE now == tableNow + passed
           t == ObserveAll(order, now)
           g2 == Restrict(t.guids, Kept(t.guids, now))
<1>1. now \in Nat /\ now > tableNow /\ tableNow \in Nat
  BY DEF OverridesCore, TableTypes, Sizes
<1>2. /\ tableNow' = now /\ guids' = g2 /\ asked' = t.asked /\ taken' = t.taken
      /\ applied' = [guid \in DOMAIN playing |-> ApplyParams(playing[guid], Resolve(t.guids, guid))]
      /\ playing' = playing /\ lastStarted' = lastStarted /\ entities' = entities /\ rules' = rules
      /\ rulesVersion' = rulesVersion
  BY Zenon DEF PollActiveSounds
<1>3. Walking(t, order, Len(order), now) /\ \A guid \in DOMAIN playing : Met(t.guids, guid, now)
  BY <1>1, WalkEnds
<1> HIDE DEF now, t
<1>4. /\ Tracks(playing, lastStarted, rulesVersion, rules, t.guids, t.asked, t.taken, tableNow)
      /\ HistoryTypes(t.asked, t.taken, lastStarted)
      /\ SeenIn(t.guids, tableNow, Recent) /\ SeenBefore(t.guids, tableNow, now)
  BY <1>3 DEF Walking
<1>5. DOMAIN g2 \subseteq DOMAIN t.guids /\ \A k \in DOMAIN g2 : g2[k] = t.guids[k]
  BY DEF Restrict, Kept
<1>6. \A k \in DOMAIN playing : k \in DOMAIN g2
  <2> SUFFICES ASSUME NEW k \in DOMAIN playing PROVE k \in DOMAIN g2
    OBVIOUS
  <2>1. k \in DOMAIN t.guids /\ t.guids[k].lastSeen = now
    BY <1>3 DEF Met
  <2>2. now - t.guids[k].lastSeen <= Retention
    BY <1>1, <2>1 DEF Sizes
  <2> QED
    BY <2>1, <2>2 DEF Restrict, Kept
<1> HIDE DEF g2
<1>7. Tracks(playing, lastStarted, rulesVersion, rules, g2, t.asked, t.taken, now)
  <2>1. DOMAIN g2 \subseteq 1 .. lastStarted /\ \A k \in DOMAIN g2 : IsEntry(g2[k], rulesVersion)
    BY <1>4, <1>5 DEF Tracks
  <2>2. ASSUME NEW k \in DOMAIN playing PROVE Fits(playing[k], g2[k], rulesVersion, rules, t.asked[k], t.taken[k], now)
    <3>1. k \in DOMAIN t.guids /\ t.guids[k].lastSeen = now /\ g2[k] = t.guids[k]
      BY <1>3, <1>5, <1>6 DEF Met
    <3>2. Fits(playing[k], t.guids[k], rulesVersion, rules, t.asked[k], t.taken[k], tableNow)
      BY <3>1, <1>4 DEF Tracks
    <3> QED
      BY <3>1, <3>2, <1>1 DEF Fits
  <2> QED
    BY <1>6, <2>1, <2>2 DEF Tracks
<1>8. \A k \in DOMAIN g2 : g2[k].lastSeen <= now
  <2> SUFFICES ASSUME NEW k \in DOMAIN g2 PROVE g2[k].lastSeen <= now
    OBVIOUS
  <2>1. k \in DOMAIN t.guids /\ g2[k] = t.guids[k] /\ g2[k].lastSeen \in Nat
    BY <1>5, <1>7 DEF Tracks, IsEntry
  <2>2. g2[k].lastSeen <= tableNow \/ g2[k].lastSeen = now
    BY <1>4, <2>1 DEF SeenBefore
  <2> QED
    BY <1>1, <2>1, <2>2
<1>9. TableTypes'
  BY <1>1, <1>2, <1>4 DEF TableTypes, HistoryTypes, OverridesCore
<1>10. RecentAreFew'
  <2>1. \A k \in DOMAIN g2 : g2[k].lastSeen = now => k \in DOMAIN playing
    BY <1>1, <1>4, <1>5 DEF SeenBefore
  <2>2. RecentOf(g2, playing, now) \subseteq Recent
    BY <2>1, RecentIsFinite DEF RecentOf
  <2> QED
    BY <1>2, <2>2, RecentIs, FewerStay
<1>11. AppliedIsOfPlaying'
  BY <1>2 DEF AppliedIsOfPlaying
<1>12. PlaysAsAsked'
  <2>1. ASSUME NEW guid \in DOMAIN playing
        PROVE  guid \in DOMAIN g2 /\ applied'[guid] = Wanted(playing[guid], entities, rules, g2[guid], t.asked[guid])
    <3>1. guid \in DOMAIN t.guids /\ t.guids[guid].rule = EvaluateRules(t.guids[guid]) /\ g2[guid] = t.guids[guid]
      BY <1>3, <1>5, <1>6 DEF Met
    <3>2. t.guids[guid].ov = t.asked[guid]
      BY <1>4, <3>1 DEF Tracks, Fits
    <3>3. applied'[guid] = ApplyParams(playing[guid], Resolve(t.guids, guid))
      BY <1>2
    <3>4. Resolve(t.guids, guid) = Combined(t.guids[guid].rule, playing[guid].entity, t.guids[guid].ov)
      BY <3>1 DEF Resolve
    <3>5. Wanted(playing[guid], entities, rules, g2[guid], t.asked[guid]) =
            ApplyParams(playing[guid], Combined(EvaluateRules(t.guids[guid]), playing[guid].entity, t.asked[guid]))
      BY <3>1, Zenon DEF Wanted, Combined, EvaluateRules
    <3> QED
      BY <1>6, <3>1, <3>2, <3>3, <3>4, <3>5
  <2>2. DOMAIN applied' = DOMAIN playing
    BY <1>2
  <2>3. AllAsWanted(applied', playing, g2, entities, rules, t.asked)
    BY <2>1, <2>2 DEF AllAsWanted
  <2> QED
    BY <1>2, <2>3, PlaysIsWanted
<1> QED
  BY <1>2, <1>7, <1>8, <1>9, <1>10, <1>11, <1>12 DEF OverridesCore

LEMMA SoundEndsStep ==
  ASSUME OverridesCore, Sizes, NEW guid \in DOMAIN playing, SoundEnds(guid)
  PROVE  OverridesCore'
<1>1. /\ tableNow' = tableNow /\ guids' = guids /\ asked' = asked /\ taken' = taken
      /\ applied' = Restrict(applied, DOMAIN applied \ {guid}) /\ playing' = Restrict(playing, DOMAIN playing \ {guid})
      /\ lastStarted' = lastStarted /\ entities' = entities /\ rules' = rules
      /\ rulesVersion' = rulesVersion /\ polled' = polled
  BY Zenon DEF SoundEnds, tableState
<1>2. /\ DOMAIN playing' = DOMAIN playing \ {guid} /\ \A k \in DOMAIN playing' : playing'[k] = playing[k]
      /\ DOMAIN applied' = DOMAIN applied \ {guid} /\ \A k \in DOMAIN applied' : applied'[k] = applied[k]
  BY <1>1 DEF Restrict
<1>3. Tracks(playing', lastStarted, rulesVersion, rules, guids, asked, taken, tableNow)
  BY <1>2 DEF OverridesCore, Tracks
<1>4. TableTypes'
  BY <1>1, <1>2 DEF TableTypes, OverridesCore
<1>5. RecentAreFew'
  <2>1. RecentOf(guids, playing', tableNow) \subseteq RecentOf(guids, playing, tableNow)
    BY <1>2 DEF RecentOf
  <2> QED
    BY <1>1, <2>1, RecentIs, FewerStay
<1>6. AppliedIsOfPlaying'
  BY <1>1, <1>2 DEF AppliedIsOfPlaying, OverridesCore
<1>7. PlaysAsAsked'
  <2>1. SUFFICES ASSUME polled PROVE AllAsWanted(applied', playing', guids, entities, rules, asked)
    BY <1>1, PlaysIsWanted
  <2>2. AllAsWanted(applied, playing, guids, entities, rules, asked) /\ DOMAIN applied \subseteq DOMAIN playing
    BY <2>1, PlaysIsWanted DEF OverridesCore, AppliedIsOfPlaying
  <2> QED
    BY <1>2, <2>2 DEF AllAsWanted
<1> QED
  BY <1>1, <1>3, <1>4, <1>5, <1>6, <1>7 DEF OverridesCore

LEMMA Unpolled == ASSUME polled' = FALSE PROVE AppliedIsOfPlaying' /\ PlaysAsAsked'
BY PlaysIsWanted DEF AppliedIsOfPlaying

\* What a change of one entry does to what was seen.
SeenStays(g, g2, guid) ==
  /\ \A k \in DOMAIN g2 : g2[k].lastSeen <= tableNow
  /\ \A k \in DOMAIN g2 : k # guid => k \in DOMAIN g /\ g2[k] = g[k]

\* The entry of a sound EmitSound reports.
LEMMA EmittedStep ==
  ASSUME OverridesCore, Sizes, NEW sounds, NEW last \in Nat, NEW guid \in 1 .. last, NEW en, NEW ch, NEW nm,
         Tracks(sounds, last, rulesVersion, rules, guids, asked, taken, tableNow),
         Cardinality(Recent \cup {guid}) <= MaxGuidEntries - MaxGuidEntries \div 2 + 1,
         OnSoundEmitted(guid, en, ch, nm)
  PROVE  /\ Tracks(sounds, last, rulesVersion, rules, guids', asked, taken, tableNow)
         /\ SeenStays(guids, guids', guid)
<1>1. /\ tableNow \in Nat /\ rulesVersion \in Nat \ {0} /\ MaxGuidEntries \in Nat
      /\ \A k \in DOMAIN guids : guids[k].lastSeen <= tableNow
  BY DEF OverridesCore, TableTypes, Sizes
<1>2. IsFiniteSet(Recent) /\ SeenIn(guids, tableNow, Recent)
  BY RecentIsFinite
<1>3. CASE guid \in {0, lastEmittedGuid}
  <2>1. guids' = guids
    BY <1>3, Zenon DEF OnSoundEmitted
  <2> QED
    BY <1>1, <2>1 DEF SeenStays
<1>4. CASE guid \notin {0, lastEmittedGuid}
  <2> DEFINE known == WithEntry(guids, guid, tableNow)
             old == known[guid]
             w == IF nm = old.name THEN old.version ELSE 0
             e == [old EXCEPT !.lastSeen = tableNow, !.entity = en, !.channel = ch, !.name = nm, !.version = w]
  <2>2. guids' = [known EXCEPT ![guid] = e]
    <3>1. e = [known[guid] EXCEPT !.lastSeen = tableNow, !.entity = en, !.channel = ch, !.name = nm,
                                  !.version = IF nm = known[guid].name THEN known[guid].version ELSE 0]
      OBVIOUS
    <3>2. guids' = [known EXCEPT ![guid] = [known[guid] EXCEPT !.lastSeen = tableNow, !.entity = en, !.channel = ch,
                                                   !.name = nm, !.version = IF nm = known[guid].name THEN known[guid].version ELSE 0]]
      BY <1>4, Zenon DEF OnSoundEmitted
    <3> HIDE DEF known, e
    <3> QED
      BY <3>1, <3>2
  <2>3. old = Found(guids, guid, tableNow)
    <3>1. Looked(guids, guid, tableNow, tableNow)
      BY <1>1, <1>2, WithEntryIs
    <3> QED
      BY <3>1 DEF Looked
  <2>4. /\ IsEntry(old, rulesVersion)
        /\ guid \in DOMAIN sounds =>
              /\ old.ov = asked[guid] /\ (taken[guid] = "unheard" \/ old.observed)
              /\ old.version = rulesVersion => old.rule = RulesFor(rules, sounds[guid].channel, old.name)
    BY <1>1, <2>3, FoundHas
  <2>5. w \in 0 .. rulesVersion
    BY <1>1, <2>4 DEF IsEntry
  <2> HIDE DEF known
  <2>6. WithName(old, e, nm, w, tableNow, rulesVersion)
    <3> HIDE DEF old, w
    <3> QED
      BY <1>1, <2>4, <2>5, NameChanges
  <2> HIDE DEF e
  <2>7. guid \in DOMAIN sounds => Fits(sounds[guid], e, rulesVersion, rules, asked[guid], taken[guid], tableNow)
    <3>1. w = rulesVersion => nm = old.name /\ old.version = rulesVersion
      BY <1>1
    <3> HIDE DEF w, old
    <3> QED
      BY <1>1, <2>4, <2>6, <3>1 DEF Fits, WithName
  <2>8. IsEntry(e, rulesVersion) /\ e.lastSeen = tableNow
    BY <2>6 DEF WithName
  <2>9. IsChange(guids, guids', guid, e, tableNow) /\ SameBut(sounds, guid, asked, taken, asked, taken)
    BY <2>2 DEF IsChange, SameBut, known
  <2>10. TracksChange(sounds, last, rulesVersion, rules, guids, guids', guid, e, asked, taken, tableNow)
    BY <1>1, <1>2, <2>7, <2>8, <2>9, EntryChanges
  <2>11. SeenStays(guids, guids', guid)
    BY <1>1, <2>8, <2>10 DEF TracksChange, Changed, SeenStays
  <2> QED
    BY <2>10, <2>11 DEF TracksChange
<1> QED
  BY <1>3, <1>4

LEMMA StartSoundStep ==
  ASSUME OverridesCore, Sizes, NEW byCall \in BOOLEAN, NEW handle, NEW en, NEW ch, NEW nm, NEW origin,
         StartSound(byCall, handle, en, ch, nm, origin)
  PROVE  OverridesCore'
<1> DEFINE guid == lastStarted + 1
           sound == [entity |-> en, channel |-> ch, name |-> nm, handle |-> handle, origin |-> origin]
<1>1. /\ guid <= LastGuid /\ FewAreRecent(guid) /\ lastStarted' = guid /\ polled' = FALSE
      /\ playing' = [g \in DOMAIN playing \cup {guid} |-> IF g = guid THEN sound ELSE playing[g]]
      /\ tableNow' = tableNow /\ asked' = asked /\ taken' = taken /\ rules' = rules /\ rulesVersion' = rulesVersion
  BY Zenon DEF StartSound, SoundKeeps
<1>2. IF byCall THEN OnSoundEmitted(guid, en, ch, nm) ELSE guids' = guids
  BY Zenon DEF StartSound
<1> HIDE DEF sound
<1>3. /\ lastStarted \in Nat /\ LastGuid \in Nat /\ guid \in Nat /\ guid \in 1 .. guid /\ guid \in lastStarted + 1 .. LastGuid
      /\ DOMAIN playing \subseteq 1 .. lastStarted /\ guid \notin 1 .. lastStarted /\ 1 .. lastStarted \subseteq 1 .. guid
  BY <1>1 DEF OverridesCore, TableTypes, Sizes
<1>4. asked[guid] = NoOverride /\ taken[guid] = "unheard"
  BY <1>3 DEF OverridesCore, TableTypes
<1> HIDE DEF guid
<1>5. Tracks(playing', guid, rulesVersion, rules, guids, asked, taken, tableNow)
  <2>1. /\ DOMAIN guids \subseteq 1 .. lastStarted /\ \A k \in DOMAIN guids : IsEntry(guids[k], rulesVersion)
        /\ \A k \in DOMAIN playing :
             /\ k \in DOMAIN guids => Fits(playing[k], guids[k], rulesVersion, rules, asked[k], taken[k], tableNow)
             /\ k \notin DOMAIN guids => asked[k] = NoOverride /\ taken[k] = "unheard"
    BY DEF OverridesCore, Tracks
  <2>2. DOMAIN guids \subseteq 1 .. guid /\ guid \notin DOMAIN guids
    BY <1>3, <2>1
  <2>3. DOMAIN playing' = DOMAIN playing \cup {guid} /\ \A k \in DOMAIN playing : k # guid /\ playing'[k] = playing[k]
    BY <1>1, <1>3
  <2> QED
    BY <1>4, <2>1, <2>2, <2>3 DEF Tracks
<1>6. /\ Tracks(playing', guid, rulesVersion, rules, guids', asked, taken, tableNow)
      /\ SeenStays(guids, guids', guid)
  <2>1. CASE byCall
    <3>1. Cardinality(Recent \cup {guid}) <= MaxGuidEntries - MaxGuidEntries \div 2 + 1
      BY <1>1 DEF FewAreRecent
    <3> QED
      BY <1>2, <1>3, <1>5, <2>1, <3>1, EmittedStep
  <2>2. CASE ~byCall
    BY <1>2, <1>5, <2>2 DEF SeenStays, OverridesCore
  <2> QED
    BY <2>1, <2>2
<1>7. TableTypes'
  <2>1. DOMAIN playing' \subseteq 1 .. guid /\ guid \in 0 .. LastGuid
    BY <1>1, <1>3
  <2>2. \A k \in guid + 1 .. LastGuid : k \in lastStarted + 1 .. LastGuid
    BY <1>3 DEF guid
  <2> QED
    BY <1>1, <2>1, <2>2 DEF TableTypes, OverridesCore
<1>8. RecentAreFew'
  <2>1. RecentOf(guids', playing', tableNow) \subseteq RecentOf(guids, playing, tableNow) \cup {guid}
    BY <1>1, <1>6 DEF RecentOf, SeenStays
  <2>2. Recent' \subseteq Recent \cup {guid}
    BY <1>1, <2>1, RecentIs
  <2> QED
    BY <1>1, <2>2, FewStay DEF FewAreRecent
<1> QED
  BY <1>1, <1>6, <1>7, <1>8, Unpolled DEF OverridesCore, SeenStays

LEMMA StartFailsStep ==
  ASSUME OverridesCore, Sizes, NEW en, NEW ch, NEW nm, StartFails(en, ch, nm)
  PROVE  OverridesCore'
<1>1. /\ FewAreRecent(lastStarted) /\ OnSoundEmitted(lastStarted, en, ch, nm) /\ lastStarted' = lastStarted /\ polled' = FALSE
      /\ playing' = playing
      /\ tableNow' = tableNow /\ asked' = asked /\ taken' = taken /\ rules' = rules /\ rulesVersion' = rulesVersion
  BY Zenon DEF StartFails, SoundKeeps
<1>2. /\ Tracks(playing, lastStarted, rulesVersion, rules, guids, asked, taken, tableNow)
      /\ lastStarted \in Nat /\ \A k \in DOMAIN guids : guids[k].lastSeen <= tableNow
  BY DEF OverridesCore, TableTypes, Sizes
<1>3. /\ Tracks(playing, lastStarted, rulesVersion, rules, guids', asked, taken, tableNow)
      /\ SeenStays(guids, guids', lastStarted)
  <2>1. CASE lastStarted = 0
    <3>1. guids' = guids
      BY <1>1, <2>1, Zenon DEF OnSoundEmitted
    <3> QED
      BY <1>2, <3>1 DEF SeenStays
  <2>2. CASE lastStarted # 0
    <3>1. Cardinality(Recent \cup {lastStarted}) <= MaxGuidEntries - MaxGuidEntries \div 2 + 1
      BY <1>1 DEF FewAreRecent
    <3>2. lastStarted \in 1 .. lastStarted
      BY <1>2, <2>2
    <3> QED
      BY <1>1, <1>2, <3>1, <3>2, EmittedStep
  <2> QED
    BY <2>1, <2>2
<1>4. TableTypes'
  BY <1>1 DEF TableTypes, OverridesCore
<1>5. RecentAreFew'
  <2>1. RecentOf(guids', playing, tableNow) \subseteq RecentOf(guids, playing, tableNow) \cup {lastStarted}
    BY <1>3 DEF RecentOf, SeenStays
  <2>2. Recent' \subseteq Recent \cup {lastStarted}
    BY <1>1, <2>1, RecentIs
  <2> QED
    BY <1>1, <2>2, FewStay DEF FewAreRecent
<1> QED
  BY <1>1, <1>3, <1>4, <1>5, Unpolled DEF OverridesCore, SeenStays

\* The calls of Lua: no sound starts or ends, and what they see of the table is of sounds that play.
KeepsSounds == /\ playing' = playing /\ lastStarted' = lastStarted /\ tableNow' = tableNow /\ taken' = taken /\ polled' = FALSE
AskedTypes(as, last) == DOMAIN as = 1 .. LastGuid /\ \A k \in last + 1 .. LastGuid : as[k] = NoOverride
SeenAsBefore(g, g2) ==
  \A k \in DOMAIN g2 : (k \in DOMAIN g /\ g2[k].lastSeen = g[k].lastSeen) \/ (k \in DOMAIN playing /\ g2[k].lastSeen = tableNow)

LEMMA SmallStep ==
  ASSUME OverridesCore, Sizes, KeepsSounds, NEW g2, NEW as2, NEW v \in Nat \ {0}, NEW list,
         guids' = g2, asked' = as2, rulesVersion' = v, rules' = list,
         AskedTypes(as2, lastStarted), SeenAsBefore(guids, g2),
         Tracks(playing, lastStarted, v, list, g2, as2, taken, tableNow)
  PROVE  OverridesCore'
<1>1. TableTypes'
  BY DEF OverridesCore, TableTypes, KeepsSounds, AskedTypes
<1>2. tableNow \in Nat /\ \A k \in DOMAIN guids : guids[k].lastSeen <= tableNow
  BY DEF OverridesCore, TableTypes
<1>3. \A k \in DOMAIN guids' : guids'[k].lastSeen <= tableNow
  BY <1>2 DEF SeenAsBefore
<1>4. RecentAreFew'
  <2>1. RecentOf(guids', playing, tableNow) \subseteq RecentOf(guids, playing, tableNow)
    BY DEF RecentOf, SeenAsBefore
  <2> QED
    BY <2>1, RecentIs, FewerStay DEF KeepsSounds
<1> QED
  BY <1>1, <1>3, <1>4, Unpolled DEF OverridesCore, KeepsSounds

LEMMA CoreAsks == OverridesCore => AskedTypes(asked, lastStarted) /\ rulesVersion \in Nat \ {0}
BY DEF OverridesCore, TableTypes, AskedTypes

\* A new version of the rules: what the entries cached is stale.
LEMMA NewRules ==
  ASSUME NEW sounds, NEW last, NEW v \in Nat, NEW list, NEW list2, NEW g, NEW as, NEW ta, NEW from,
         Tracks(sounds, last, v, list, g, as, ta, from)
  PROVE  Tracks(sounds, last, v + 1, list2, g, as, ta, from)
<1>1. ASSUME NEW k \in DOMAIN g PROVE IsEntry(g[k], v + 1) /\ g[k].version # v + 1
  <2>1. IsEntry(g[k], v)
    BY DEF Tracks
  <2> QED
    BY <2>1 DEF IsEntry
<1>2. ASSUME NEW k \in DOMAIN sounds, k \in DOMAIN g PROVE Fits(sounds[k], g[k], v + 1, list2, as[k], ta[k], from)
  <2>1. Fits(sounds[k], g[k], v, list, as[k], ta[k], from)
    BY <1>2 DEF Tracks
  <2> QED
    BY <1>1, <1>2, <2>1 DEF Fits
<1> QED
  BY <1>1, <1>2 DEF Tracks

LEMMA RulesStep ==
  ASSUME OverridesCore, Sizes, KeepsSounds, guids' = guids, asked' = asked, rulesVersion' = rulesVersion + 1
  PROVE  OverridesCore'
<1>1. AskedTypes(asked', lastStarted) /\ rulesVersion \in Nat \ {0} /\ rulesVersion' \in Nat \ {0}
  BY CoreAsks
<1>2. Tracks(playing, lastStarted, rulesVersion', rules', guids', asked', taken, tableNow)
  <2>1. Tracks(playing, lastStarted, rulesVersion + 1, rules', guids, asked, taken, tableNow)
    BY <1>1, NewRules DEF OverridesCore
  <2> QED
    BY <2>1
<1>3. SeenAsBefore(guids, guids')
  BY DEF SeenAsBefore
<1> QED
  BY <1>1, <1>2, <1>3, SmallStep

LEMMA OtherStep ==
  ASSUME OverridesCore, Sizes, KeepsSounds, guids' = guids, asked' = asked, rulesVersion' = rulesVersion, rules' = rules
  PROVE  OverridesCore'
<1>1. AskedTypes(asked', lastStarted) /\ rulesVersion' \in Nat \ {0}
  BY CoreAsks
<1>2. Tracks(playing, lastStarted, rulesVersion', rules', guids', asked', taken, tableNow)
  BY DEF OverridesCore
<1>3. SeenAsBefore(guids, guids')
  BY DEF SeenAsBefore
<1> QED
  BY <1>1, <1>2, <1>3, SmallStep

LEMMA SetStep ==
  ASSUME OverridesCore, Sizes, KeepsSounds, NEW guid \in DOMAIN playing, NEW ov, SetForGuid(guid, ov)
  PROVE  OverridesCore'
<1> DEFINE known == WithEntry(guids, guid, tableNow)
           old == known[guid]
           more == Merge(old.ov, ov)
           e == [old EXCEPT !.ov = more, !.lastSeen = tableNow]
           as2 == [asked EXCEPT ![guid] = Merge(@, ov)]
<1>1. /\ tableNow \in Nat /\ rulesVersion \in Nat \ {0} /\ MaxGuidEntries \in Nat /\ lastStarted \in Nat
      /\ LastGuid \in Nat /\ DOMAIN playing \subseteq 1 .. lastStarted /\ DOMAIN asked = 1 .. LastGuid
      /\ lastStarted <= LastGuid
      /\ Tracks(playing, lastStarted, rulesVersion, rules, guids, asked, taken, tableNow)
  BY DEF OverridesCore, TableTypes, Sizes
<1>2. IsFiniteSet(Recent) /\ SeenIn(guids, tableNow, Recent) /\ Recent \cup {guid} = Recent
  BY RecentIsFinite
<1>3. Cardinality(Recent \cup {guid}) <= MaxGuidEntries - MaxGuidEntries \div 2 + 1
  BY <1>2 DEF OverridesCore, RecentAreFew
<1>4. /\ guids' = [known EXCEPT ![guid] = e] /\ asked' = as2
      /\ rules' = rules /\ rulesVersion' = rulesVersion
  <2>1. /\ guids' = [known EXCEPT ![guid] = [known[guid] EXCEPT !.ov = Merge(known[guid].ov, ov), !.lastSeen = tableNow]]
        /\ asked' = as2
        /\ rules' = rules /\ rulesVersion' = rulesVersion
    BY Zenon DEF SetForGuid
  <2>2. e = [known[guid] EXCEPT !.ov = Merge(known[guid].ov, ov), !.lastSeen = tableNow]
    OBVIOUS
  <2> HIDE DEF known, e, as2
  <2> QED
    BY <2>1, <2>2
<1>5. old = Found(guids, guid, tableNow)
  <2>1. Looked(guids, guid, tableNow, tableNow)
    BY <1>1, <1>2, <1>3, WithEntryIs
  <2> QED
    BY <2>1 DEF Looked
<1>6. /\ IsEntry(old, rulesVersion)
      /\ old.ov = asked[guid] /\ (taken[guid] = "unheard" \/ old.observed)
      /\ old.version = rulesVersion => old.rule = RulesFor(rules, playing[guid].channel, old.name)
  BY <1>1, <1>5, FoundHas
<1>7. guid \in DOMAIN asked /\ as2[guid] = more /\ \A j \in DOMAIN asked : j # guid => as2[j] = asked[j]
  <2> HIDE DEF known
  <2>1. guid \in DOMAIN asked
    BY <1>1
  <2>2. as2[guid] = Merge(asked[guid], ov)
    BY <2>1
  <2> QED
    BY <1>6, <2>1, <2>2
<1>8. DOMAIN as2 = 1 .. LastGuid
  BY <1>1
<1> HIDE DEF known, old, more, as2
<1>9. WithOv(old, e, more, tableNow, rulesVersion)
  BY <1>1, <1>6, OvChanges
<1> HIDE DEF e
<1>10. Fits(playing[guid], e, rulesVersion, rules, as2[guid], taken[guid], tableNow)
  BY <1>1, <1>6, <1>7, <1>9 DEF Fits, WithOv
<1>11. IsChange(guids, guids', guid, e, tableNow) /\ SameBut(playing, guid, asked, taken, as2, taken)
  <2>1. DOMAIN playing \subseteq DOMAIN asked
    BY <1>1
  <2> QED
    BY <1>4, <1>7, <2>1 DEF IsChange, SameBut, known
<1>12. IsEntry(e, rulesVersion) /\ e.lastSeen = tableNow
  BY <1>9 DEF WithOv
<1>13. TracksChange(playing, lastStarted, rulesVersion, rules, guids, guids', guid, e, as2, taken, tableNow)
  <2>1. guid \in 1 .. lastStarted
    BY <1>1
  <2> QED
    BY <1>1, <1>2, <1>3, <1>10, <1>11, <1>12, <2>1, EntryChanges
<1>14. SeenAsBefore(guids, guids')
  BY <1>12, <1>13 DEF TracksChange, Changed, SeenAsBefore
<1>15. AskedTypes(asked', lastStarted)
  <2>1. \A k \in lastStarted + 1 .. LastGuid : k # guid /\ k \in DOMAIN asked
    BY <1>1
  <2> QED
    BY <1>4, <1>7, <1>8, <2>1, CoreAsks DEF AskedTypes
<1> QED
  BY <1>1, <1>4, <1>13, <1>14, <1>15, SmallStep DEF TracksChange

LEMMA ClearStep ==
  ASSUME OverridesCore, Sizes, KeepsSounds, NEW guid \in DOMAIN guids, ClearGuid(guid)
  PROVE  OverridesCore'
<1> DEFINE e == [guids[guid] EXCEPT !.ov = NoOverride]
<1>1. /\ guids' = [guids EXCEPT ![guid].ov = NoOverride] /\ asked' = [asked EXCEPT ![guid] = NoOverride]
      /\ rules' = rules /\ rulesVersion' = rulesVersion
  BY Zenon DEF ClearGuid
<1>2. /\ DOMAIN guids' = DOMAIN guids /\ guids'[guid] = e /\ \A k \in DOMAIN guids : k # guid => guids'[k] = guids[k]
  BY <1>1
<1>3. /\ rulesVersion \in Nat \ {0} /\ Tracks(playing, lastStarted, rulesVersion, rules, guids, asked, taken, tableNow)
      /\ DOMAIN asked = 1 .. LastGuid /\ DOMAIN playing \subseteq 1 .. lastStarted /\ lastStarted \in Nat /\ LastGuid \in Nat
      /\ lastStarted <= LastGuid
  BY DEF OverridesCore, TableTypes, Sizes
<1>4. /\ IsEntry(guids[guid], rulesVersion) /\ guid \in 1 .. lastStarted /\ guid \in DOMAIN asked
      /\ DOMAIN playing \subseteq DOMAIN asked
  <2>1. IsEntry(guids[guid], rulesVersion) /\ guid \in 1 .. lastStarted
    BY <1>3 DEF Tracks
  <2> QED
    BY <1>3, <2>1
<1>5. WithOvOnly(guids[guid], e, NoOverride, rulesVersion)
  BY <1>3, <1>4, OvCleared
<1>6. DOMAIN asked' = DOMAIN asked /\ asked'[guid] = NoOverride /\ \A k \in DOMAIN asked : k # guid => asked'[k] = asked[k]
  BY <1>1, <1>4
<1> HIDE DEF e
<1>7. SeenAsBefore(guids, guids')
  BY <1>2, <1>5 DEF SeenAsBefore, WithOvOnly
<1>8. AskedTypes(asked', lastStarted)
  <2>1. \A k \in lastStarted + 1 .. LastGuid : k \in DOMAIN asked
    BY <1>3
  <2> QED
    BY <1>6, <2>1, CoreAsks DEF AskedTypes
<1>9. Tracks(playing, lastStarted, rulesVersion, rules, guids', asked', taken, tableNow)
  <2>1. DOMAIN guids' \subseteq 1 .. lastStarted /\ \A k \in DOMAIN guids' : IsEntry(guids'[k], rulesVersion)
    BY <1>2, <1>3, <1>5 DEF Tracks, WithOvOnly
  <2>2. ASSUME NEW k \in DOMAIN playing, k \in DOMAIN guids'
        PROVE  Fits(playing[k], guids'[k], rulesVersion, rules, asked'[k], taken[k], tableNow)
    <3>1. Fits(playing[k], guids[k], rulesVersion, rules, asked[k], taken[k], tableNow) /\ k \in DOMAIN asked
      BY <1>2, <1>3, <1>4, <2>2 DEF Tracks
    <3>2. CASE k = guid
      BY <1>2, <1>5, <1>6, <3>1, <3>2 DEF Fits, WithOvOnly
    <3>3. CASE k # guid
      BY <1>2, <1>6, <2>2, <3>1, <3>3
    <3> QED
      BY <3>2, <3>3
  <2>3. ASSUME NEW k \in DOMAIN playing, k \notin DOMAIN guids' PROVE asked'[k] = NoOverride /\ taken[k] = "unheard"
    BY <1>2, <1>3, <1>4, <1>6, <2>3 DEF Tracks
  <2> QED
    BY <2>1, <2>2, <2>3 DEF Tracks
<1> QED
  BY <1>1, <1>3, <1>7, <1>8, <1>9, SmallStep

LEMMA ClearAllStep ==
  ASSUME OverridesCore, Sizes, KeepsSounds, ClearAll
  PROVE  OverridesCore'
<1> DEFINE e(k) == [guids[k] EXCEPT !.ov = NoOverride]
<1>1. /\ guids' = [k \in DOMAIN guids |-> e(k)] /\ asked' = [k \in DOMAIN asked |-> NoOverride]
      /\ rules' = <<>> /\ rulesVersion' = rulesVersion + 1
  BY Zenon DEF ClearAll
<1>2. /\ DOMAIN guids' = DOMAIN guids /\ \A k \in DOMAIN guids : guids'[k] = e(k)
      /\ DOMAIN asked' = DOMAIN asked /\ \A k \in DOMAIN asked : asked'[k] = NoOverride
  BY <1>1
<1>3. /\ rulesVersion \in Nat \ {0} /\ Tracks(playing, lastStarted, rulesVersion, rules, guids, asked, taken, tableNow)
      /\ DOMAIN asked = 1 .. LastGuid /\ DOMAIN playing \subseteq 1 .. lastStarted /\ lastStarted \in Nat /\ LastGuid \in Nat
      /\ lastStarted <= LastGuid
  BY DEF OverridesCore, TableTypes, Sizes
<1>4. \A k \in DOMAIN playing : k \in DOMAIN asked
  BY <1>3
<1>5. Tracks(playing, lastStarted, rulesVersion + 1, rules', guids, asked, taken, tableNow)
  BY <1>3, NewRules
<1>6. ASSUME NEW k \in DOMAIN guids PROVE WithOvOnly(guids[k], guids'[k], NoOverride, rulesVersion + 1)
  <2>1. IsEntry(guids[k], rulesVersion + 1) /\ rulesVersion + 1 \in Nat
    BY <1>3, <1>5 DEF Tracks
  <2>2. guids'[k] = [guids[k] EXCEPT !.ov = NoOverride]
    BY <1>2
  <2> QED
    BY <2>1, <2>2, OvCleared
<1> HIDE DEF e
<1>7. SeenAsBefore(guids, guids')
  BY <1>2, <1>6 DEF SeenAsBefore, WithOvOnly
<1>8. AskedTypes(asked', lastStarted)
  <2>1. \A k \in lastStarted + 1 .. LastGuid : k \in DOMAIN asked
    BY <1>3
  <2> QED
    BY <1>2, <1>3, <2>1 DEF AskedTypes
<1>9. Tracks(playing, lastStarted, rulesVersion + 1, rules', guids', asked', taken, tableNow)
  <2>1. DOMAIN guids' \subseteq 1 .. lastStarted /\ \A k \in DOMAIN guids' : IsEntry(guids'[k], rulesVersion + 1)
    BY <1>2, <1>3, <1>6 DEF Tracks, WithOvOnly
  <2>2. ASSUME NEW k \in DOMAIN playing, k \in DOMAIN guids'
        PROVE  Fits(playing[k], guids'[k], rulesVersion + 1, rules', asked'[k], taken[k], tableNow)
    <3>1. Fits(playing[k], guids[k], rulesVersion + 1, rules', asked[k], taken[k], tableNow)
      BY <1>2, <1>5, <2>2 DEF Tracks
    <3>2. WithOvOnly(guids[k], guids'[k], NoOverride, rulesVersion + 1) /\ asked'[k] = NoOverride
      BY <1>2, <1>4, <1>6, <2>2
    <3> QED
      BY <3>1, <3>2 DEF Fits, WithOvOnly
  <2>3. ASSUME NEW k \in DOMAIN playing, k \notin DOMAIN guids' PROVE asked'[k] = NoOverride /\ taken[k] = "unheard"
    BY <1>2, <1>3, <1>4, <2>3 DEF Tracks
  <2> QED
    BY <2>1, <2>2, <2>3 DEF Tracks
<1> QED
  BY <1>1, <1>3, <1>7, <1>8, <1>9, SmallStep

LEMMA LuaStep == ASSUME OverridesCore, Sizes, Lua PROVE OverridesCore'
<1>1. KeepsSounds
  BY Zenon DEF Lua, LuaCalls, LuaKeeps, KeepsSounds
<1>2. \/ ClearRules \/ ClearAll
      \/ \E guid \in DOMAIN guids : ClearGuid(guid)
      \/ \E entity \in DOMAIN entities : ClearEntity(entity)
      \/ \E id \in 1 .. nextRuleId - 1 : RemoveRule(id)
      \/ \E ov : \/ \E guid \in DOMAIN playing : SetForGuid(guid, ov)
                 \/ \E entity : SetForEntity(entity, ov)
                 \/ \E entity, chan : Expect(entity, chan, ov)
                 \/ \E pattern, chan, priority : AddRule(pattern, chan, priority, ov)
  BY Zenon DEF Lua, ClearSoundRules, ClearSoundOverrides, ClearSoundParams, ClearEntitySoundParams, RemoveSoundRule,
       SetSoundParams, SetEntitySoundParams, ExpectSound, AddSoundRule
<1>3. CASE ClearRules
  <2>1. guids' = guids /\ asked' = asked /\ rulesVersion' = rulesVersion + 1
    BY <1>3, Zenon DEF ClearRules
  <2> QED
    BY <1>1, <2>1, RulesStep
<1>4. CASE ClearAll
  BY <1>1, <1>4, ClearAllStep
<1>5. CASE \E guid \in DOMAIN guids : ClearGuid(guid)
  BY <1>1, <1>5, ClearStep
<1>6. CASE \E entity \in DOMAIN entities : ClearEntity(entity)
  <2>1. guids' = guids /\ asked' = asked /\ rulesVersion' = rulesVersion /\ rules' = rules
    BY <1>6, Zenon DEF ClearEntity
  <2> QED
    BY <1>1, <2>1, OtherStep
<1>7. CASE \E id \in 1 .. nextRuleId - 1 : RemoveRule(id)
  <2>1. guids' = guids /\ asked' = asked /\ rulesVersion' = rulesVersion + 1
    BY <1>7, Zenon DEF RemoveRule
  <2> QED
    BY <1>1, <2>1, RulesStep
<1>8. ASSUME NEW ov, NEW guid \in DOMAIN playing, SetForGuid(guid, ov) PROVE OverridesCore'
  BY <1>1, <1>8, SetStep
<1>9. ASSUME NEW ov, NEW entity, SetForEntity(entity, ov) PROVE OverridesCore'
  <2>1. guids' = guids /\ asked' = asked /\ rulesVersion' = rulesVersion /\ rules' = rules
    BY <1>9, Zenon DEF SetForEntity
  <2> QED
    BY <1>1, <2>1, OtherStep
<1>10. ASSUME NEW ov, NEW entity, NEW chan, Expect(entity, chan, ov) PROVE OverridesCore'
  <2>1. guids' = guids /\ asked' = asked /\ rulesVersion' = rulesVersion /\ rules' = rules
    BY <1>10, Zenon DEF Expect
  <2> QED
    BY <1>1, <2>1, OtherStep
<1>11. ASSUME NEW ov, NEW pattern, NEW chan, NEW priority, AddRule(pattern, chan, priority, ov) PROVE OverridesCore'
  <2>1. guids' = guids /\ asked' = asked /\ rulesVersion' = rulesVersion + 1
    BY <1>11, Zenon DEF AddRule
  <2> QED
    BY <1>1, <2>1, RulesStep
<1> QED
  BY <1>2, <1>3, <1>4, <1>5, <1>6, <1>7, <1>8, <1>9, <1>10, <1>11, Zenon

LEMMA CoreInitially == ASSUME Sizes, OverridesInit PROVE OverridesCore
<1>1. /\ playing = <<>> /\ lastStarted = 0 /\ guids = <<>> /\ rulesVersion = 1 /\ tableNow = 0 /\ polled = FALSE
      /\ asked = [g \in 1 .. LastGuid |-> NoOverride] /\ taken = [g \in 1 .. LastGuid |-> "unheard"]
  BY Zenon DEF OverridesInit
<1>2. DOMAIN playing = {} /\ DOMAIN guids = {}
  BY <1>1
<1>3. TableTypes
  BY <1>1, <1>2 DEF TableTypes, InTime, Sizes
<1>4. RecentAreFew
  <2>1. Recent = {}
    BY <1>2 DEF Recent
  <2>2. Cardinality({}) = 0
    BY FS_EmptySet
  <2> QED
    BY <2>1, <2>2 DEF RecentAreFew, Sizes
<1>5. Tracks(playing, lastStarted, rulesVersion, rules, guids, asked, taken, tableNow)
  BY <1>2 DEF Tracks
<1>6. AppliedIsOfPlaying /\ PlaysAsAsked
  BY <1>1, PlaysIsWanted DEF AppliedIsOfPlaying
<1> QED
  BY <1>2, <1>3, <1>4, <1>5, <1>6 DEF OverridesCore

LEMMA CoreStays == ASSUME Sizes, OverridesCore, [OverridesNext]_overrideVars PROVE OverridesCore'
<1>1. CASE Lua
  BY <1>1, LuaStep
<1>2. ASSUME NEW byCall \in BOOLEAN, NEW handle, NEW en, NEW ch, NEW nm, NEW origin,
             StartSound(byCall, handle, en, ch, nm, origin)
      PROVE  OverridesCore'
  BY <1>2, StartSoundStep
<1>3. ASSUME NEW en, NEW ch, NEW nm, StartFails(en, ch, nm) PROVE OverridesCore'
  BY <1>3, StartFailsStep
<1>4. ASSUME NEW guid \in DOMAIN playing, SoundEnds(guid) PROVE OverridesCore'
  BY <1>4, SoundEndsStep
<1>5. ASSUME NEW order \in SetToSeqs(DOMAIN playing), NEW passed \in {1, Retention + 1}, PollActiveSounds(order, passed)
      PROVE  OverridesCore'
  BY <1>5, PollStep
<1>6. CASE UNCHANGED overrideVars
  <2>1. /\ playing' = playing /\ lastStarted' = lastStarted /\ guids' = guids /\ rulesVersion' = rulesVersion
        /\ tableNow' = tableNow /\ polled' = polled /\ asked' = asked /\ taken' = taken /\ rules' = rules
        /\ applied' = applied /\ entities' = entities
    BY <1>6, Zenon DEF overrideVars, tableState
  <2>2. PlaysAsAsked'
    BY <2>1, PlaysIsWanted DEF OverridesCore
  <2>3. RecentAreFew'
    BY <2>1, RecentIs, FewerStay
  <2>4. TableTypes' /\ AppliedIsOfPlaying'
    BY <2>1 DEF OverridesCore, TableTypes, AppliedIsOfPlaying
  <2> QED
    BY <2>1, <2>2, <2>3, <2>4 DEF OverridesCore
<1>7. CASE OverridesNext
  <2>1. \/ Lua
        \/ \E byCall \in BOOLEAN : \E handle, en, ch, nm, origin : StartSound(byCall, handle, en, ch, nm, origin)
        \/ \E en, ch, nm : StartFails(en, ch, nm)
        \/ \E guid \in DOMAIN playing : SoundEnds(guid)
        \/ \E order \in SetToSeqs(DOMAIN playing), passed \in {1, Retention + 1} : PollActiveSounds(order, passed)
    <3>1. FALSE \in BOOLEAN /\ TRUE \in BOOLEAN
      OBVIOUS
    <3> QED
      BY <1>7, <3>1, Zenon DEF OverridesNext
  <2> QED
    BY <1>1, <1>2, <1>3, <1>4, <1>5, <2>1, Zenon
<1> QED
  BY <1>6, <1>7

LEMMA CoreHolds == OverridesSpec => []OverridesCore
<1>1. Sizes
  BY OverridesAssumption, SizesAreAssumed, Zenon
<1>2. OverridesInit => OverridesCore
  BY <1>1, CoreInitially
<1>3. OverridesCore /\ [OverridesNext]_overrideVars => OverridesCore'
  BY <1>1, CoreStays
<1> QED
  BY <1>2, <1>3, PTL DEF OverridesSpec

LEMMA TakenInTime == OverridesCore => TakesWhenNew
BY DEF OverridesCore, TableTypes, InTime, TakesWhenNew

LEMMA GlobsMatchHere == GlobsMatch
<1>1. Patterns \cup SoundNames \subseteq Seq(STRING)
  BY OverridesAssumption, Zenon DEF OverridesAssumption
<1>2. \A pattern \in Patterns, text \in SoundNames : pattern \in Seq(STRING) /\ text \in Seq(STRING)
  BY <1>1
<1>3. \A pattern \in Patterns, text \in SoundNames : GlobMatch(pattern, text) = Splits(pattern, text)
  BY <1>2, GlobMatchIsSplits, Zenon
<1> QED
  BY <1>3, Zenon DEF GlobsMatch

\* After a poll a sound plays with what the rules that stand, its entity and the calls for it ask for, and a
\* sound takes an expectation at the poll that first hears it or never, whatever EvaluateRules has cached and
\* WithEntry has made room for; the matcher of the rules' globs finds every match.
THEOREM OverridesSafety == OverridesSpec => []OverridesInv
<1>1. OverridesCore => OverridesInv
  BY TakenInTime, GlobsMatchHere DEF OverridesInv, OverridesCore
<1> QED
  BY <1>1, CoreHolds, PTL
===============================================================================
