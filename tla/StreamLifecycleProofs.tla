----------------------- MODULE StreamLifecycleProofs -----------------------
(* Proofs about the life of a streamed source, for every set of sources, every *)
(* capacity of the queues and every number of streams, samples and frames.     *)
EXTENDS StreamLifecycle, FiniteSetTheorems, TLAPS

-----------------------------------------------------------------------------
(* Commands, queues and what they hold                                     *)

\* A command is an Add or a Remove of one source, and says which.
LEMMA CommandFacts ==
  /\ \A s \in Sources : Add(s) \in Commands /\ Remove(s) \in Commands
  /\ \A s : Add(s).type = "Add" /\ Add(s).source = s /\ Remove(s).type = "Remove" /\ Remove(s).source = s
  /\ \A s, t : Add(s) # Remove(t) /\ (s # t => Add(s) # Add(t) /\ Remove(s) # Remove(t))
  /\ \A c \in Commands :
       c.source \in Sources
       /\ ((c = Add(c.source) /\ c.type = "Add") \/ (c = Remove(c.source) /\ c.type = "Remove"))
<1>1. \A s : Add(s).type = "Add" /\ Add(s).source = s /\ Remove(s).type = "Remove" /\ Remove(s).source = s
  BY DEF Add, Remove
<1>2. \A s \in Sources : Add(s) \in Commands /\ Remove(s) \in Commands
  BY DEF Commands
<1>3. \A c \in Commands : \E s \in Sources : c = Add(s) \/ c = Remove(s)
  BY DEF Commands
<1>4. \A s, t : Add(s) # Remove(t) /\ (s # t => Add(s) # Add(t) /\ Remove(s) # Remove(t))
  <2> TAKE s, t
  <2>1. "Add" # "Remove"
    OBVIOUS
  <2> QED
    BY <1>1, <2>1
<1>5. ASSUME NEW c \in Commands
      PROVE  c.source \in Sources /\ ((c = Add(c.source) /\ c.type = "Add") \/ (c = Remove(c.source) /\ c.type = "Remove"))
  <2>1. PICK s \in Sources : c = Add(s) \/ c = Remove(s)
    BY <1>3
  <2> QED
    BY <1>1, <2>1
<1> QED
  BY <1>1, <1>2, <1>4, <1>5

\* Pushing to a queue that has room adds one item.
LEMMA AppendFacts ==
  ASSUME NEW S, NEW q \in Seq(S), NEW x \in S
  PROVE  /\ Append(q, x) \in Seq(S) /\ Len(Append(q, x)) = Len(q) + 1
         /\ Items(Append(q, x)) = Items(q) \union {x}
<1>1. Append(q, x) \in Seq(S) /\ Len(Append(q, x)) = Len(q) + 1
  OBVIOUS
<1>2. ASSUME NEW y PROVE y \in Items(Append(q, x)) <=> y \in Items(q) \union {x}
  <2>1. ASSUME y \in Items(Append(q, x)) PROVE y \in Items(q) \union {x}
    <3>1. PICK i \in DOMAIN Append(q, x) : y = Append(q, x)[i]
      BY <2>1 DEF Items
    <3>2. CASE i = Len(q) + 1
      BY <3>1, <3>2
    <3>3. CASE i \in 1 .. Len(q)
      BY <3>1, <3>3 DEF Items
    <3> QED
      BY <1>1, <3>1, <3>2, <3>3
  <2>2. ASSUME y \in Items(q) PROVE y \in Items(Append(q, x))
    <3>1. PICK i \in DOMAIN q : y = q[i]
      BY <2>2 DEF Items
    <3>2. i \in DOMAIN Append(q, x) /\ Append(q, x)[i] = y
      BY <3>1
    <3> QED
      BY <3>2 DEF Items
  <2>3. x \in Items(Append(q, x))
    <3>1. Len(q) + 1 \in DOMAIN Append(q, x) /\ Append(q, x)[Len(q) + 1] = x
      OBVIOUS
    <3> QED
      BY <3>1 DEF Items
  <2> QED
    BY <2>1, <2>2, <2>3
<1> QED
  BY <1>1, <1>2

\* A push that may be refused adds the item or changes nothing.
LEMMA PushedFacts ==
  ASSUME NEW S, NEW q \in Seq(S), NEW x \in S, NEW n \in Nat, Len(q) <= n
  PROVE  /\ Pushed(q, n, x) \in Seq(S) /\ Len(Pushed(q, n, x)) <= n
         /\ Len(q) < n => Items(Pushed(q, n, x)) = Items(q) \union {x}
         /\ Len(q) = n => Pushed(q, n, x) = q
<1>1. Append(q, x) \in Seq(S) /\ Len(Append(q, x)) = Len(q) + 1 /\ Items(Append(q, x)) = Items(q) \union {x}
  BY AppendFacts
<1>2. Len(q) \in Nat
  OBVIOUS
<1> QED
  BY <1>1, <1>2 DEF Pushed

\* Popping takes the head and leaves the rest in order.
LEMMA TailFacts ==
  ASSUME NEW S, NEW q \in Seq(S), q # <<>>
  PROVE  /\ Head(q) \in S /\ Head(q) \in Items(q)
         /\ Tail(q) \in Seq(S) /\ Len(Tail(q)) = Len(q) - 1
         /\ Items(q) = {Head(q)} \union Items(Tail(q))
         /\ \A i \in DOMAIN Tail(q) : i + 1 \in DOMAIN q /\ Tail(q)[i] = q[i + 1]
<1>1. Head(q) \in S /\ Tail(q) \in Seq(S) /\ Len(Tail(q)) = Len(q) - 1 /\ Head(q) = q[1] /\ 1 \in DOMAIN q
  OBVIOUS
<1>2. \A i \in DOMAIN Tail(q) : i + 1 \in DOMAIN q /\ Tail(q)[i] = q[i + 1]
  OBVIOUS
<1>3. \A i \in DOMAIN q : i = 1 \/ (i - 1 \in DOMAIN Tail(q) /\ Tail(q)[i - 1] = q[i])
  OBVIOUS
<1>4. Head(q) \in Items(q)
  BY <1>1 DEF Items
<1>5. Items(Tail(q)) \subseteq Items(q)
  BY <1>2 DEF Items
<1>6. Items(q) \subseteq {Head(q)} \union Items(Tail(q))
  BY <1>1, <1>3 DEF Items
<1> QED
  BY <1>1, <1>2, <1>4, <1>5, <1>6

\* An empty queue holds nothing; a queue holds what it may hold.
LEMMA ItemsFacts ==
  /\ Items(<<>>) = {}
  /\ \A S : \A q \in Seq(S) : Items(q) \subseteq S /\ Len(q) \in Nat
<1>1. Items(<<>>) = {}
  BY DEF Items
<1>2. ASSUME NEW S, NEW q \in Seq(S) PROVE Items(q) \subseteq S /\ Len(q) \in Nat
  BY DEF Items
<1> QED
  BY <1>1, <1>2

\* The order of a queue outlives a push and a pop.
LEMMA OrderAppend ==
  ASSUME NEW q \in Seq(Commands), NEW c \in Commands, AddComesFirst(q),
         c.type = "Add" => c.source \notin {d.source : d \in Items(q)}
  PROVE  AddComesFirst(Append(q, c))
<1> DEFINE p == Append(q, c)
<1>1. /\ DOMAIN p = 1 .. Len(q) + 1 /\ DOMAIN q = 1 .. Len(q) /\ Len(q) \in Nat
      /\ p[Len(q) + 1] = c /\ \A i \in 1 .. Len(q) : p[i] = q[i]
  OBVIOUS
<1> HIDE DEF p
<1>2. ASSUME NEW i \in DOMAIN p, NEW j \in DOMAIN p, i < j, p[j].type = "Add" PROVE p[i].source # p[j].source
  <2>1. i \in DOMAIN q /\ p[i] = q[i] /\ q[i] \in Items(q)
    BY <1>1, <1>2 DEF Items
  <2>2. CASE j \in DOMAIN q
    BY <1>1, <1>2, <2>1, <2>2 DEF AddComesFirst
  <2>3. CASE j \notin DOMAIN q
    <3>1. p[j] = c
      BY <1>1, <2>3
    <3> QED
      BY <1>2, <2>1, <3>1
  <2> QED
    BY <2>2, <2>3
<1> QED
  BY <1>2 DEF AddComesFirst, p

LEMMA OrderPushed ==
  ASSUME NEW q \in Seq(Commands), NEW c \in Commands, AddComesFirst(q), NEW n,
         c.type = "Add" => c.source \notin {d.source : d \in Items(q)}
  PROVE  AddComesFirst(Pushed(q, n, c))
BY OrderAppend DEF Pushed

LEMMA OrderTail ==
  ASSUME NEW q \in Seq(Commands), q # <<>>, AddComesFirst(q)
  PROVE  /\ AddComesFirst(Tail(q))
         /\ Add(Head(q).source) \notin Items(Tail(q))
<1>1. \A i \in DOMAIN Tail(q) : i \in Nat \ {0} /\ i + 1 \in DOMAIN q /\ Tail(q)[i] = q[i + 1]
  BY TailFacts
<1>2. AddComesFirst(Tail(q))
  BY <1>1 DEF AddComesFirst
<1>3. ASSUME NEW i \in DOMAIN Tail(q) PROVE Tail(q)[i] # Add(Head(q).source)
  <2>1. 1 \in DOMAIN q /\ Head(q) = q[1] /\ 1 < i + 1
    BY <1>1
  <2>2. q[i + 1].type = "Add" => Head(q).source # q[i + 1].source
    BY <1>1, <2>1 DEF AddComesFirst
  <2> QED
    BY <1>1, <2>2, CommandFacts
<1> QED
  BY <1>2, <1>3 DEF Items

-----------------------------------------------------------------------------
(* The last reference                                                      *)

\* FreeOn frees what nobody holds any more, and nothing else.
LEMMA Freeing ==
  ASSUME TypeOK, NEW t \in {"game", "audio", "sim"}, FreeOn(t), created' \subseteq Sources
  PROVE  /\ freed' \in [Sources -> {None, "game", "audio", "sim"}]
         /\ HeldUntilFreed'
         /\ \A s \in Sources : \/ freed'[s] = freed[s]
                               \/ freed'[s] = t /\ freed[s] = None /\ s \in created' /\ ~Held(s)'
<1>1. freed \in [Sources -> {None, "game", "audio", "sim"}] /\ t # None
  BY DEF TypeOK, None
<1> HIDE DEF None
<1>2. \A s \in Sources : freed'[s] = IF freed[s] = None /\ s \in created' /\ ~Held(s)' THEN t ELSE freed[s]
  BY DEF FreeOn
<1>3. freed' \in [Sources -> {None, "game", "audio", "sim"}]
  BY <1>1, <1>2 DEF FreeOn
<1>4. HeldUntilFreed'
  BY <1>1, <1>2 DEF HeldUntilFreed
<1> QED
  BY <1>2, <1>3, <1>4
\* Nothing is in hand between two frames.
LEMMA HandFacts ==
  /\ NothingInHand \in [source : Sources \union {None}, hasData : BOOLEAN, retiring : Sources \union {None}]
  /\ NothingInHand.source = None /\ NothingInHand.hasData = FALSE /\ NothingInHand.retiring = None
BY DEF NothingInHand

\* Each part of the invariant speaks of some of the variables only.
heldVars == <<bridge, audioStreams, audioReleased, audioCommands, inHand, simStreams, simReleased, simCommands>>

LEMMA PartsKept ==
  /\ HandleGoesFirst /\ UNCHANGED <<simulated, simStreams>> => HandleGoesFirst'
  /\ FreedElsewhereOnlyWhenRefused /\ UNCHANGED <<freed, refused>> => FreedElsewhereOnlyWhenRefused'
  /\ FinishedIsFinal /\ UNCHANGED <<renderFinished, audioStreams>> => FinishedIsFinal'
  /\ DownIsEmpty /\ UNCHANGED <<gamePc, created, freed>> => DownIsEmpty'
  /\ /\ SourcesExist
     /\ UNCHANGED <<bridge, toCheck, audioStreams, simStreams, renderFinished, refused, created, audioCommands,
                    simCommands, inHand, audioReleased>>
     => SourcesExist'
  /\ /\ CommandOrder
     /\ UNCHANGED <<audioCommands, simCommands, audioStreams, renderFinished, simStreams, inHand, audioReleased>>
     => CommandOrder'
  /\ FrameOrder /\ UNCHANGED <<inHand, audioPc, toRender, audioStreams>> => FrameOrder'
  /\ /\ ThreadPhases
     /\ UNCHANGED <<audioRunning, gamePc, audioPc, bridge, simPc, audioReleased, simReleased, toCheck, audioCommands,
                    audioStreams, simRunning, simCommands, simStreams>>
     => ThreadPhases'
  /\ HeldUntilFreed /\ UNCHANGED <<heldVars, created, freed>> => HeldUntilFreed'
  /\ ForgottenIsStopped /\ UNCHANGED <<audioStreams, audioCommands, bridge, stop>> => ForgottenIsStopped'
  /\ EndsAreAnnounced /\ UNCHANGED <<heldVars, simRunning, lost, refused>> => EndsAreAnnounced'
  /\ FadesInOrder /\ UNCHANGED <<audioStreams, stop, gain, silent, eos, inHand, pcm>> => FadesInOrder'
<1>1. UNCHANGED heldVars =>
        \A s : (Held(s)' <=> Held(s)) /\ (HeldByAudio(s)' <=> HeldByAudio(s)) /\ (InSim(s)' <=> InSim(s))
  BY DEF heldVars, Held, HeldByAudio, HeldBySim, InSim
<1>2. HeldUntilFreed /\ UNCHANGED <<heldVars, created, freed>> => HeldUntilFreed'
  BY <1>1 DEF HeldUntilFreed
<1>3. EndsAreAnnounced /\ UNCHANGED <<heldVars, simRunning, lost, refused>> => EndsAreAnnounced'
  BY <1>1 DEF EndsAreAnnounced, Announcements, RefusedByAudio, heldVars
<1>4. /\ SourcesExist
      /\ UNCHANGED <<bridge, toCheck, audioStreams, simStreams, renderFinished, refused, created, audioCommands,
                     simCommands, inHand, audioReleased>>
      => SourcesExist'
  BY DEF SourcesExist
<1>5. /\ CommandOrder
      /\ UNCHANGED <<audioCommands, simCommands, audioStreams, renderFinished, simStreams, inHand, audioReleased>>
      => CommandOrder'
  BY DEF CommandOrder
<1>6. /\ ThreadPhases
      /\ UNCHANGED <<audioRunning, gamePc, audioPc, bridge, simPc, audioReleased, simReleased, toCheck, audioCommands,
                     audioStreams, simRunning, simCommands, simStreams>>
      => ThreadPhases'
  BY DEF ThreadPhases
<1>7. FrameOrder /\ UNCHANGED <<inHand, audioPc, toRender, audioStreams>> => FrameOrder'
  BY DEF FrameOrder
<1>8. FadesInOrder /\ UNCHANGED <<audioStreams, stop, gain, silent, eos, inHand, pcm>> => FadesInOrder'
  BY DEF FadesInOrder
<1>9. ForgottenIsStopped /\ UNCHANGED <<audioStreams, audioCommands, bridge, stop>> => ForgottenIsStopped'
  BY DEF ForgottenIsStopped
<1> QED
  BY <1>2, <1>3, <1>4, <1>5, <1>6, <1>7, <1>8, <1>9
  DEF HandleGoesFirst, FreedElsewhereOnlyWhenRefused, FinishedIsFinal, DownIsEmpty

-----------------------------------------------------------------------------
(* Steps of the game thread                                                *)

GameMove ==
  BeginTick \/ BridgesTicked \/ AudioDrained \/ SimDrained \/ BeginShutdown \/ StopAudio \/ StopSimulation \/ ThreadsStopped

\* With the bridge empty, both threads ended and both release queues drained,
\* nobody holds a source.
LEMMA NobodyHolds ==
  ASSUME LifecycleAssumption, TypeOK, SourcesExist, FrameOrder, ThreadPhases, ~audioRunning, gamePc = "drainSim",
         simReleased = <<>>, NEW s \in Sources
  PROVE  ~Held(s)
<1>1. /\ bridge = {} /\ audioStreams = {} /\ simStreams = {} /\ audioCommands = <<>> /\ simCommands = <<>>
      /\ audioReleased = <<>> /\ simReleased = <<>> /\ inHand = NothingInHand
  BY DEF ThreadPhases, FrameOrder
<1>2. inHand.retiring # s
  BY <1>1, HandFacts DEF LifecycleAssumption, None
<1> QED
  BY <1>1, <1>2, ItemsFacts DEF Held, HeldByAudio, HeldBySim

\* The steps that only move the game thread on start or stop threads in the order of Shutdown.
LEMMA GameMoveStep == ASSUME LifecycleAssumption, StreamInv, GameMove PROVE StreamInv'
<1> USE DEF StreamInv
<1>1. /\ UNCHANGED <<stop, eos, renderFinished, pcm, bridge, audioPc, audioCommands, audioReleased, audioStreams, toRender,
                     gain, silent, inHand, simPc, simCommands, simReleased, simStreams, simulated>>
      /\ UNCHANGED <<created, freed, refused, lost>>
      /\ toCheck' \subseteq bridge \union toCheck /\ (simRunning' => simRunning)
  BY DEF GameMove, BeginTick, BridgesTicked, AudioDrained, SimDrained, BeginShutdown, StopAudio, StopSimulation,
    ThreadsStopped, GoTo, flagVars, gameVars, audioVars, simVars
<1>2. HandleGoesFirst' /\ FreedElsewhereOnlyWhenRefused' /\ FinishedIsFinal' /\ CommandOrder' /\ FrameOrder'
      /\ ForgottenIsStopped' /\ FadesInOrder'
  BY <1>1, PartsKept
<1>3. UNCHANGED heldVars
  BY <1>1 DEF heldVars
<1>4. HeldUntilFreed'
  BY <1>1, <1>3, PartsKept
<1>5. SourcesExist'
  BY <1>1 DEF SourcesExist
<1>6. EndsAreAnnounced'
  BY <1>1 DEF EndsAreAnnounced, InSim, Announcements, HeldByAudio, RefusedByAudio
<1>7. TypeOK'
  BY ZenonT(30), <1>1 DEF TypeOK, GameMove, BeginTick, BridgesTicked, AudioDrained, SimDrained, BeginShutdown, StopAudio,
    StopSimulation, ThreadsStopped, GoTo
<1>8. ThreadPhases'
  <2>1. CASE BeginTick \/ BridgesTicked \/ BeginShutdown \/ StopAudio
    BY <1>1, <2>1 DEF ThreadPhases, BeginTick, BridgesTicked, BeginShutdown, StopAudio, GoTo
  <2>2. CASE AudioDrained \/ SimDrained
    BY <1>1, <2>2 DEF ThreadPhases, AudioDrained, SimDrained, GoTo
  <2>3. CASE StopSimulation \/ ThreadsStopped
    BY <1>1, <2>3 DEF ThreadPhases, StopSimulation, ThreadsStopped, GoTo
  <2> QED
    BY <2>1, <2>2, <2>3 DEF GameMove
<1>9. DownIsEmpty'
  <2>1. CASE SimDrained /\ ~audioRunning
    <3>1. \A s \in Sources : ~Held(s)
      BY <2>1, NobodyHolds DEF SimDrained
    <3>2. created \subseteq Sources
      BY DEF TypeOK
    <3> QED
      BY <1>1, <3>1, <3>2 DEF HeldUntilFreed, DownIsEmpty
  <2>2. CASE ~(SimDrained /\ ~audioRunning)
    <3>1. gamePc' # "down"
      BY <2>2 DEF GameMove, BeginTick, BridgesTicked, AudioDrained, SimDrained, BeginShutdown, StopAudio,
        StopSimulation, ThreadsStopped, GoTo
    <3> QED
      BY <3>1 DEF DownIsEmpty
  <2> QED
    BY <2>1, <2>2
<1> QED
  BY <1>2, <1>4, <1>5, <1>6, <1>7, <1>8, <1>9

\* Samples are written to a stream whose end is not known yet.
LEMMA WriteFloatStep == ASSUME LifecycleAssumption, StreamInv, NEW s \in Sources, WriteFloat(s) PROVE StreamInv'
<1> USE DEF StreamInv
<1>1. /\ UNCHANGED <<stop, eos, renderFinished, gamePc, bridge, toCheck, audioRunning, audioPc, audioCommands>>
      /\ UNCHANGED <<audioReleased, audioStreams, toRender, gain, silent, inHand, simRunning, simPc, simCommands>>
      /\ UNCHANGED <<simReleased, simStreams, simulated, created, freed, refused, lost>>
  BY DEF WriteFloat, flagVars, gameVars, audioVars, simVars
<1>2. UNCHANGED heldVars
  BY <1>1 DEF heldVars
<1>3. HandleGoesFirst' /\ FreedElsewhereOnlyWhenRefused' /\ FinishedIsFinal' /\ DownIsEmpty' /\ SourcesExist'
      /\ CommandOrder' /\ FrameOrder' /\ ThreadPhases' /\ HeldUntilFreed' /\ ForgottenIsStopped' /\ EndsAreAnnounced'
  BY <1>1, <1>2, PartsKept
<1>4. pcm' \in [Sources -> 0..MaxPcm] /\ s \notin eos /\ \A r \in Sources \ {s} : pcm'[r] = pcm[r]
  <2>1. MaxPcm \in Nat /\ pcm \in [Sources -> 0..MaxPcm]
    BY DEF LifecycleAssumption, TypeOK
  <2>2. pcm[s] \in 0..MaxPcm /\ pcm[s] + 1 \in 0..MaxPcm
    BY <2>1 DEF WriteFloat
  <2> QED
    BY <2>1, <2>2 DEF WriteFloat
<1>5. TypeOK'
  BY ZenonT(30), <1>1, <1>4 DEF TypeOK
<1>6. FadesInOrder'
  BY <1>1, <1>4 DEF FadesInOrder, TypeOK
<1> QED
  BY <1>3, <1>5, <1>6

\* Finish makes the end of a stream known, which nothing takes back.
LEMMA FinishStep == ASSUME LifecycleAssumption, StreamInv, NEW s \in Sources, Finish(s) PROVE StreamInv'
<1> USE DEF StreamInv
<1>1. /\ UNCHANGED <<stop, renderFinished, pcm, gamePc, bridge, toCheck, audioRunning, audioPc, audioCommands>>
      /\ UNCHANGED <<audioReleased, audioStreams, toRender, gain, silent, inHand, simRunning, simPc, simCommands>>
      /\ UNCHANGED <<simReleased, simStreams, simulated, created, freed, refused, lost>>
      /\ eos' = eos \union {s}
  BY DEF Finish, gameVars, audioVars, simVars
<1>2. UNCHANGED heldVars
  BY <1>1 DEF heldVars
<1>3. HandleGoesFirst' /\ FreedElsewhereOnlyWhenRefused' /\ FinishedIsFinal' /\ DownIsEmpty' /\ SourcesExist'
      /\ CommandOrder' /\ FrameOrder' /\ ThreadPhases' /\ HeldUntilFreed' /\ ForgottenIsStopped' /\ EndsAreAnnounced'
  BY <1>1, <1>2, PartsKept
<1>4. TypeOK'
  BY ZenonT(30), <1>1 DEF TypeOK
<1>5. FadesInOrder'
  BY <1>1 DEF FadesInOrder
<1> QED
  BY <1>3, <1>4, <1>5

\* The queues and their bounds, as the facts about queues take them.
LEMMA QueueTypes ==
  ASSUME LifecycleAssumption, TypeOK
  PROVE  /\ audioCommands \in Seq(Commands) /\ Len(audioCommands) <= AudioCapacity /\ AudioCapacity \in Nat \ {0}
         /\ simCommands \in Seq(Commands) /\ Len(simCommands) <= SimCapacity /\ SimCapacity \in Nat \ {0}
         /\ audioReleased \in Seq(Sources) /\ Len(audioReleased) <= ReleaseCapacity
         /\ simReleased \in Seq(Sources) /\ Len(simReleased) <= ReleaseCapacity /\ ReleaseCapacity \in Nat \ {0}
BY DEF LifecycleAssumption, TypeOK

\* A new source is known to nobody before CreateStream, and comes first in both queues.
LEMMA CreateStreamStep == ASSUME LifecycleAssumption, StreamInv, NEW s \in Sources, CreateStream(s) PROVE StreamInv'
<1> USE DEF StreamInv
<1>1. /\ UNCHANGED <<stop, eos, renderFinished, pcm, gamePc, toCheck, audioRunning, audioPc, audioReleased>>
      /\ UNCHANGED <<audioStreams, toRender, gain, silent, inHand, simRunning, simPc, simReleased, simStreams>>
      /\ UNCHANGED <<simulated, refused, lost>>
      /\ gamePc = "lua" /\ s \notin created /\ created' = created \union {s} /\ FreeOn("game")
  BY DEF CreateStream, flagVars, audioVars, simVars
<1>q. /\ audioCommands \in Seq(Commands) /\ Len(audioCommands) <= AudioCapacity /\ AudioCapacity \in Nat
      /\ simCommands \in Seq(Commands) /\ Len(simCommands) <= SimCapacity /\ SimCapacity \in Nat
      /\ Add(s) \in Commands /\ Add(s).source = s /\ Add(s).type = "Add"
      /\ \A r \in Sources : Remove(r) # Add(s) /\ (r # s => Add(r) # Add(s))
      /\ \A c \in Items(audioCommands) \union Items(simCommands) : c.source # s
  BY <1>1, QueueTypes, CommandFacts DEF SourcesExist
<1>2. \/ UNCHANGED <<audioCommands, simCommands, bridge>>
      \/ /\ bridge' = bridge \union {s}
         /\ audioCommands' \in Seq(Commands) /\ Len(audioCommands') <= AudioCapacity /\ AddComesFirst(audioCommands')
         /\ Items(audioCommands') = Items(audioCommands) \union {Add(s)}
         /\ simCommands' \in Seq(Commands) /\ Len(simCommands') <= SimCapacity /\ AddComesFirst(simCommands')
         /\ \/ UNCHANGED simCommands
            \/ simRunning /\ Items(simCommands') = Items(simCommands) \union {Add(s)}
  <2>1. CASE Len(audioCommands) < AudioCapacity
    <3>1. /\ audioCommands' = Append(audioCommands, Add(s)) /\ bridge' = bridge \union {s}
          /\ simCommands' = IF simRunning THEN Pushed(simCommands, SimCapacity, Add(s)) ELSE simCommands
      BY <2>1 DEF CreateStream
    <3>2. /\ audioCommands' \in Seq(Commands) /\ Len(audioCommands') <= AudioCapacity
          /\ Items(audioCommands') = Items(audioCommands) \union {Add(s)}
      BY <1>q, <2>1, <3>1, AppendFacts
    <3>3. AddComesFirst(audioCommands')
      BY <1>q, <3>1, OrderAppend DEF CommandOrder
    <3>4. /\ Pushed(simCommands, SimCapacity, Add(s)) \in Seq(Commands)
          /\ Len(Pushed(simCommands, SimCapacity, Add(s))) <= SimCapacity
          /\ \/ Pushed(simCommands, SimCapacity, Add(s)) = simCommands
             \/ Items(Pushed(simCommands, SimCapacity, Add(s))) = Items(simCommands) \union {Add(s)}
      BY <1>q, PushedFacts, ItemsFacts DEF Pushed
    <3>5. AddComesFirst(Pushed(simCommands, SimCapacity, Add(s)))
      BY <1>q, OrderPushed DEF CommandOrder
    <3> QED
      BY <1>q, <3>1, <3>2, <3>3, <3>4, <3>5 DEF CommandOrder
  <2>2. CASE ~(Len(audioCommands) < AudioCapacity)
    BY <2>2 DEF CreateStream
  <2> QED
    BY <2>1, <2>2
<1>3. s \notin bridge \union toCheck \union audioStreams \union simStreams \union renderFinished \union refused
  BY <1>1 DEF SourcesExist
<1>4. HandleGoesFirst' /\ FinishedIsFinal' /\ FrameOrder' /\ FadesInOrder'
  BY <1>1, PartsKept
<1>5. /\ created' \subseteq Sources /\ freed' \in [Sources -> {None, "game", "audio", "sim"}] /\ HeldUntilFreed'
      /\ \A r \in Sources : freed'[r] = freed[r] \/ freed'[r] = "game"
  <2>1. created' \subseteq Sources
    BY <1>1 DEF TypeOK
  <2> QED
    BY <1>1, <2>1, Freeing
<1>6. TypeOK'
  BY <1>1, <1>2, <1>5, <1>q DEF TypeOK
<1>7. FreedElsewhereOnlyWhenRefused' /\ DownIsEmpty'
  BY <1>1, <1>5 DEF FreedElsewhereOnlyWhenRefused, DownIsEmpty, TypeOK
<1>8. SourcesExist'
  BY <1>1, <1>2, <1>q DEF SourcesExist
<1>9. CommandOrder'
  BY <1>1, <1>2, <1>3, <1>q DEF CommandOrder
<1>10. ThreadPhases'
  BY <1>1, <1>2 DEF ThreadPhases
<1>11. ForgottenIsStopped'
  BY <1>1, <1>2, <1>q DEF ForgottenIsStopped
<1>12. EndsAreAnnounced'
  <2>1. \A r \in Sources \ {s} :
          /\ (HeldByAudio(r)' <=> HeldByAudio(r)) /\ (InSim(r)' <=> InSim(r)) /\ (r \in bridge' <=> r \in bridge)
          /\ Remove(r) \in Items(simCommands') <=> Remove(r) \in Items(simCommands)
    BY <1>1, <1>2, <1>q DEF HeldByAudio, InSim
  <2>2. InSim(s)' => s \in bridge' /\ HeldByAudio(s)'
    BY <1>1, <1>2, <1>3, <1>q DEF HeldByAudio, InSim
  <2>3. lost \in [Sources -> Nat] /\ refused \subseteq Sources
    BY DEF TypeOK
  <2>4. \A r \in Sources :
          InSim(r)' /\ simRunning' /\ Remove(r) \notin Items(simCommands')
          => Announcements(r)' <= lost'[r] + RefusedByAudio(r)'
    <3>1. Announcements(s)' <= lost'[s] + RefusedByAudio(s)' \/ ~InSim(s)'
      BY <1>1, <2>2, <2>3 DEF Announcements, RefusedByAudio
    <3>2. ASSUME NEW r \in Sources \ {s}
          PROVE  Announcements(r)' = Announcements(r) /\ lost'[r] + RefusedByAudio(r)' = lost[r] + RefusedByAudio(r)
      BY <1>1, <2>1 DEF Announcements, RefusedByAudio
    <3> QED
      BY <1>1, <2>1, <3>1, <3>2 DEF EndsAreAnnounced
  <2>5. \A r \in refused' : InSim(r)' => ~HeldByAudio(r)'
    BY <1>1, <1>3, <2>1, <2>3 DEF EndsAreAnnounced
  <2> QED
    BY <2>4, <2>5 DEF EndsAreAnnounced
<1> QED
  BY <1>4, <1>5, <1>6, <1>7, <1>8, <1>9, <1>10, <1>11, <1>12

\* What SendRemove does to the simulation thread's queue and to the count of
\* refused commands.
LEMMA SendRemoveFacts ==
  ASSUME LifecycleAssumption, TypeOK, AddComesFirst(simCommands), NEW s \in Sources, SendRemove(s)
  PROVE  /\ simCommands' \in Seq(Commands) /\ Len(simCommands') <= SimCapacity /\ AddComesFirst(simCommands')
         /\ lost' \in [Sources -> Nat] /\ \A r \in Sources : lost'[r] >= lost[r]
         /\ \/ Items(simCommands') = Items(simCommands) \union {Remove(s)} /\ simRunning
            \/ /\ simCommands' = simCommands
               /\ simRunning /\ HeldBySim(s) => lost'[s] = lost[s] + 1
<1>1. simCommands \in Seq(Commands) /\ Len(simCommands) <= SimCapacity /\ SimCapacity \in Nat
  BY QueueTypes
<1>2. Remove(s) \in Commands /\ Remove(s).type # "Add"
  BY CommandFacts
<1> DEFINE p == Pushed(simCommands, SimCapacity, Remove(s))
<1>3. /\ p \in Seq(Commands) /\ Len(p) <= SimCapacity
      /\ Len(simCommands) < SimCapacity => Items(p) = Items(simCommands) \union {Remove(s)}
      /\ Len(simCommands) = SimCapacity => p = simCommands
  BY <1>1, <1>2, PushedFacts
<1>4. AddComesFirst(p)
  BY <1>1, <1>2, OrderPushed
<1>5. lost \in [Sources -> Nat] /\ Len(simCommands) \in Nat
  BY <1>1, ItemsFacts DEF TypeOK
<1> HIDE DEF p
<1>6. simCommands' = (IF simRunning THEN p ELSE simCommands)
      /\ lost' = [lost EXCEPT ![s] = IF simRunning /\ HeldBySim(s) /\ Len(simCommands) = SimCapacity THEN @ + 1 ELSE @]
  BY DEF SendRemove, p
<1>7. lost' \in [Sources -> Nat] /\ \A r \in Sources : lost'[r] >= lost[r]
  BY <1>5, <1>6
<1>8. simRunning /\ HeldBySim(s) /\ Len(simCommands) = SimCapacity => lost'[s] = lost[s] + 1
  BY <1>5, <1>6
<1>9. CASE simRunning /\ Len(simCommands) < SimCapacity
  BY <1>3, <1>4, <1>6, <1>7, <1>9
<1>10. CASE simRunning /\ Len(simCommands) = SimCapacity
  BY <1>1, <1>3, <1>6, <1>7, <1>8, <1>10
<1>11. CASE ~simRunning
  BY <1>1, <1>6, <1>7, <1>11
<1> QED
  BY <1>1, <1>5, <1>9, <1>10, <1>11

\* unregisterSource, from Lua, from the tick and from Shutdown.
LEMMA UnregisterStep ==
  ASSUME LifecycleAssumption, StreamInv, NEW s \in Sources, Unregister(s), s \in bridge \union toCheck,
         gamePc \in {"lua", "bridges", "destroyAll"}, UNCHANGED gamePc, toCheck' \subseteq toCheck
  PROVE  StreamInv'
<1> USE DEF StreamInv
<1>1. /\ UNCHANGED <<eos, renderFinished, audioRunning, audioPc, audioReleased, audioStreams, toRender, gain, silent>>
      /\ UNCHANGED <<inHand, simRunning, simPc, simReleased, simStreams, simulated, created, refused>>
      /\ stop' = stop \union {s} /\ bridge' = bridge \ {s} /\ pcm' = [pcm EXCEPT ![s] = 0]
      /\ audioCommands' = Pushed(audioCommands, AudioCapacity, Remove(s)) /\ SendRemove(s) /\ FreeOn("game")
  BY DEF Unregister, Forget, audioVars, simVars
<1>q. /\ Remove(s) \in Commands /\ Remove(s).source = s /\ Remove(s).type # "Add" /\ \A r : Add(r) # Remove(s)
      /\ \A r : r # s => Remove(r) # Remove(s)
  BY CommandFacts
<1>2. /\ audioCommands' \in Seq(Commands) /\ Len(audioCommands') <= AudioCapacity /\ AddComesFirst(audioCommands')
      /\ \/ Items(audioCommands') = Items(audioCommands) \union {Remove(s)}
         \/ audioCommands' = audioCommands
  <2>1. audioCommands \in Seq(Commands) /\ Len(audioCommands) <= AudioCapacity /\ AudioCapacity \in Nat
        /\ Len(audioCommands) \in Nat
    BY QueueTypes, ItemsFacts
  <2>2. AddComesFirst(audioCommands')
    BY <1>1, <1>q, <2>1, OrderPushed DEF CommandOrder
  <2> DEFINE p == Pushed(audioCommands, AudioCapacity, Remove(s))
  <2>3. /\ p \in Seq(Commands) /\ Len(p) <= AudioCapacity
        /\ Len(audioCommands) < AudioCapacity => Items(p) = Items(audioCommands) \union {Remove(s)}
        /\ Len(audioCommands) = AudioCapacity => p = audioCommands
    BY <1>q, <2>1, PushedFacts
  <2> QED
    BY <1>1, <2>1, <2>2, <2>3
<1>3. /\ simCommands' \in Seq(Commands) /\ Len(simCommands') <= SimCapacity /\ AddComesFirst(simCommands')
      /\ lost' \in [Sources -> Nat] /\ \A r \in Sources : lost'[r] >= lost[r]
      /\ \/ Items(simCommands') = Items(simCommands) \union {Remove(s)} /\ simRunning
         \/ /\ simCommands' = simCommands
            /\ simRunning /\ HeldBySim(s) => lost'[s] = lost[s] + 1
  BY <1>1, SendRemoveFacts DEF CommandOrder
<1>4. s \in created
  BY DEF SourcesExist
<1>5. HandleGoesFirst' /\ FinishedIsFinal' /\ FrameOrder'
  BY <1>1, PartsKept
<1>6. /\ freed' \in [Sources -> {None, "game", "audio", "sim"}] /\ HeldUntilFreed'
      /\ \A r \in Sources : freed'[r] = freed[r] \/ freed'[r] = "game"
  <2>1. created' \subseteq Sources
    BY <1>1 DEF TypeOK
  <2> QED
    BY <1>1, <2>1, Freeing
<1>7. pcm' \in [Sources -> 0..MaxPcm] /\ \A r \in Sources \ {s} : pcm'[r] = pcm[r]
  BY <1>1 DEF TypeOK, LifecycleAssumption
<1>8. TypeOK'
  BY ZenonT(30), <1>1, <1>2, <1>3, <1>6, <1>7 DEF TypeOK
<1>9. FreedElsewhereOnlyWhenRefused' /\ DownIsEmpty'
  BY <1>1, <1>6 DEF FreedElsewhereOnlyWhenRefused, DownIsEmpty, TypeOK
<1>10. SourcesExist'
  BY <1>1, <1>2, <1>3, <1>4, <1>q DEF SourcesExist
<1>11. CommandOrder'
  BY <1>1, <1>2, <1>3, <1>q DEF CommandOrder
<1>12. ThreadPhases'
  BY <1>1, <1>2, <1>3 DEF ThreadPhases
<1>13. ForgottenIsStopped'
  BY <1>1, <1>2, <1>q DEF ForgottenIsStopped
<1>14. FadesInOrder'
  BY <1>1, <1>7 DEF FadesInOrder, TypeOK
<1>15. EndsAreAnnounced'
  <2>1. \A r \in Sources : (HeldByAudio(r)' <=> HeldByAudio(r)) /\ (InSim(r)' <=> InSim(r))
    BY <1>1, <1>2, <1>3, <1>q DEF HeldByAudio, InSim
  <2>2. lost \in [Sources -> Nat] /\ \A r \in Sources : RefusedByAudio(r)' = RefusedByAudio(r) /\ RefusedByAudio(r) \in Nat
    BY <1>1 DEF TypeOK, RefusedByAudio
  <2>3. ASSUME NEW r \in Sources, InSim(r)', simRunning', Remove(r) \notin Items(simCommands')
        PROVE  Announcements(r)' <= lost'[r] + RefusedByAudio(r)'
    <3>1. Announcements(r) <= lost[r] + RefusedByAudio(r)
      BY <1>1, <1>3, <2>1, <2>3 DEF EndsAreAnnounced
    <3>2. CASE r = s
      <4>1. lost'[s] = lost[s] + 1
        BY <1>1, <1>3, <2>1, <2>3, <3>2 DEF InSim, HeldBySim
      <4>2. Announcements(s)' <= Announcements(s) + 1 /\ Announcements(s)' \in Nat /\ Announcements(s) \in Nat
        BY <2>1 DEF Announcements
      <4> QED
        BY <2>2, <3>1, <3>2, <4>1, <4>2
    <3>3. CASE r # s
      <4>1. Announcements(r)' = Announcements(r) /\ Announcements(r) \in Nat
        BY <1>1, <2>1, <3>3 DEF Announcements
      <4> QED
        BY <1>3, <2>2, <3>1, <4>1
    <3> QED
      BY <3>2, <3>3
  <2>4. \A r \in refused' : InSim(r)' => ~HeldByAudio(r)'
    BY <1>1, <2>1 DEF EndsAreAnnounced, TypeOK
  <2> QED
    BY <2>3, <2>4 DEF EndsAreAnnounced
<1> QED
  BY <1>5, <1>6, <1>8, <1>9, <1>10, <1>11, <1>12, <1>13, <1>14, <1>15

\* What the audio thread has handed back is announced to the simulation thread and dropped.
LEMMA DrainAudioReleasedStep == ASSUME LifecycleAssumption, StreamInv, DrainAudioReleased PROVE StreamInv'
<1> USE DEF StreamInv
<1>0. audioReleased \in Seq(Sources) /\ Len(audioReleased) <= ReleaseCapacity /\ ReleaseCapacity \in Nat
      /\ Len(audioReleased) \in Nat /\ audioReleased # <<>>
  BY QueueTypes, ItemsFacts DEF DrainAudioReleased
<1>s. PICK s \in Sources : s = Head(audioReleased)
  BY <1>0
<1>1. /\ UNCHANGED <<stop, eos, renderFinished, pcm, gamePc, bridge, toCheck, audioRunning, audioPc, audioCommands>>
      /\ UNCHANGED <<audioStreams, toRender, gain, silent, inHand, simRunning, simPc, simReleased, simStreams>>
      /\ UNCHANGED <<simulated, created, refused>>
      /\ gamePc = "drainAudio" /\ audioReleased # <<>> /\ audioReleased' = Tail(audioReleased)
      /\ SendRemove(s) /\ FreeOn("game")
  BY <1>s DEF DrainAudioReleased, PopAudioReleased, flagVars, gameVars, audioVars, simVars
<1>2. /\ s \in Sources /\ s \in Items(audioReleased)
      /\ audioReleased' \in Seq(Sources) /\ Len(audioReleased') <= ReleaseCapacity
      /\ Items(audioReleased) = {s} \union Items(audioReleased')
  BY <1>0, <1>1, <1>s, TailFacts
<1>q. /\ Remove(s) \in Commands /\ Remove(s).source = s /\ Remove(s).type # "Add" /\ \A r : Add(r) # Remove(s)
      /\ \A r : r # s => Remove(r) # Remove(s)
  BY <1>2, CommandFacts
<1>3. /\ simCommands' \in Seq(Commands) /\ Len(simCommands') <= SimCapacity /\ AddComesFirst(simCommands')
      /\ lost' \in [Sources -> Nat] /\ \A r \in Sources : lost'[r] >= lost[r]
      /\ \/ Items(simCommands') = Items(simCommands) \union {Remove(s)} /\ simRunning
         \/ /\ simCommands' = simCommands
            /\ simRunning /\ HeldBySim(s) => lost'[s] = lost[s] + 1
  BY <1>1, <1>2, SendRemoveFacts DEF CommandOrder
<1>4. s \in created
  BY <1>2 DEF SourcesExist
<1>5. HandleGoesFirst' /\ FinishedIsFinal' /\ FrameOrder' /\ ForgottenIsStopped' /\ FadesInOrder'
  BY <1>1, PartsKept
<1>6. /\ freed' \in [Sources -> {None, "game", "audio", "sim"}] /\ HeldUntilFreed'
      /\ \A r \in Sources : freed'[r] = freed[r] \/ freed'[r] = "game"
  <2>1. created' \subseteq Sources
    BY <1>1 DEF TypeOK
  <2> QED
    BY <1>1, <2>1, Freeing
<1>7. TypeOK'
  BY <1>1, <1>2, <1>3, <1>6 DEF TypeOK
<1>8. FreedElsewhereOnlyWhenRefused' /\ DownIsEmpty'
  BY <1>1, <1>6 DEF FreedElsewhereOnlyWhenRefused, DownIsEmpty, TypeOK
<1>9. SourcesExist'
  BY <1>1, <1>2, <1>3, <1>4, <1>q DEF SourcesExist
<1>10. CommandOrder'
  BY <1>1, <1>2, <1>3, <1>q DEF CommandOrder
<1>11. ThreadPhases'
  BY <1>1, <1>2, <1>3 DEF ThreadPhases
<1>12. EndsAreAnnounced'
  <2>1. \A r \in Sources : (HeldByAudio(r)' => HeldByAudio(r)) /\ (InSim(r)' <=> InSim(r))
    BY <1>1, <1>2, <1>3, <1>q DEF HeldByAudio, InSim
  <2>2. lost \in [Sources -> Nat] /\ \A r \in Sources : RefusedByAudio(r)' = RefusedByAudio(r) /\ RefusedByAudio(r) \in Nat
    BY <1>1 DEF TypeOK, RefusedByAudio
  <2>3. ASSUME NEW r \in Sources, InSim(r)', simRunning', Remove(r) \notin Items(simCommands')
        PROVE  Announcements(r)' <= lost'[r] + RefusedByAudio(r)'
    <3>1. Announcements(r) <= lost[r] + RefusedByAudio(r)
      BY <1>1, <1>3, <2>1, <2>3 DEF EndsAreAnnounced
    <3>2. CASE r = s
      <4>1. lost'[s] = lost[s] + 1
        BY <1>1, <1>3, <2>1, <2>3, <3>2 DEF InSim, HeldBySim
      <4>2. Announcements(s)' <= Announcements(s) + 1 /\ Announcements(s)' \in Nat /\ Announcements(s) \in Nat
        BY <1>1 DEF Announcements
      <4> QED
        BY <1>2, <2>2, <3>1, <3>2, <4>1, <4>2
    <3>3. CASE r # s
      <4>1. HeldByAudio(r)' <=> HeldByAudio(r)
        BY <1>1, <1>2, <3>3 DEF HeldByAudio
      <4>2. Announcements(r)' = Announcements(r) /\ Announcements(r) \in Nat
        BY <1>1, <4>1 DEF Announcements
      <4> QED
        BY <1>3, <2>2, <3>1, <4>2
    <3> QED
      BY <3>2, <3>3
  <2>4. \A r \in refused' : InSim(r)' => ~HeldByAudio(r)'
    BY <1>1, <2>1 DEF EndsAreAnnounced, TypeOK
  <2> QED
    BY <2>3, <2>4 DEF EndsAreAnnounced
<1> QED
  BY <1>5, <1>6, <1>7, <1>8, <1>9, <1>10, <1>11, <1>12

\* What the simulation thread has handed back is dropped.
LEMMA DrainSimReleasedStep == ASSUME LifecycleAssumption, StreamInv, DrainSimReleased PROVE StreamInv'
<1> USE DEF StreamInv
<1>1. /\ UNCHANGED <<stop, eos, renderFinished, pcm, gamePc, bridge, toCheck, audioRunning, audioPc, audioCommands>>
      /\ UNCHANGED <<audioReleased, audioStreams, toRender, gain, silent, inHand, simRunning, simPc, simCommands>>
      /\ UNCHANGED <<simStreams, simulated, created, refused, lost>>
      /\ gamePc = "drainSim" /\ simReleased # <<>> /\ simReleased' = Tail(simReleased) /\ FreeOn("game")
  BY DEF DrainSimReleased, flagVars, gameVars, audioVars, simVars
<1>2. simReleased' \in Seq(Sources) /\ Len(simReleased') <= ReleaseCapacity
  <2>1. simReleased \in Seq(Sources) /\ Len(simReleased) <= ReleaseCapacity /\ ReleaseCapacity \in Nat
        /\ Len(simReleased) \in Nat
    BY QueueTypes, ItemsFacts
  <2> QED
    BY <1>1, <2>1, TailFacts
<1>3. HandleGoesFirst' /\ FinishedIsFinal' /\ SourcesExist' /\ CommandOrder' /\ FrameOrder' /\ ForgottenIsStopped'
      /\ FadesInOrder'
  BY <1>1, PartsKept
<1>4. /\ freed' \in [Sources -> {None, "game", "audio", "sim"}] /\ HeldUntilFreed'
      /\ \A r \in Sources : freed'[r] = freed[r] \/ freed'[r] = "game"
  <2>1. created' \subseteq Sources
    BY <1>1 DEF TypeOK
  <2> QED
    BY <1>1, <2>1, Freeing
<1>5. TypeOK'
  BY <1>1, <1>2, <1>4 DEF TypeOK
<1>6. FreedElsewhereOnlyWhenRefused' /\ DownIsEmpty'
  BY <1>1, <1>4 DEF FreedElsewhereOnlyWhenRefused, DownIsEmpty, TypeOK
<1>7. ThreadPhases'
  BY <1>1 DEF ThreadPhases
<1>8. EndsAreAnnounced'
  BY <1>1 DEF EndsAreAnnounced, InSim, Announcements, HeldByAudio, RefusedByAudio
<1> QED
  BY <1>3, <1>4, <1>5, <1>6, <1>7, <1>8

-----------------------------------------------------------------------------
(* Steps of the audio thread                                               *)

audioKept == <<stop, eos, gamePc, bridge, toCheck, simPc, simStreams, simulated, audioRunning, simRunning, simCommands,
               simReleased, created, lost>>

\* A source handed back is in the release queue, or refused by it.
LEMMA HandBackFacts ==
  ASSUME LifecycleAssumption, TypeOK, NEW s \in Sources, HandBack(s)
  PROVE  /\ audioReleased' \in Seq(Sources) /\ Len(audioReleased') <= ReleaseCapacity /\ refused' \subseteq Sources
         /\ \/ Items(audioReleased') = Items(audioReleased) \union {s} /\ refused' = refused
            \/ audioReleased' = audioReleased /\ refused' = refused \union {s}
<1>1. audioReleased \in Seq(Sources) /\ Len(audioReleased) <= ReleaseCapacity /\ ReleaseCapacity \in Nat
      /\ Len(audioReleased) \in Nat /\ refused \subseteq Sources
  BY QueueTypes, ItemsFacts DEF TypeOK
<1> DEFINE p == Pushed(audioReleased, ReleaseCapacity, s)
<1>2. /\ p \in Seq(Sources) /\ Len(p) <= ReleaseCapacity
      /\ Len(audioReleased) < ReleaseCapacity => Items(p) = Items(audioReleased) \union {s}
      /\ Len(audioReleased) = ReleaseCapacity => p = audioReleased
  BY <1>1, PushedFacts
<1>3. audioReleased' = p
      /\ refused' = (IF Len(audioReleased) = ReleaseCapacity THEN refused \union {s} ELSE refused)
  BY DEF HandBack
<1> QED
  BY <1>1, <1>2, <1>3

\* The audio thread lets go of one source, which goes back or is refused.
LEMMA HandBackKeeps ==
  ASSUME LifecycleAssumption, StreamInv, NEW s \in Sources, HandBack(s), FreeOn("audio"), UNCHANGED audioKept,
         s \in created, HeldByAudio(s), s \notin Items(audioReleased),
         \A r \in Sources \ {s} : HeldByAudio(r)' <=> HeldByAudio(r),
         s \notin Items(audioReleased') => ~HeldByAudio(s)'
  PROVE  /\ audioReleased' \in Seq(Sources) /\ Len(audioReleased') <= ReleaseCapacity /\ refused' \subseteq Sources
         /\ freed' \in [Sources -> {None, "game", "audio", "sim"}]
         /\ FreedElsewhereOnlyWhenRefused' /\ HeldUntilFreed' /\ EndsAreAnnounced'
         /\ refused' \subseteq refused \union {s} /\ Items(audioReleased') \subseteq Items(audioReleased) \union {s}
<1> USE DEF StreamInv
<1>1. /\ audioReleased' \in Seq(Sources) /\ Len(audioReleased') <= ReleaseCapacity /\ refused' \subseteq Sources
      /\ \/ Items(audioReleased') = Items(audioReleased) \union {s} /\ refused' = refused
         \/ audioReleased' = audioReleased /\ refused' = refused \union {s}
  BY HandBackFacts
<1>2. /\ freed' \in [Sources -> {None, "game", "audio", "sim"}] /\ HeldUntilFreed'
      /\ \A r \in Sources : \/ freed'[r] = freed[r]
                            \/ freed'[r] = "audio" /\ freed[r] = None /\ r \in created' /\ ~Held(r)'
  <2>1. created' \subseteq Sources
    BY DEF TypeOK, audioKept
  <2> QED
    BY <2>1, Freeing
<1>3. \A r : (HeldBySim(r)' <=> HeldBySim(r)) /\ (InSim(r)' <=> InSim(r))
  BY DEF HeldBySim, InSim, audioKept
<1>4. HeldByAudio(s)' \/ s \in refused'
  BY <1>1 DEF HeldByAudio
<1>5. FreedElsewhereOnlyWhenRefused'
  <2>1. ASSUME NEW r \in Sources, freed'[r] \in {"audio", "sim"} PROVE r \in refused'
    <3>1. CASE freed'[r] = freed[r]
      BY <1>1, <2>1, <3>1 DEF FreedElsewhereOnlyWhenRefused
    <3>2. CASE freed[r] = None /\ r \in created' /\ ~Held(r)'
      <4>1. Held(r)
        BY <3>2 DEF HeldUntilFreed, audioKept
      <4>2. r = s
        BY <1>3, <3>2, <4>1 DEF Held, audioKept
      <4> QED
        BY <1>4, <3>2, <4>2 DEF Held
    <3> QED
      BY <1>2, <3>1, <3>2
  <2> QED
    BY <2>1 DEF FreedElsewhereOnlyWhenRefused
<1>6. EndsAreAnnounced'
  <2>1. lost \in [Sources -> Nat] /\ lost' = lost /\ \A r \in Sources : RefusedByAudio(r) \in Nat
    BY DEF TypeOK, RefusedByAudio, audioKept
  <2>2. ASSUME NEW r \in Sources, InSim(r)', simRunning', Remove(r) \notin Items(simCommands')
        PROVE  Announcements(r)' <= lost'[r] + RefusedByAudio(r)'
    <3>1. Announcements(r) <= lost[r] + RefusedByAudio(r)
      BY <1>3, <2>2 DEF EndsAreAnnounced, audioKept
    <3>2. CASE r = s
      <4>1. s \notin refused
        BY <1>3, <2>2, <3>2 DEF EndsAreAnnounced
      <4>2. Announcements(s)' \in Nat /\ Announcements(s) \in Nat
            /\ (Announcements(s)' = Announcements(s) \/ (Announcements(s)' = Announcements(s) + 1 /\ ~HeldByAudio(s)'))
        BY DEF Announcements, audioKept
      <4>3. RefusedByAudio(s) = 0 /\ RefusedByAudio(s)' \in {0, 1} /\ (~HeldByAudio(s)' => RefusedByAudio(s)' = 1)
        BY <1>4, <4>1 DEF RefusedByAudio
      <4> QED
        BY <2>1, <3>1, <3>2, <4>2, <4>3
    <3>3. CASE r # s
      <4>1. Announcements(r)' = Announcements(r) /\ Announcements(r) \in Nat
        BY <3>3 DEF Announcements, audioKept
      <4>2. RefusedByAudio(r)' = RefusedByAudio(r)
        BY <1>1, <3>3 DEF RefusedByAudio
      <4> QED
        BY <2>1, <3>1, <4>1, <4>2
    <3> QED
      BY <3>2, <3>3
  <2>3. ASSUME NEW r \in refused', InSim(r)' PROVE ~HeldByAudio(r)'
    <3>1. CASE r = s
      BY <1>1, <1>3, <2>3, <3>1 DEF EndsAreAnnounced
    <3>2. CASE r # s
      BY <1>1, <1>3, <2>3, <3>2 DEF EndsAreAnnounced
    <3> QED
      BY <3>1, <3>2
  <2> QED
    BY <2>2, <2>3 DEF EndsAreAnnounced
<1> QED
  BY <1>1, <1>2, <1>5, <1>6

\* Room for one more stream is room for the one that is added.
LEMMA RoomFacts ==
  ASSUME LifecycleAssumption, NEW S, IsFiniteSet(S), Cardinality(S) <= MaxStreams, NEW s
  PROVE  /\ HasRoom(S) => IsFiniteSet(S \union {s}) /\ Cardinality(S \union {s}) <= MaxStreams
         /\ IsFiniteSet(S \ {s}) /\ Cardinality(S \ {s}) <= MaxStreams
<1>1. Cardinality(S) \in Nat /\ MaxStreams \in Nat
  BY FS_CardinalityType DEF LifecycleAssumption
<1>2. IsFiniteSet(S \union {s}) /\ Cardinality(S \union {s}) <= Cardinality(S) + 1 /\ Cardinality(S \union {s}) \in Nat
  <2>1. IsFiniteSet(S \union {s})
        /\ Cardinality(S \union {s}) = IF s \in S THEN Cardinality(S) ELSE Cardinality(S) + 1
    BY FS_AddElement
  <2> QED
    BY <1>1, <2>1
<1>3. IsFiniteSet(S \ {s}) /\ Cardinality(S \ {s}) <= Cardinality(S) /\ Cardinality(S \ {s}) \in Nat
  BY <1>1, FS_RemoveElement, FS_CardinalityType
<1> QED
  BY <1>1, <1>2, <1>3 DEF HasRoom

\* A counter of a stream that is reset, with its bound.
LEMMA ResetFacts ==
  ASSUME NEW n \in Nat, NEW f \in [Sources -> 0..n], NEW s \in Sources
  PROVE  /\ [f EXCEPT ![s] = 0] \in [Sources -> 0..n] /\ [f EXCEPT ![s] = 0][s] = 0
         /\ \A r \in Sources \ {s} : [f EXCEPT ![s] = 0][r] = f[r]
OBVIOUS

\* An Add of the audio thread's queue.
LEMMA DrainAddStep ==
  ASSUME LifecycleAssumption, StreamInv, NEW s \in Sources, audioPc \in {"drain", "teardown"}, audioCommands # <<>>,
         Head(audioCommands) = Add(s), DrainAdd(s)
  PROVE  StreamInv'
<1> USE DEF StreamInv
<1>1. /\ UNCHANGED <<audioKept, pcm, audioPc, toRender, inHand>> /\ audioCommands' = Tail(audioCommands) /\ FreeOn("audio")
  BY DEF DrainAdd, AudioKeeps, gameVars, simVars, audioKept
<1>2. UNCHANGED <<stop, eos, gamePc, bridge, toCheck, simPc, simStreams, simulated, audioRunning, simRunning,
                  simCommands, simReleased, created, lost>>
  BY <1>1 DEF audioKept
<1>q. /\ audioCommands' \in Seq(Commands) /\ Len(audioCommands') <= AudioCapacity /\ AddComesFirst(audioCommands')
      /\ Items(audioCommands) = {Add(s)} \union Items(audioCommands') /\ Add(s) \notin Items(audioCommands')
      /\ \A r : r # s => Add(r) # Add(s)
  <2>1. audioCommands \in Seq(Commands) /\ Len(audioCommands) <= AudioCapacity /\ AudioCapacity \in Nat
        /\ Len(audioCommands) \in Nat
    BY QueueTypes, ItemsFacts
  <2>2. AddComesFirst(Tail(audioCommands)) /\ Add(s) \notin Items(Tail(audioCommands))
    BY <2>1, OrderTail, CommandFacts DEF CommandOrder
  <2> QED
    BY <1>1, <2>1, <2>2, TailFacts, CommandFacts
<1>3. /\ s \in created /\ s \notin audioStreams \union renderFinished /\ s \in bridge \union stop
      /\ s \notin Items(audioReleased) /\ inHand = NothingInHand /\ toRender = {} /\ inHand.source = None
      /\ inHand.retiring = None /\ None \notin Sources
  <2>1. inHand = NothingInHand /\ toRender = {}
    BY DEF FrameOrder
  <2>2. Add(s) \in Items(audioCommands) /\ Add(s).source = s
    BY <1>q, CommandFacts
  <2> QED
    BY <2>1, <2>2, HandFacts DEF SourcesExist, CommandOrder, ForgottenIsStopped, LifecycleAssumption, None
<1>4. audioPc' # "ended" /\ audioPc # "ended"
  BY <1>1
<1>5. HandleGoesFirst' /\ FrameOrder' 
  BY <1>1, <1>2, <1>3 DEF HandleGoesFirst, FrameOrder
<1>6. HeldByAudio(s)
  BY <1>q DEF HeldByAudio
<1>7. CASE HasRoom(audioStreams)
  <2>1. /\ audioStreams' = audioStreams \union {s} /\ UNCHANGED <<renderFinished, audioReleased, refused>>
        /\ gain' = [gain EXCEPT ![s] = 0] /\ silent' = [silent EXCEPT ![s] = 0]
    BY <1>7 DEF DrainAdd
  <2>2. \A r \in Sources : HeldByAudio(r)' <=> HeldByAudio(r)
    BY <1>1, <1>q, <2>1 DEF HeldByAudio
  <2>3. \A r \in Sources : (HeldBySim(r)' <=> HeldBySim(r)) /\ (InSim(r)' <=> InSim(r)) /\ (Held(r)' <=> Held(r))
    BY <1>2, <2>2 DEF HeldBySim, InSim, Held
  <2>4. /\ freed' \in [Sources -> {None, "game", "audio", "sim"}] /\ HeldUntilFreed' /\ \A r \in Sources : freed'[r] = freed[r]
    <3>1. created' \subseteq Sources
      BY <1>2 DEF TypeOK
    <3> QED
      BY <1>1, <1>2, <2>3, <3>1, Freeing DEF HeldUntilFreed
  <2>5. /\ gain' \in [Sources -> 0..FadeFrames] /\ silent' \in [Sources -> 0..TailFrames] /\ silent'[s] = 0
        /\ \A r \in Sources \ {s} : gain'[r] = gain[r] /\ silent'[r] = silent[r]
    <3>1. gain \in [Sources -> 0..FadeFrames] /\ FadeFrames \in Nat /\ silent \in [Sources -> 0..TailFrames] /\ TailFrames \in Nat
      BY DEF TypeOK, LifecycleAssumption
    <3>2. gain' \in [Sources -> 0..FadeFrames] /\ \A r \in Sources \ {s} : gain'[r] = gain[r]
      BY <2>1, <3>1, ResetFacts
    <3>3. silent' \in [Sources -> 0..TailFrames] /\ silent'[s] = 0 /\ \A r \in Sources \ {s} : silent'[r] = silent[r]
      BY <2>1, <3>1, ResetFacts
    <3> QED
      BY <3>2, <3>3
  <2>6. IsFiniteSet(audioStreams') /\ Cardinality(audioStreams') <= MaxStreams
    BY <1>7, <2>1, RoomFacts DEF TypeOK
  <2>7. TypeOK'
    <3>1. audioStreams' \subseteq Sources /\ toRender' \subseteq audioStreams' /\ renderFinished' = renderFinished
          /\ audioReleased' = audioReleased /\ refused' = refused /\ pcm' = pcm /\ audioPc' = audioPc /\ inHand' = inHand
      BY <1>1, <2>1 DEF TypeOK
    <3> QED
      BY <1>2, <1>q, <2>4, <2>5, <2>6, <3>1 DEF TypeOK
  <2>8. FreedElsewhereOnlyWhenRefused' /\ FinishedIsFinal' /\ DownIsEmpty'
    BY SMTT(30), <1>2, <1>3, <2>1, <2>4 DEF FreedElsewhereOnlyWhenRefused, FinishedIsFinal, DownIsEmpty, TypeOK
  <2>9. SourcesExist'
    BY <1>1, <1>2, <1>q, <1>3, <2>1 DEF SourcesExist
  <2>10. CommandOrder'
    BY <1>1, <1>2, <1>q, <1>3, <2>1 DEF CommandOrder
  <2>11. ThreadPhases'
    BY <1>1, <1>2, <1>4, <2>1 DEF ThreadPhases
  <2>12. ForgottenIsStopped'
    BY <1>2, <1>q, <1>3, <2>1 DEF ForgottenIsStopped
  <2>13. EndsAreAnnounced'
    BY <1>2, <2>1, <2>2, <2>3 DEF EndsAreAnnounced, Announcements, RefusedByAudio, TypeOK
  <2>14. FadesInOrder'
    BY <1>1, <1>2, <1>3, <2>1, <2>5 DEF FadesInOrder, TypeOK
  <2> QED
    BY <1>5, <2>4, <2>7, <2>8, <2>9, <2>10, <2>11, <2>12, <2>13, <2>14
<1>8. CASE ~HasRoom(audioStreams)
  <2>1. renderFinished' = renderFinished \union {s} /\ HandBack(s) /\ UNCHANGED <<audioStreams, gain, silent>>
    BY <1>8 DEF DrainAdd
  <2>2. \A r \in Sources \ {s} : HeldByAudio(r)' <=> HeldByAudio(r)
    <3>1. \A r \in Sources \ {s} : r \in Items(audioReleased') <=> r \in Items(audioReleased)
      BY <2>1, HandBackFacts
    <3> QED
      BY <1>1, <1>q, <2>1, <3>1 DEF HeldByAudio
  <2>3. s \notin Items(audioReleased') => ~HeldByAudio(s)'
    BY <1>1, <1>q, <1>3, <2>1 DEF HeldByAudio
  <2>4. /\ audioReleased' \in Seq(Sources) /\ Len(audioReleased') <= ReleaseCapacity /\ refused' \subseteq Sources
        /\ freed' \in [Sources -> {None, "game", "audio", "sim"}]
        /\ FreedElsewhereOnlyWhenRefused' /\ HeldUntilFreed' /\ EndsAreAnnounced'
        /\ refused' \subseteq refused \union {s} /\ Items(audioReleased') \subseteq Items(audioReleased) \union {s}
    BY <1>1, <1>3, <1>6, <2>1, <2>2, <2>3, HandBackKeeps
  <2>5. TypeOK'
    BY <1>1, <1>2, <1>q, <1>3, <2>1, <2>4 DEF TypeOK
  <2>6. FinishedIsFinal' /\ DownIsEmpty'
    BY <1>2, <1>3, <1>4, <2>1 DEF FinishedIsFinal, DownIsEmpty, ThreadPhases
  <2>7. SourcesExist'
    BY <1>1, <1>2, <1>q, <1>3, <2>1, <2>4 DEF SourcesExist
  <2>8. CommandOrder'
    BY <1>1, <1>2, <1>q, <1>3, <2>1, <2>4, ItemsFacts DEF CommandOrder
  <2>9. ThreadPhases'
    BY <1>1, <1>2, <1>4, <2>1 DEF ThreadPhases
  <2>10. ForgottenIsStopped'
    BY <1>2, <1>q, <2>1 DEF ForgottenIsStopped
  <2>11. FadesInOrder'
    BY <1>1, <1>2, <2>1, PartsKept
  <2> QED
    BY <1>5, <2>4, <2>5, <2>6, <2>7, <2>8, <2>9, <2>10, <2>11
<1> QED
  BY <1>7, <1>8

\* A Remove of the audio thread's queue: the stream it names is told to stop.
LEMMA DrainRemoveStep ==
  ASSUME LifecycleAssumption, StreamInv, NEW s \in Sources, audioPc \in {"drain", "teardown"}, audioCommands # <<>>,
         Head(audioCommands) = Remove(s), DrainRemove(s)
  PROVE  StreamInv'
<1> USE DEF StreamInv
<1>1. /\ UNCHANGED <<eos, renderFinished, pcm, gamePc, bridge, toCheck, audioRunning, audioPc, audioReleased>>
      /\ UNCHANGED <<audioStreams, toRender, gain, silent, inHand, simRunning, simPc, simCommands, simReleased>>
      /\ UNCHANGED <<simStreams, simulated, created, freed, refused, lost>>
      /\ audioCommands' = Tail(audioCommands) /\ stop \subseteq stop' /\ stop' \subseteq stop \union {s}
  BY DEF DrainRemove, gameVars, audioVars, simVars
<1>2. /\ audioCommands' \in Seq(Commands) /\ Len(audioCommands') <= AudioCapacity /\ AddComesFirst(audioCommands')
      /\ Items(audioCommands) = {Remove(s)} \union Items(audioCommands') /\ \A r : Add(r) # Remove(s)
  <2>1. audioCommands \in Seq(Commands) /\ Len(audioCommands) <= AudioCapacity /\ AudioCapacity \in Nat
        /\ Len(audioCommands) \in Nat
    BY QueueTypes, ItemsFacts
  <2>2. AddComesFirst(Tail(audioCommands))
    BY <2>1, OrderTail DEF CommandOrder
  <2> QED
    BY <1>1, <2>1, <2>2, TailFacts, CommandFacts
<1>3. HandleGoesFirst' /\ FreedElsewhereOnlyWhenRefused' /\ FinishedIsFinal' /\ DownIsEmpty' /\ FrameOrder'
  BY <1>1, PartsKept
<1>4. \A r : (HeldByAudio(r)' <=> HeldByAudio(r)) /\ (Held(r)' <=> Held(r)) /\ (InSim(r)' <=> InSim(r))
  BY <1>1, <1>2 DEF HeldByAudio, HeldBySim, Held, InSim
<1>5. HeldUntilFreed' /\ EndsAreAnnounced'
  BY <1>1, <1>4 DEF HeldUntilFreed, EndsAreAnnounced, Announcements, RefusedByAudio
<1>6. TypeOK'
  BY <1>1, <1>2 DEF TypeOK
<1>7. SourcesExist' /\ CommandOrder' /\ ForgottenIsStopped'
  BY <1>1, <1>2 DEF SourcesExist, CommandOrder, ForgottenIsStopped
<1>8. ThreadPhases'
  BY <1>1 DEF ThreadPhases
<1>9. FadesInOrder'
  BY <1>1 DEF FadesInOrder
<1> QED
  BY <1>3, <1>5, <1>6, <1>7, <1>8, <1>9

\* A command of the audio thread adds its stream or tells it to stop.
LEMMA DrainCommandStep == ASSUME LifecycleAssumption, StreamInv, DrainCommand PROVE StreamInv'
<1>1. audioCommands \in Seq(Commands) /\ audioCommands # <<>> /\ audioPc \in {"drain", "teardown"}
  BY DEF StreamInv, TypeOK, DrainCommand
<1>2. PICK c \in Commands : c = Head(audioCommands)
  BY <1>1
<1>3. c.source \in Sources
      /\ ((c = Add(c.source) /\ c.type = "Add") \/ (c = Remove(c.source) /\ c.type = "Remove"))
  BY CommandFacts
<1>4. CASE c.type = "Add" /\ DrainAdd(c.source)
  BY <1>1, <1>2, <1>3, <1>4, DrainAddStep
<1>5. CASE c.type = "Remove" /\ DrainRemove(c.source)
  BY <1>1, <1>2, <1>3, <1>5, DrainRemoveStep
<1> QED
  BY <1>2, <1>4, <1>5 DEF DrainCommand

\* The steps of the audio thread that only move it through a frame.
LEMMA FrameMoveStep ==
  ASSUME LifecycleAssumption, StreamInv, BeginFrame \/ EndFrame \/ AudioEnds
  PROVE  StreamInv'
<1> USE DEF StreamInv
<1>1. /\ UNCHANGED <<stop, eos, renderFinished, pcm, gamePc, bridge, toCheck, audioRunning, audioCommands>>
      /\ UNCHANGED <<audioReleased, audioStreams, gain, silent, inHand, simRunning, simPc, simCommands, simReleased>>
      /\ UNCHANGED <<simStreams, simulated, created, freed, refused, lost>>
  BY DEF BeginFrame, EndFrame, AudioEnds, AudioKeeps, gameVars, simVars
<1>2. UNCHANGED heldVars
  BY <1>1 DEF heldVars
<1>3. HandleGoesFirst' /\ FreedElsewhereOnlyWhenRefused' /\ FinishedIsFinal' /\ DownIsEmpty' /\ SourcesExist'
      /\ CommandOrder' /\ HeldUntilFreed' /\ ForgottenIsStopped' /\ EndsAreAnnounced' /\ FadesInOrder'
  BY <1>1, <1>2, PartsKept
<1>4. /\ inHand = NothingInHand /\ inHand.source = None
      /\ audioPc' \in {"drain", "render", "teardown", "ended"} /\ toRender' \subseteq audioStreams
      /\ toRender' # {} => audioPc' = "render"
  BY HandFacts DEF BeginFrame, EndFrame, AudioEnds, FrameOrder, TypeOK
<1>5. TypeOK'
  BY <1>1, <1>4 DEF TypeOK
<1>6. FrameOrder'
  BY <1>1, <1>4 DEF FrameOrder
<1>7. ThreadPhases'
  <2>1. CASE BeginFrame
    BY <1>1, <2>1 DEF ThreadPhases, BeginFrame
  <2>2. CASE EndFrame
    BY <1>1, <2>2 DEF ThreadPhases, EndFrame
  <2>3. CASE AudioEnds
    BY <1>1, <2>3 DEF ThreadPhases, AudioEnds
  <2> QED
    BY <2>1, <2>2, <2>3
<1> QED
  BY <1>3, <1>5, <1>6, <1>7

\* What is read of a stream is taken in hand; without samples there were none at that moment.
LEMMA ReadStreamStep == ASSUME LifecycleAssumption, StreamInv, NEW s \in Sources, ReadStream(s) PROVE StreamInv'
<1> USE DEF StreamInv
<1>1. /\ UNCHANGED <<stop, eos, renderFinished, gamePc, bridge, toCheck, audioRunning, audioPc, audioCommands>>
      /\ UNCHANGED <<audioReleased, audioStreams, gain, silent, simRunning, simPc, simCommands, simReleased>>
      /\ UNCHANGED <<simStreams, simulated, created, freed, refused, lost>>
      /\ audioPc = "render" /\ inHand = NothingInHand /\ s \in toRender /\ toRender' = toRender \ {s}
  BY DEF ReadStream, AudioKeeps, gameVars, simVars
<1>2. /\ inHand.retiring = None /\ inHand'.retiring = None /\ inHand'.source = s
      /\ inHand'.hasData \in BOOLEAN /\ (~inHand'.hasData => ~(pcm[s] > 0))
      /\ inHand' \in [source : Sources \union {None}, hasData : BOOLEAN, retiring : Sources \union {None}]
  <2>1. inHand' = [source |-> s, hasData |-> pcm[s] > 0, retiring |-> None]
    BY DEF ReadStream
  <2>2. (pcm[s] > 0) \in BOOLEAN
    OBVIOUS
  <2> QED
    BY <1>1, <2>1, <2>2, HandFacts
<1>3. /\ pcm' \in [Sources -> 0..MaxPcm] /\ (~inHand'.hasData => pcm'[s] = 0)
      /\ \A r \in Sources \ {s} : pcm'[r] = pcm[r]
  <2>1. MaxPcm \in Nat /\ pcm \in [Sources -> 0..MaxPcm] /\ pcm[s] \in 0..MaxPcm
    BY DEF LifecycleAssumption, TypeOK
  <2>2. CASE pcm[s] > 0 /\ pcm' = [pcm EXCEPT ![s] = @ - 1]
    <3>1. pcm[s] - 1 \in 0..MaxPcm
      BY <2>1, <2>2
    <3> QED
      BY <1>2, <2>1, <2>2, <3>1
  <2>3. CASE UNCHANGED pcm
    BY <1>2, <2>1, <2>3
  <2> QED
    BY <2>2, <2>3 DEF ReadStream
<1>4. HandleGoesFirst' /\ FreedElsewhereOnlyWhenRefused' /\ FinishedIsFinal' /\ DownIsEmpty' /\ ThreadPhases'
      /\ ForgottenIsStopped'
  BY <1>1, PartsKept
<1>5. TypeOK'
  BY <1>1, <1>2, <1>3 DEF TypeOK
<1>6. SourcesExist' /\ CommandOrder'
  BY <1>1, <1>2 DEF SourcesExist, CommandOrder
<1>7. FrameOrder'
  BY <1>1, <1>2 DEF FrameOrder, TypeOK
<1>8. \A r : (HeldByAudio(r)' <=> HeldByAudio(r)) /\ (Held(r)' <=> Held(r)) /\ (InSim(r)' <=> InSim(r))
  BY <1>1, <1>2 DEF HeldByAudio, HeldBySim, Held, InSim
<1>9. HeldUntilFreed' /\ EndsAreAnnounced'
  BY <1>1, <1>8 DEF HeldUntilFreed, EndsAreAnnounced, Announcements, RefusedByAudio
<1>10. FadesInOrder'
  BY <1>1, <1>2, <1>3 DEF FadesInOrder, TypeOK
<1> QED
  BY <1>4, <1>5, <1>6, <1>7, <1>9, <1>10

\* A stream that ends in a frame leaves the streams and is in hand until it is handed back.
LEMMA RenderStreamStep == ASSUME LifecycleAssumption, StreamInv, RenderStream PROVE StreamInv'
<1> USE DEF StreamInv
<1>0. None \notin Sources /\ inHand.source # None /\ inHand.source \in audioStreams \ toRender /\ inHand.retiring = None
      /\ audioStreams \subseteq Sources /\ audioStreams \subseteq created
  BY DEF RenderStream, FrameOrder, LifecycleAssumption, None, TypeOK, SourcesExist
<1>s. PICK s \in Sources : s = inHand.source
  BY <1>0
<1>f. PICK finished \in BOOLEAN : finished <=> Ending(s) /\ gain[s] = 0
  OBVIOUS
<1>1. /\ UNCHANGED <<stop, eos, pcm, gamePc, bridge, toCheck, audioRunning, audioPc, audioCommands, audioReleased>>
      /\ UNCHANGED <<toRender, simRunning, simPc, simCommands, simReleased, simStreams, simulated, created, freed>>
      /\ UNCHANGED <<refused, lost>>
      /\ renderFinished' = (IF finished THEN renderFinished \union {s} ELSE renderFinished)
      /\ audioStreams' = (IF finished THEN audioStreams \ {s} ELSE audioStreams)
  BY <1>s, <1>f DEF RenderStream, AudioKeeps, Without, gameVars, simVars
<1>2. /\ inHand' \in [source : Sources \union {None}, hasData : BOOLEAN, retiring : Sources \union {None}]
      /\ inHand'.source = None /\ inHand'.retiring = IF finished THEN s ELSE None
  <2>1. inHand' = [NothingInHand EXCEPT !.retiring = IF finished THEN s ELSE None]
    BY <1>s, <1>f DEF RenderStream
  <2> QED
    BY <1>s, <2>1, HandFacts
<1>3. /\ gain' \in [Sources -> 0..FadeFrames] /\ silent' \in [Sources -> 0..TailFrames]
      /\ \A r \in Sources \ {s} : gain'[r] = gain[r] /\ silent'[r] = silent[r]
      /\ ~Ending(s) => gain'[s] > 0
  <2>1. /\ gain \in [Sources -> 0..FadeFrames] /\ FadeFrames \in Nat \ {0} /\ gain[s] \in 0..FadeFrames
        /\ silent \in [Sources -> 0..TailFrames] /\ TailFrames \in Nat \ {0} /\ silent[s] \in 0..TailFrames
    BY DEF TypeOK, LifecycleAssumption
  <2>2. gain' = [gain EXCEPT ![s] = IF Ending(s) THEN (IF @ > 0 THEN @ - 1 ELSE 0)
                                    ELSE IF @ < FadeFrames THEN @ + 1 ELSE @]
    BY <1>s DEF RenderStream
  <2>3. silent' = [silent EXCEPT ![s] = IF inHand.hasData \/ finished THEN 0
                                        ELSE IF @ < TailFrames THEN @ + 1 ELSE @]
    BY <1>s, <1>f DEF RenderStream
  <2>4. gain' \in [Sources -> 0..FadeFrames] /\ (\A r \in Sources \ {s} : gain'[r] = gain[r]) /\ (~Ending(s) => gain'[s] > 0)
    <3>1. (IF Ending(s) THEN (IF gain[s] > 0 THEN gain[s] - 1 ELSE 0)
           ELSE IF gain[s] < FadeFrames THEN gain[s] + 1 ELSE gain[s]) \in 0..FadeFrames
      BY <2>1
    <3> QED
      BY <2>1, <2>2, <3>1
  <2>5. silent' \in [Sources -> 0..TailFrames] /\ \A r \in Sources \ {s} : silent'[r] = silent[r]
    <3>1. (IF inHand.hasData \/ finished THEN 0
           ELSE IF silent[s] < TailFrames THEN silent[s] + 1 ELSE silent[s]) \in 0..TailFrames
      BY <2>1
    <3> QED
      BY <2>1, <2>3, <3>1
  <2> QED
    BY <2>4, <2>5
<1>4. s \in audioStreams /\ s \notin toRender /\ s \notin renderFinished /\ s \notin Items(audioReleased)
      /\ s \in created /\ Add(s) \notin Items(audioCommands)
  BY <1>0, <1>s DEF FinishedIsFinal, SourcesExist, CommandOrder
<1>5. IsFiniteSet(audioStreams') /\ Cardinality(audioStreams') <= MaxStreams
  BY <1>1, RoomFacts DEF TypeOK
<1>6. HandleGoesFirst' /\ FreedElsewhereOnlyWhenRefused' /\ DownIsEmpty'
  BY <1>1, PartsKept
<1>7. TypeOK'
  <2>1. audioStreams' \subseteq Sources /\ toRender' \subseteq audioStreams' /\ renderFinished' \subseteq Sources
    BY <1>1, <1>4 DEF TypeOK
  <2> QED
    BY <1>1, <1>2, <1>3, <1>5, <2>1 DEF TypeOK
<1>8. FinishedIsFinal'
  BY <1>1, <1>4 DEF FinishedIsFinal
<1>9. SourcesExist'
  BY <1>1, <1>2, <1>4 DEF SourcesExist
<1>10. CommandOrder'
  BY <1>0, <1>1, <1>2, <1>4, ItemsFacts DEF CommandOrder, TypeOK
<1>11. FrameOrder'
  <2>1. audioPc = "render"
    BY <1>0, HandFacts DEF FrameOrder
  <2> QED
    BY <1>1, <1>2, <2>1 DEF FrameOrder
<1>12. ThreadPhases'
  <2>1. audioPc # "ended"
    BY <1>4 DEF ThreadPhases
  <2> QED
    BY <1>1, <2>1 DEF ThreadPhases
<1>13. \A r \in Sources : (HeldByAudio(r)' <=> HeldByAudio(r)) /\ (Held(r)' <=> Held(r)) /\ (InSim(r)' <=> InSim(r))
  BY <1>0, <1>1, <1>2, <1>4 DEF HeldByAudio, HeldBySim, Held, InSim
<1>14. HeldUntilFreed' /\ EndsAreAnnounced'
  BY <1>1, <1>13 DEF HeldUntilFreed, EndsAreAnnounced, Announcements, RefusedByAudio, TypeOK
<1>15. ForgottenIsStopped'
  BY <1>1 DEF ForgottenIsStopped
<1>16. FadesInOrder'
  BY <1>0, <1>1, <1>2, <1>3 DEF FadesInOrder, Ending
<1> QED
  BY <1>6, <1>7, <1>8, <1>9, <1>10, <1>11, <1>12, <1>14, <1>15, <1>16

\* A stream in hand goes back or is refused.
LEMMA HandBackFinishedStep == ASSUME LifecycleAssumption, StreamInv, HandBackFinished PROVE StreamInv'
<1> USE DEF StreamInv
<1>0. None \notin Sources /\ inHand.retiring \in Sources
  BY DEF HandBackFinished, LifecycleAssumption, None, TypeOK
<1>s. PICK s \in Sources : s = inHand.retiring
  BY <1>0
<1>1. /\ UNCHANGED <<audioKept, renderFinished, pcm, audioPc, audioCommands, audioStreams, toRender, gain, silent>>
      /\ inHand' = NothingInHand /\ HandBack(s) /\ FreeOn("audio")
  BY <1>s DEF HandBackFinished, AudioKeeps, gameVars, simVars, audioKept
<1>2. UNCHANGED <<stop, eos, gamePc, bridge, toCheck, simPc, simStreams, simulated, audioRunning, simRunning,
                  simCommands, simReleased, created, lost>>
  BY <1>1 DEF audioKept
<1>3. /\ s \in renderFinished /\ s \in created /\ s \notin audioStreams /\ s \notin Items(audioReleased)
      /\ Add(s) \notin Items(audioCommands) /\ inHand'.source = None /\ inHand'.retiring = None
      /\ inHand' \in [source : Sources \union {None}, hasData : BOOLEAN, retiring : Sources \union {None}]
  BY <1>0, <1>1, <1>s, HandFacts DEF SourcesExist, FinishedIsFinal, CommandOrder
<1>p. audioPc = "render"
  BY <1>0, <1>s, HandFacts DEF FrameOrder
<1>4. \A r \in Sources \ {s} : HeldByAudio(r)' <=> HeldByAudio(r)
  <2>1. \A r \in Sources \ {s} : r \in Items(audioReleased') <=> r \in Items(audioReleased)
    BY <1>1, HandBackFacts
  <2> QED
    BY <1>0, <1>1, <1>3, <1>s, <2>1 DEF HeldByAudio
<1>5. (s \notin Items(audioReleased') => ~HeldByAudio(s)') /\ HeldByAudio(s)
  BY <1>0, <1>1, <1>3, <1>s DEF HeldByAudio
<1>6. /\ audioReleased' \in Seq(Sources) /\ Len(audioReleased') <= ReleaseCapacity /\ refused' \subseteq Sources
      /\ freed' \in [Sources -> {None, "game", "audio", "sim"}]
      /\ FreedElsewhereOnlyWhenRefused' /\ HeldUntilFreed' /\ EndsAreAnnounced'
      /\ refused' \subseteq refused \union {s} /\ Items(audioReleased') \subseteq Items(audioReleased) \union {s}
  BY <1>1, <1>3, <1>4, <1>5, HandBackKeeps
<1>7. TypeOK'
  BY <1>1, <1>2, <1>3, <1>6 DEF TypeOK
<1>8. HandleGoesFirst' /\ FinishedIsFinal' /\ ForgottenIsStopped'
  BY <1>1, <1>2, PartsKept
<1>9. DownIsEmpty'
  BY <1>2, <1>p DEF DownIsEmpty, ThreadPhases
<1>10. SourcesExist'
  BY <1>1, <1>2, <1>3, <1>6 DEF SourcesExist
<1>11. CommandOrder'
  BY <1>0, <1>1, <1>2, <1>3, <1>6, ItemsFacts DEF CommandOrder
<1>12. FrameOrder'
  BY <1>1, <1>3, <1>p DEF FrameOrder
<1>13. ThreadPhases'
  BY <1>1, <1>2, <1>p DEF ThreadPhases
<1>14. FadesInOrder'
  BY <1>0, <1>1, <1>2, <1>3 DEF FadesInOrder, TypeOK
<1> QED
  BY <1>6, <1>7, <1>8, <1>9, <1>10, <1>11, <1>12, <1>13, <1>14

\* The streams left when the audio thread ends are handed back one by one.
LEMMA AudioTeardownStep == ASSUME LifecycleAssumption, StreamInv, NEW s \in Sources, AudioTeardown(s) PROVE StreamInv'
<1> USE DEF StreamInv
<1>1. /\ UNCHANGED <<audioKept, pcm, audioPc, audioCommands, toRender, inHand>>
      /\ audioPc = "teardown" /\ s \in audioStreams /\ audioStreams' = audioStreams \ {s}
      /\ renderFinished' = renderFinished \union {s} /\ HandBack(s) /\ FreeOn("audio")
      /\ gain' = [gain EXCEPT ![s] = 0] /\ silent' = [silent EXCEPT ![s] = 0]
  BY DEF AudioTeardown, AudioKeeps, gameVars, simVars, audioKept
<1>2. UNCHANGED <<stop, eos, gamePc, bridge, toCheck, simPc, simStreams, simulated, audioRunning, simRunning,
                  simCommands, simReleased, created, lost>>
  BY <1>1 DEF audioKept
<1>3. /\ s \in created /\ s \notin renderFinished /\ s \notin Items(audioReleased) /\ Add(s) \notin Items(audioCommands)
      /\ inHand = NothingInHand /\ inHand.source = None /\ inHand.retiring = None /\ toRender = {} /\ None \notin Sources
  BY <1>1, HandFacts DEF SourcesExist, FinishedIsFinal, CommandOrder, FrameOrder, LifecycleAssumption, None
<1>4. \A r \in Sources \ {s} : HeldByAudio(r)' <=> HeldByAudio(r)
  <2>1. \A r \in Sources \ {s} : r \in Items(audioReleased') <=> r \in Items(audioReleased)
    BY <1>1, HandBackFacts
  <2> QED
    BY <1>1, <2>1 DEF HeldByAudio
<1>5. (s \notin Items(audioReleased') => ~HeldByAudio(s)') /\ HeldByAudio(s)
  BY <1>1, <1>3 DEF HeldByAudio
<1>6. /\ audioReleased' \in Seq(Sources) /\ Len(audioReleased') <= ReleaseCapacity /\ refused' \subseteq Sources
      /\ freed' \in [Sources -> {None, "game", "audio", "sim"}]
      /\ FreedElsewhereOnlyWhenRefused' /\ HeldUntilFreed' /\ EndsAreAnnounced'
      /\ refused' \subseteq refused \union {s} /\ Items(audioReleased') \subseteq Items(audioReleased) \union {s}
  BY <1>1, <1>3, <1>4, <1>5, HandBackKeeps
<1>7. /\ gain' \in [Sources -> 0..FadeFrames] /\ silent' \in [Sources -> 0..TailFrames]
      /\ \A r \in Sources \ {s} : gain'[r] = gain[r] /\ silent'[r] = silent[r]
  <2>1. gain \in [Sources -> 0..FadeFrames] /\ FadeFrames \in Nat /\ silent \in [Sources -> 0..TailFrames] /\ TailFrames \in Nat
    BY DEF TypeOK, LifecycleAssumption
  <2> QED
    BY <1>1, <2>1, ResetFacts
<1>8. IsFiniteSet(audioStreams') /\ Cardinality(audioStreams') <= MaxStreams
  BY <1>1, RoomFacts DEF TypeOK
<1>9. TypeOK'
  <2>1. audioStreams' \subseteq Sources /\ toRender' \subseteq audioStreams' /\ renderFinished' \subseteq Sources
    BY <1>1, <1>3 DEF TypeOK
  <2> QED
    BY <1>1, <1>2, <1>6, <1>7, <1>8, <2>1 DEF TypeOK
<1>10. HandleGoesFirst' /\ FrameOrder'
  BY <1>1, <1>2, <1>3 DEF HandleGoesFirst, FrameOrder
<1>11. FinishedIsFinal' /\ ForgottenIsStopped'
  BY <1>1, <1>2 DEF FinishedIsFinal, ForgottenIsStopped
<1>12. DownIsEmpty'
  BY <1>1, <1>2 DEF DownIsEmpty, ThreadPhases
<1>13. SourcesExist'
  BY <1>1, <1>2, <1>3, <1>6 DEF SourcesExist
<1>14. CommandOrder'
  BY <1>1, <1>2, <1>3, <1>6, ItemsFacts DEF CommandOrder
<1>15. ThreadPhases'
  BY <1>1, <1>2 DEF ThreadPhases
<1>16. FadesInOrder'
  BY <1>1, <1>2, <1>3, <1>7 DEF FadesInOrder, TypeOK
<1> QED
  BY <1>6, <1>9, <1>10, <1>11, <1>12, <1>13, <1>14, <1>15, <1>16

-----------------------------------------------------------------------------
(* Steps of the simulation thread                                          *)

simKept == <<stop, eos, renderFinished, pcm, gamePc, bridge, toCheck, audioPc, audioStreams, toRender, gain, silent, inHand,
             audioRunning, audioCommands, audioReleased, simRunning, created, lost>>

\* A step that takes a command or a stream of one source: what the simulation
\* thread lets go of goes back or is refused, and is then out of its hands.
LEMMA SimStepKeeps ==
  ASSUME LifecycleAssumption, StreamInv, NEW s \in Sources, UNCHANGED <<simKept, simPc>>, FreeOn("sim"),
         s \in created, simPc = "drain", simulated' \subseteq simStreams',
         simStreams' \subseteq Sources, IsFiniteSet(simStreams'), Cardinality(simStreams') <= MaxStreams,
         simCommands' \in Seq(Commands), Len(simCommands') <= SimCapacity, AddComesFirst(simCommands'),
         Items(simCommands') \subseteq Items(simCommands), Add(s) \notin Items(simCommands'),
         \A r \in Sources \ {s} : {Add(r), Remove(r)} \intersect Items(simCommands) \subseteq Items(simCommands'),
         \A r \in Sources \ {s} : r \in simStreams' <=> r \in simStreams,
         \/ UNCHANGED <<simReleased, refused>> /\ (InSim(s) => s \in simStreams')
         \/ SimHandBack(s) /\ s \notin simStreams',
         InSim(s)' => InSim(s) /\ (Remove(s) \in Items(simCommands) => Remove(s) \in Items(simCommands'))
  PROVE  StreamInv'
<1> USE DEF StreamInv
<1>1. UNCHANGED <<stop, eos, renderFinished, pcm, gamePc, bridge, toCheck, audioPc, audioStreams, toRender, gain, silent,
                  inHand, audioRunning, audioCommands, audioReleased, simRunning, created, lost, simPc>>
  BY DEF simKept
<1>2. /\ simReleased' \in Seq(Sources) /\ Len(simReleased') <= ReleaseCapacity /\ refused' \subseteq Sources
      /\ refused \subseteq refused' /\ refused' \subseteq refused \union {s}
      /\ \A r \in Sources \ {s} : r \in Items(simReleased') <=> r \in Items(simReleased)
      /\ s \in simStreams' \/ s \in Items(simReleased') \/ s \in refused' \/ ~HeldBySim(s)
      /\ s \in refused' => s \in refused \/ s \notin simStreams'
  <2>1. simReleased \in Seq(Sources) /\ Len(simReleased) <= ReleaseCapacity /\ ReleaseCapacity \in Nat
        /\ Len(simReleased) \in Nat /\ refused \subseteq Sources
    BY QueueTypes, ItemsFacts DEF TypeOK
  <2>2. CASE UNCHANGED <<simReleased, refused>> /\ (InSim(s) => s \in simStreams')
    BY <2>1, <2>2 DEF HeldBySim, InSim
  <2>3. CASE SimHandBack(s) /\ s \notin simStreams'
    <3> DEFINE p == Pushed(simReleased, ReleaseCapacity, s)
    <3>1. /\ p \in Seq(Sources) /\ Len(p) <= ReleaseCapacity
          /\ Len(simReleased) < ReleaseCapacity => Items(p) = Items(simReleased) \union {s}
          /\ Len(simReleased) = ReleaseCapacity => p = simReleased
      BY <2>1, PushedFacts
    <3>2. simReleased' = p /\ refused' = (IF Len(simReleased) = ReleaseCapacity THEN refused \union {s} ELSE refused)
      BY <2>3 DEF SimHandBack
    <3> HIDE DEF p
    <3>3. CASE Len(simReleased) = ReleaseCapacity
      BY <2>1, <2>3, <3>1, <3>2, <3>3
    <3>4. CASE Len(simReleased) # ReleaseCapacity
      BY <2>1, <2>3, <3>1, <3>2, <3>4
    <3> QED
      BY <3>3, <3>4
  <2> QED
    BY <2>2, <2>3
<1>3. \A r : (HeldByAudio(r)' <=> HeldByAudio(r)) /\ RefusedByAudio(r) \in {0, 1} /\ RefusedByAudio(r)' \in {0, 1}
  BY <1>1 DEF HeldByAudio, RefusedByAudio
<1>4. \A r \in Sources \ {s} : (HeldBySim(r)' <=> HeldBySim(r)) /\ (InSim(r)' <=> InSim(r))
  BY <1>2 DEF HeldBySim, InSim
<1>5. /\ freed' \in [Sources -> {None, "game", "audio", "sim"}] /\ HeldUntilFreed'
      /\ \A r \in Sources : \/ freed'[r] = freed[r]
                            \/ freed'[r] = "sim" /\ freed[r] = None /\ r \in created' /\ ~Held(r)'
  <2>1. created' \subseteq Sources
    BY <1>1 DEF TypeOK
  <2> QED
    BY <2>1, Freeing
<1>6. FreedElsewhereOnlyWhenRefused'
  <2>1. ASSUME NEW r \in Sources, freed'[r] \in {"audio", "sim"} PROVE r \in refused'
    <3>1. CASE freed'[r] = freed[r]
      BY <1>2, <2>1, <3>1 DEF FreedElsewhereOnlyWhenRefused
    <3>2. CASE freed[r] = None /\ r \in created' /\ ~Held(r)'
      <4>1. Held(r)
        BY <1>1, <3>2 DEF HeldUntilFreed
      <4>2. r = s /\ HeldBySim(s) /\ ~HeldBySim(s)'
        BY <1>1, <1>3, <1>4, <3>2, <4>1 DEF Held
      <4> QED
        BY <1>2, <4>2 DEF HeldBySim
    <3> QED
      BY <1>5, <3>1, <3>2
  <2> QED
    BY <2>1 DEF FreedElsewhereOnlyWhenRefused
<1>7. TypeOK'
  <2>1. simulated' \subseteq Sources
    OBVIOUS
  <2> QED
    BY <1>1, <1>2, <1>5, <2>1 DEF TypeOK
<1>8. HandleGoesFirst'
  BY DEF HandleGoesFirst
<1>9. FinishedIsFinal' /\ FrameOrder' /\ ForgottenIsStopped' /\ FadesInOrder'
  BY <1>1, PartsKept
<1>10. simPc # "ended" /\ gamePc # "down"
  BY DEF ThreadPhases
<1>11. DownIsEmpty'
  BY <1>1, <1>10 DEF DownIsEmpty
<1>12. SourcesExist'
  <2>1. simStreams' \subseteq created
    BY DEF SourcesExist
  <2> QED
    BY <1>1, <1>2, <2>1 DEF SourcesExist
<1>13. CommandOrder'
  <2>1. ASSUME NEW r \in Sources, Add(r) \in Items(simCommands') PROVE r \notin simStreams'
    BY <2>1 DEF CommandOrder
  <2> QED
    BY <1>1, <2>1 DEF CommandOrder
<1>14. ThreadPhases'
  BY <1>1, <1>10 DEF ThreadPhases
<1>15. EndsAreAnnounced'
  <2>1. lost \in [Sources -> Nat]
    BY DEF TypeOK
  <2>2. ASSUME NEW r \in Sources, InSim(r)', simRunning', Remove(r) \notin Items(simCommands')
        PROVE  Announcements(r)' <= lost'[r] + RefusedByAudio(r)'
    <3>1. InSim(r) /\ Remove(r) \notin Items(simCommands)
      BY <1>4, <2>2
    <3>2. Announcements(r) <= lost[r] + RefusedByAudio(r)
      BY <1>1, <2>2, <3>1 DEF EndsAreAnnounced
    <3>3. Announcements(r)' = Announcements(r) /\ Announcements(r) \in Nat
      BY <1>1, <1>3 DEF Announcements
    <3>4. RefusedByAudio(r) <= RefusedByAudio(r)'
      BY <1>2 DEF RefusedByAudio
    <3> QED
      BY <1>1, <1>3, <2>1, <3>2, <3>3, <3>4
  <2>3. ASSUME NEW r \in refused', InSim(r)' PROVE ~HeldByAudio(r)'
    <3>1. r \in refused /\ InSim(r)
      <4>1. CASE r = s
        BY <1>2, <2>3, <4>1 DEF InSim
      <4>2. CASE r # s
        BY <1>2, <1>4, <2>3, <4>2
      <4> QED
        BY <4>1, <4>2
    <3> QED
      BY <1>3, <3>1 DEF EndsAreAnnounced
  <2> QED
    BY <2>2, <2>3 DEF EndsAreAnnounced
<1> QED
  BY <1>5, <1>6, <1>7, <1>8, <1>9, <1>11, <1>12, <1>13, <1>14, <1>15

\* A command of the simulation thread takes a source in, or lets go of it.
LEMMA HandleCommandStep == ASSUME LifecycleAssumption, StreamInv, HandleCommand PROVE StreamInv'
<1> USE DEF StreamInv
<1>q. simCommands \in Seq(Commands) /\ simCommands # <<>> /\ Len(simCommands) <= SimCapacity /\ SimCapacity \in Nat
      /\ Len(simCommands) \in Nat
  BY QueueTypes, ItemsFacts DEF HandleCommand
<1>c. PICK c \in Commands : c = Head(simCommands)
  BY <1>q
<1>s. PICK s \in Sources : /\ s = c.source
                           /\ ((c = Add(s) /\ c.type = "Add") \/ (c = Remove(s) /\ c.type = "Remove"))
  BY CommandFacts
<1>1. /\ UNCHANGED <<simKept, simPc>> /\ simPc = "drain" /\ FreeOn("sim")
      /\ simCommands' = Tail(simCommands)
      /\ \/ c = Add(s) /\ AddSource(s)
         \/ c = Remove(s) /\ RemoveSource(s)
  BY <1>c, <1>s DEF HandleCommand, SimKeeps, simKept, flagVars, gameVars, audioVars
<1>2. /\ simCommands' \in Seq(Commands) /\ Len(simCommands') <= SimCapacity /\ AddComesFirst(simCommands')
      /\ Items(simCommands) = {c} \union Items(simCommands') /\ Add(s) \notin Items(simCommands')
  <2>1. AddComesFirst(Tail(simCommands)) /\ Add(s) \notin Items(Tail(simCommands))
    BY <1>q, <1>c, <1>s, OrderTail DEF CommandOrder
  <2> QED
    BY <1>q, <1>c, <1>1, <2>1, TailFacts
<1>3. \A r \in Sources \ {s} : Add(r) # c /\ Remove(r) # c
  BY <1>s, CommandFacts
<1>4. s \in created
  BY <1>s, <1>2 DEF SourcesExist
<1>t. simStreams \subseteq Sources /\ IsFiniteSet(simStreams) /\ Cardinality(simStreams) <= MaxStreams
      /\ simulated \subseteq simStreams
  BY DEF TypeOK, HandleGoesFirst
<1>5. CASE c = Add(s) /\ AddSource(s)
  <2>1. s \notin simStreams /\ Remove(s) # c
    BY <1>2, <1>5, CommandFacts DEF CommandOrder
  <2>2. CASE HasRoom(simStreams)
    <3>1. simStreams' = simStreams \union {s} /\ UNCHANGED <<simReleased, refused, simulated>>
      BY <1>5, <2>2 DEF AddSource
    <3>2. IsFiniteSet(simStreams') /\ Cardinality(simStreams') <= MaxStreams
      BY <1>t, <2>2, <3>1, RoomFacts
    <3>3. InSim(s)' => InSim(s) /\ (Remove(s) \in Items(simCommands) => Remove(s) \in Items(simCommands'))
      BY <1>2, <1>5, <2>1 DEF InSim
    <3> QED
      BY <1>1, <1>2, <1>3, <1>4, <1>t, <3>1, <3>2, <3>3, SimStepKeeps
  <2>3. CASE ~HasRoom(simStreams)
    <3>1. SimHandBack(s) /\ UNCHANGED <<simStreams, simulated>>
      BY <1>5, <2>3 DEF AddSource
    <3>2. ~InSim(s)'
      BY <1>2, <2>1, <3>1 DEF InSim
    <3> QED
      BY <1>1, <1>2, <1>3, <1>4, <1>t, <2>1, <3>1, <3>2, SimStepKeeps
  <2> QED
    BY <2>2, <2>3
<1>6. CASE c = Remove(s) /\ RemoveSource(s)
  <2>1. /\ simStreams' = simStreams \ {s} /\ simulated' = simulated \ {s}
        /\ IF s \in simStreams THEN SimHandBack(s) ELSE UNCHANGED <<simReleased, refused>>
    BY <1>6 DEF RemoveSource
  <2>2. IsFiniteSet(simStreams') /\ Cardinality(simStreams') <= MaxStreams
    BY <1>t, <2>1, RoomFacts
  <2>3. ~InSim(s)' /\ (InSim(s) => s \in simStreams)
    BY <1>2, <1>6, <2>1, CommandFacts DEF InSim
  <2>4. CASE s \in simStreams
    BY <1>1, <1>2, <1>3, <1>4, <1>t, <2>1, <2>2, <2>3, <2>4, SimStepKeeps
  <2>5. CASE s \notin simStreams
    BY <1>1, <1>2, <1>3, <1>4, <1>t, <2>1, <2>2, <2>3, <2>5, SimStepKeeps
  <2> QED
    BY <2>4, <2>5
<1> QED
  BY <1>1, <1>5, <1>6

\* The streams left when the simulation thread ends are handed back without their handles.
LEMMA SimTeardownStep == ASSUME LifecycleAssumption, StreamInv, NEW s \in Sources, SimTeardown(s) PROVE StreamInv'
<1> USE DEF StreamInv
<1>1. /\ UNCHANGED <<simKept, simPc, simCommands>> /\ simPc = "drain" /\ FreeOn("sim") /\ simCommands = <<>>
      /\ s \in simStreams /\ simulated' = {} /\ simStreams' = simStreams \ {s} /\ SimHandBack(s)
  BY DEF SimTeardown, SimKeeps, simKept, flagVars, gameVars, audioVars
<1>2. simStreams \subseteq Sources /\ IsFiniteSet(simStreams') /\ Cardinality(simStreams') <= MaxStreams
  BY <1>1, RoomFacts DEF TypeOK
<1>3. simCommands' \in Seq(Commands) /\ Len(simCommands') <= SimCapacity /\ AddComesFirst(simCommands')
      /\ Items(simCommands') = Items(simCommands) /\ Items(simCommands) = {}
  BY <1>1, ItemsFacts DEF TypeOK, CommandOrder
<1>4. s \in created /\ ~InSim(s)'
  BY <1>1, <1>3 DEF SourcesExist, InSim
<1> QED
  BY <1>1, <1>2, <1>3, <1>4, SimStepKeeps

\* The steps of the simulation thread that let go of nothing.
LEMMA SimMoveStep == ASSUME LifecycleAssumption, StreamInv, SimulateStreams \/ SimEnds PROVE StreamInv'
<1> USE DEF StreamInv
<1>1. /\ UNCHANGED <<stop, eos, renderFinished, pcm, gamePc, bridge, toCheck, audioRunning, audioPc, audioCommands>>
      /\ UNCHANGED <<audioReleased, audioStreams, toRender, gain, silent, inHand, simRunning, simCommands, simReleased>>
      /\ UNCHANGED <<simStreams, created, freed, refused, lost>>
      /\ simulated' \subseteq simulated \union simStreams
      /\ \/ simPc' = simPc
         \/ simPc' = "ended" /\ ~simRunning /\ simCommands = <<>> /\ simStreams = {}
  BY DEF SimulateStreams, SimEnds, SimKeeps, flagVars, gameVars, audioVars
<1>2. UNCHANGED heldVars
  BY <1>1 DEF heldVars
<1>3. FreedElsewhereOnlyWhenRefused' /\ FinishedIsFinal' /\ DownIsEmpty' /\ SourcesExist' /\ CommandOrder' /\ FrameOrder'
      /\ HeldUntilFreed' /\ ForgottenIsStopped' /\ EndsAreAnnounced' /\ FadesInOrder'
  BY <1>1, <1>2, PartsKept
<1>4. TypeOK' /\ HandleGoesFirst'
  BY SMTT(30), <1>1 DEF TypeOK, HandleGoesFirst
<1>5. ThreadPhases'
  BY <1>1 DEF ThreadPhases
<1> QED
  BY <1>3, <1>4, <1>5

-----------------------------------------------------------------------------
(* The theorems                                                            *)

\* Before the first source all parts of the invariant hold.
LEMMA StreamInit == ASSUME LifecycleAssumption, Init PROVE StreamInv
<1>1. Items(<<>>) = {} /\ NothingInHand.source = None /\ NothingInHand.retiring = None
      /\ NothingInHand \in [source : Sources \union {None}, hasData : BOOLEAN, retiring : Sources \union {None}]
  BY ItemsFacts, HandFacts
<1>2. IsFiniteSet({}) /\ Cardinality({}) = 0
  BY FS_EmptySet
<1>3. TypeOK
  BY <1>1, <1>2 DEF TypeOK, Init, ThreadsInit, LifecycleAssumption
<1>4. HandleGoesFirst /\ FreedElsewhereOnlyWhenRefused /\ FinishedIsFinal /\ DownIsEmpty
  BY DEF HandleGoesFirst, FreedElsewhereOnlyWhenRefused, FinishedIsFinal, DownIsEmpty, Init, ThreadsInit, None
<1>5. SourcesExist /\ CommandOrder /\ FrameOrder
  BY <1>1 DEF SourcesExist, CommandOrder, AddComesFirst, FrameOrder, Init, ThreadsInit
<1>6. ThreadPhases /\ HeldUntilFreed /\ ForgottenIsStopped /\ FadesInOrder
  BY <1>1 DEF ThreadPhases, HeldUntilFreed, ForgottenIsStopped, FadesInOrder, Init, ThreadsInit
<1>7. EndsAreAnnounced
  BY <1>1 DEF EndsAreAnnounced, InSim, Init, ThreadsInit
<1> QED
  BY <1>3, <1>4, <1>5, <1>6, <1>7 DEF StreamInv

\* Every step keeps the invariant.
LEMMA StreamStep == ASSUME LifecycleAssumption, StreamInv, [Next]_vars PROVE StreamInv'
<1>1. CASE Lua
  <2>1. ASSUME NEW s \in Sources, CreateStream(s) \/ WriteFloat(s) \/ Finish(s) PROVE StreamInv'
    BY <2>1, CreateStreamStep, WriteFloatStep, FinishStep
  <2>2. ASSUME NEW s \in Sources, Destroy(s) PROVE StreamInv'
    BY <2>2, UnregisterStep DEF Destroy
  <2>3. CASE BeginShutdown
    BY <2>3, GameMoveStep DEF GameMove
  <2> QED
    BY <1>1, <2>1, <2>2, <2>3 DEF Lua
<1>2. CASE Tick
  <2>1. ASSUME NEW s \in Sources, TickBridge(s) \/ DestroyAll(s) PROVE StreamInv'
    BY <2>1, UnregisterStep DEF TickBridge, DestroyAll
  <2>2. CASE GameMove
    BY <2>2, GameMoveStep
  <2>3. CASE DrainAudioReleased \/ DrainSimReleased
    BY <2>3, DrainAudioReleasedStep, DrainSimReleasedStep
  <2> QED
    BY <1>2, <2>1, <2>2, <2>3 DEF Tick, GameMove
<1>3. CASE AudioNext
  <2>1. ASSUME NEW s \in Sources, ReadStream(s) \/ AudioTeardown(s) PROVE StreamInv'
    BY <2>1, ReadStreamStep, AudioTeardownStep
  <2>2. CASE BeginFrame \/ EndFrame \/ AudioEnds
    BY <2>2, FrameMoveStep
  <2>3. CASE DrainCommand \/ RenderStream \/ HandBackFinished
    BY <2>3, DrainCommandStep, RenderStreamStep, HandBackFinishedStep
  <2> QED
    BY <1>3, <2>1, <2>2, <2>3 DEF AudioNext
<1>4. CASE SimNext
  <2>1. ASSUME NEW s \in Sources, SimTeardown(s) PROVE StreamInv'
    BY <2>1, SimTeardownStep
  <2>2. CASE HandleCommand \/ SimulateStreams \/ SimEnds
    BY <2>2, HandleCommandStep, SimMoveStep
  <2> QED
    BY <1>4, <2>1, <2>2 DEF SimNext
<1>5. CASE UNCHANGED vars
  <2>1. /\ UNCHANGED <<stop, eos, renderFinished, pcm, gamePc, bridge, toCheck, audioRunning, audioPc, audioCommands>>
        /\ UNCHANGED <<audioReleased, audioStreams, toRender, gain, silent, inHand, simRunning, simPc, simCommands>>
        /\ UNCHANGED <<simReleased, simStreams, simulated, created, freed, refused, lost>>
    BY <1>5 DEF vars, flagVars, gameVars, audioVars, simVars
  <2>2. UNCHANGED heldVars
    BY <2>1 DEF heldVars
  <2>3. TypeOK'
    BY ZenonT(30), <2>1 DEF StreamInv, TypeOK
  <2> QED
    BY <2>1, <2>2, <2>3, PartsKept DEF StreamInv
<1> QED
  BY <1>1, <1>2, <1>3, <1>4, <1>5 DEF Next

\* Every source ends once, in order and on the right thread, and nothing is left
\* of it after Shutdown, with however many sources and however small the queues.
THEOREM StreamSafety == Spec => []StreamInv
<1>1. LifecycleAssumption
  BY LifecycleAssumption
<1>2. Init => StreamInv
  BY <1>1, StreamInit
<1>3. StreamInv /\ [Next]_vars => StreamInv'
  BY <1>1, StreamStep
<1> QED
  BY <1>2, <1>3, PTL DEF Spec

\* A source that only the simulation thread still holds, with nothing on its way
\* to tell it so, has had two of its announcements refused.
THEOREM GhostsAreLostTwice == Spec => []GhostWasLostTwice
<1>1. ASSUME StreamInv PROVE GhostWasLostTwice
  <2>1. ASSUME NEW s \in Sources, Ghost(s) PROVE lost[s] + RefusedByAudio(s) >= 2
    <3>1. Announcements(s) = 2 /\ InSim(s)
      BY <2>1 DEF Ghost, Announcements, InSim
    <3>2. Announcements(s) <= lost[s] + RefusedByAudio(s)
      BY <1>1, <2>1, <3>1 DEF StreamInv, EndsAreAnnounced, Ghost
    <3>3. lost[s] \in Nat /\ RefusedByAudio(s) \in {0, 1}
      BY <1>1 DEF StreamInv, TypeOK, RefusedByAudio
    <3> QED
      BY <3>1, <3>2, <3>3
  <2> QED
    BY <2>1 DEF GhostWasLostTwice
<1> QED
  BY <1>1, StreamSafety, PTL

\* A stream is never ended while samples of it wait, unless it was told to stop.
THEOREM StreamsPlayOut == Spec => PlaysToTheEnd
<1> DEFINE Ends == \A s \in audioStreams : s \in renderFinished' \ renderFinished /\ s \notin stop => pcm[s] = 0
<1>1. ASSUME LifecycleAssumption, StreamInv, [Next]_vars PROVE Ends
  <2>1. CASE UNCHANGED renderFinished
    BY <2>1
  <2>2. CASE RenderStream
    <3>1. ASSUME NEW s \in audioStreams, s \in renderFinished' \ renderFinished, s \notin stop PROVE pcm[s] = 0
      <4>1. s = inHand.source /\ Ending(s) /\ gain[s] = 0
        BY <2>2, <3>1 DEF RenderStream
      <4>2. s \in eos /\ ~inHand.hasData /\ silent[s] >= TailFrames
        BY <3>1, <4>1 DEF Ending, Drained
      <4>3. silent[s] \in Nat /\ TailFrames \in Nat \ {0}
        BY <1>1, <3>1 DEF StreamInv, TypeOK, LifecycleAssumption
      <4> QED
        BY <1>1, <3>1, <4>1, <4>2, <4>3 DEF StreamInv, FadesInOrder
    <3> QED
      BY <3>1
  <2>3. CASE DrainCommand
    <3>1. audioCommands \in Seq(Commands) /\ audioCommands # <<>>
      BY <1>1, <2>3 DEF StreamInv, TypeOK, DrainCommand
    <3>2. PICK c \in Commands : c = Head(audioCommands)
      BY <3>1
    <3>3. c \in Items(audioCommands) /\ (c.type = "Add" => c = Add(c.source)) /\ c.source \in Sources
      BY <3>1, <3>2, TailFacts, CommandFacts
    <3>4. c.type = "Add" => c.source \notin audioStreams
      BY <1>1, <3>3 DEF StreamInv, CommandOrder
    <3> QED
      BY <2>3, <3>2, <3>4 DEF DrainCommand, DrainAdd, DrainRemove
  <2>4. ASSUME NEW s \in Sources, AudioTeardown(s) PROVE Ends
    <3>1. bridge = {}
      BY <1>1, <2>4 DEF StreamInv, ThreadPhases, AudioTeardown
    <3> QED
      BY <1>1, <3>1 DEF StreamInv, ForgottenIsStopped, TypeOK
  <2> QED
    BY <1>1, <2>1, <2>2, <2>3, <2>4 DEF Next, Lua, Tick, AudioNext, SimNext, vars, flagVars, CreateStream, WriteFloat,
      Finish, Destroy, Unregister, Forget, BeginShutdown, BeginTick, TickBridge, BridgesTicked, DrainAudioReleased,
      PopAudioReleased, AudioDrained, DrainSimReleased, SimDrained, DestroyAll, StopAudio, StopSimulation,
      ThreadsStopped, GoTo, BeginFrame, ReadStream, HandBackFinished, EndFrame, AudioEnds, HandleCommand,
      SimulateStreams, SimTeardown, SimEnds, SimKeeps
<1>2. LifecycleAssumption
  BY LifecycleAssumption
<1>3. StreamInv /\ [Next]_vars => Ends
  BY <1>1, <1>2
<1> QED
  BY <1>3, StreamSafety, PTL DEF Spec, PlaysToTheEnd

=============================================================================
