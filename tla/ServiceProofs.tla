---------------------------- MODULE ServiceProofs ----------------------------
(***************************************************************************)
(* The lighting service, for any length of the proxy channel and any manual  *)
(* colours: what it tells its clients is what the speaker shows, and what an *)
(* engine left in the channel does not light the speaker against the         *)
(* configuration.                                                            *)
(***************************************************************************)
EXTENDS Service, SequenceTheorems, TLAPS

USE ProxyAssumption, RestartAssumption, LightsAssumption

Alive    == engine \in {"running", "stalled", "ending"}
Awaiting == sinkCall \in {"write", "blackout"} /\ reply = "none"
Fresh(command) == command.kind = "write" /\ ~command.stale

(* The service holds a proxied command only while it dispatches it.          *)
HandPart ==
    /\ pc = "dispatch" <=> inHand # NoCommand
    /\ pc = "open" => engine = "none"

(* What the sink call of the engine says of the engine.                      *)
SinkCallPart ==
    /\ sinkCall = "write" => engine = "running"
    /\ sinkCall \in {"sending", "blackout"} <=> engine \in {"stalled", "ending"}

(* The engine awaits one command at a time: the last one in the channel, or  *)
(* the one in hand when none is left in the channel.                         *)
LivePart ==
    /\ \A k \in DOMAIN queue : queue[k].live => k = Len(queue) /\ Awaiting
    /\ inHand.live => queue = <<>> /\ Awaiting
AnswerPart ==
    reply # "none" => /\ sinkCall \in {"write", "blackout"}
                      /\ queue = <<>> /\ inHand = NoCommand

(* An engine that ended leaves no write behind that is not stale.            *)
FreshPart == \A k \in DOMAIN queue : Fresh(queue[k]) => Alive

(* Also while a command is dispatched and while the service waits for the    *)
(* engine it restarts.                                                       *)
ConfirmPart ==
    pc \in {"loop", "dispatch", "join"} /\ health = "ready" /\ ~pending
        => lights \in {confirmed, Black}

ServiceInv ==
    /\ TypeOK /\ HandPart /\ SinkCallPart
    /\ LivePart /\ AnswerPart /\ FreshPart /\ ConfirmPart

(* No engine runs where the service writes or blacks out on its own account; *)
(* while it serves, an engine that runs is wanted, and so is a write in hand *)
(* that is not stale; an engine it waits for to restart it is wanted too.    *)
WantedPart ==
    /\ engine # "none" => pc \in {"loop", "dispatch", "join", "finalJoin"}
    /\ pc \in {"loop", "dispatch"} /\ engine # "none" => ContentWanted /\ ~cancelled
    /\ pc = "dispatch" /\ Fresh(inHand) => ContentWanted
    /\ pc = "join" /\ after \notin {"write", "blackout"} => ContentWanted
FollowPart ==
    pc \in {"loop", "dispatch"} /\ health = "ready" =>
        /\ ~config.enabled => lights = Black
        /\ config.enabled /\ config.mode = "manual" => lights \in {config.manual, Black}

WantedInv == ServiceInv /\ WantedPart /\ FollowPart

-----------------------------------------------------------------------------
LEMMA QueueFacts ==
    ASSUME NEW S, NEW q \in Seq(S)
    PROVE  /\ Len(q) \in Nat /\ DOMAIN q = 1..Len(q) /\ \A k \in DOMAIN q : q[k] \in S
           /\ q = <<>> <=> Len(q) = 0
           /\ q # <<>> => /\ 1 \in DOMAIN q /\ Head(q) = q[1] /\ Head(q) \in S
                          /\ Tail(q) \in Seq(S) /\ Len(Tail(q)) = Len(q) - 1
                          /\ \A k \in DOMAIN Tail(q) : k + 1 \in DOMAIN q /\ Tail(q)[k] = q[k + 1]
           /\ \A e \in S : /\ Append(q, e) \in Seq(S) /\ Len(Append(q, e)) = Len(q) + 1
                           /\ DOMAIN Append(q, e) = DOMAIN q \cup {Len(q) + 1}
                           /\ \A k \in DOMAIN q : Append(q, e)[k] = q[k]
                           /\ Append(q, e)[Len(q) + 1] = e
  <1>1. Len(q) \in Nat /\ DOMAIN q = 1..Len(q) /\ \A k \in DOMAIN q : q[k] \in S
    BY LenProperties, ElementOfSeq
  <1>2. q = <<>> <=> Len(q) = 0
    BY EmptySeq
  <1>3. ASSUME q # <<>>
        PROVE  /\ 1 \in DOMAIN q /\ Head(q) = q[1] /\ Head(q) \in S
               /\ Tail(q) \in Seq(S) /\ Len(Tail(q)) = Len(q) - 1
               /\ \A k \in DOMAIN Tail(q) : k + 1 \in DOMAIN q /\ Tail(q)[k] = q[k + 1]
    <2>1. Head(q) \in S /\ Tail(q) \in Seq(S)
      BY <1>3, HeadTailProperties
    <2>2. Len(q) > 0 /\ Len(Tail(q)) = Len(q) - 1 /\ \A k \in 1..Len(Tail(q)) : Tail(q)[k] = q[k + 1]
      BY <1>1, <1>2, <1>3, HeadTailProperties
    <2>3. DOMAIN Tail(q) = 1..Len(Tail(q))
      BY <2>1, LenProperties
    <2>4. Head(q) = q[1]
      OBVIOUS
    <2> QED BY <1>1, <2>1, <2>2, <2>3, <2>4
  <1>4. ASSUME NEW e \in S
        PROVE  /\ Append(q, e) \in Seq(S) /\ Len(Append(q, e)) = Len(q) + 1
               /\ DOMAIN Append(q, e) = DOMAIN q \cup {Len(q) + 1}
               /\ \A k \in DOMAIN q : Append(q, e)[k] = q[k]
               /\ Append(q, e)[Len(q) + 1] = e
    <2>1. /\ Append(q, e) \in Seq(S) /\ Len(Append(q, e)) = Len(q) + 1
          /\ \A k \in 1..Len(q) : Append(q, e)[k] = q[k]
      BY AppendProperties
    <2>2. Append(q, e)[Len(q) + 1] = e
      BY AppendProperties
    <2>3. DOMAIN Append(q, e) = 1..Len(q) + 1
      BY <2>1, LenProperties
    <2> QED BY <1>1, <2>1, <2>2, <2>3
  <1> QED BY <1>1, <1>2, <1>3, <1>4

(* A command that is no longer awaited, or stale as well, is the same        *)
(* command otherwise.                                                        *)
LEMMA CommandFacts ==
    /\ NoCommand.kind = "none" /\ NoCommand.live = FALSE /\ NoCommand \notin ProxyCommand
    /\ Unawaited(NoCommand) = NoCommand
    /\ \A c \in ProxyCommand :
           /\ c.kind \in {"write", "blackout"} /\ c.live \in BOOLEAN /\ c.stale \in BOOLEAN
           /\ Unawaited(c) \in ProxyCommand /\ ~Unawaited(c).live
           /\ Fresh(Unawaited(c)) <=> Fresh(c)
           /\ Stale(Unawaited(c)) \in ProxyCommand /\ ~Stale(Unawaited(c)).live
           /\ ~Fresh(Stale(Unawaited(c)))
  <1>1. /\ NoCommand.kind = "none" /\ NoCommand.live = FALSE
        /\ Unawaited(NoCommand) = NoCommand
    BY DEF NoCommand, Unawaited
  <1>2. ASSUME NEW c \in ProxyCommand
        PROVE  /\ c.kind \in {"write", "blackout"} /\ c.live \in BOOLEAN /\ c.stale \in BOOLEAN
               /\ Unawaited(c) = [kind |-> c.kind, live |-> FALSE, stale |-> c.stale]
               /\ Unawaited(c) \in ProxyCommand /\ Unawaited(c).live = FALSE
    BY DEF ProxyCommand, Unawaited
  <1>3. NoCommand \notin ProxyCommand
    BY <1>1, <1>2
  <1>4. ASSUME NEW c \in ProxyCommand
        PROVE  /\ Fresh(Unawaited(c)) <=> Fresh(c)
               /\ Stale(Unawaited(c)) \in ProxyCommand /\ ~Stale(Unawaited(c)).live
               /\ ~Fresh(Stale(Unawaited(c)))
    <2>1. Fresh(Unawaited(c)) <=> Fresh(c)
      BY <1>2 DEF Fresh
    <2>2. CASE c.kind = "write"
      <3>1. Stale(Unawaited(c)) = [kind |-> "write", live |-> FALSE, stale |-> TRUE]
        <4>1. Unawaited(c) = [kind |-> "write", live |-> FALSE, stale |-> c.stale]
          BY <1>2, <2>2
        <4>2. Stale([kind |-> "write", live |-> FALSE, stale |-> c.stale]) =
                  [kind |-> "write", live |-> FALSE, stale |-> TRUE]
          BY DEF Stale
        <4> QED BY <4>1, <4>2
      <3> QED BY <2>1, <3>1 DEF Fresh, ProxyCommand
    <2>3. CASE c.kind # "write"
      <3>1. Stale(Unawaited(c)) = Unawaited(c)
        BY <1>2, <2>3 DEF Stale
      <3> QED BY <1>2, <2>1, <2>3, <3>1 DEF Fresh
    <2> QED BY <2>2, <2>3
  <1> QED BY <1>1, <1>2, <1>3, <1>4

LEMMA LeftBehind ==
    ASSUME NEW q \in Seq(ProxyCommand), NEW p,
           \/ p = [k \in DOMAIN q |-> Unawaited(q[k])]
           \/ p = [k \in DOMAIN q |-> Stale(Unawaited(q[k]))]
    PROVE  /\ p \in Seq(ProxyCommand) /\ Len(p) = Len(q) /\ DOMAIN p = DOMAIN q
           /\ \A k \in DOMAIN p : ~p[k].live
           /\ \A k \in DOMAIN p : Fresh(p[k]) => Fresh(q[k])
           /\ p = [k \in DOMAIN q |-> Stale(Unawaited(q[k]))] => \A k \in DOMAIN p : ~Fresh(p[k])
  <1>1. /\ Len(q) \in Nat /\ DOMAIN q = 1..Len(q) /\ \A k \in DOMAIN q : q[k] \in ProxyCommand
    BY QueueFacts
  <1>2. ASSUME NEW k \in DOMAIN q
        PROVE  p[k] \in ProxyCommand /\ ~p[k].live /\ (Fresh(p[k]) => Fresh(q[k]))
    <2>1. q[k] \in ProxyCommand
      BY <1>1
    <2>2. /\ Unawaited(q[k]) \in ProxyCommand /\ ~Unawaited(q[k]).live
          /\ Fresh(Unawaited(q[k])) <=> Fresh(q[k])
          /\ Stale(Unawaited(q[k])) \in ProxyCommand /\ ~Stale(Unawaited(q[k])).live
          /\ ~Fresh(Stale(Unawaited(q[k])))
      BY <2>1, CommandFacts
    <2>3. p[k] = Unawaited(q[k]) \/ p[k] = Stale(Unawaited(q[k]))
      OBVIOUS
    <2> QED BY <2>2, <2>3
  <1>3. p \in [1..Len(q) -> ProxyCommand] /\ DOMAIN p = DOMAIN q
    BY <1>1, <1>2
  <1>4. p \in Seq(ProxyCommand)
    BY <1>1, <1>3, IsASeq
  <1>5. Len(p) = Len(q)
    BY <1>1, <1>3, <1>4, LenProperties
  <1>6. p = [k \in DOMAIN q |-> Stale(Unawaited(q[k]))] => \A k \in DOMAIN p : ~Fresh(p[k])
    BY <1>1, CommandFacts
  <1> QED BY <1>2, <1>3, <1>4, <1>5, <1>6

-----------------------------------------------------------------------------
(* The channel and the engine's sink call.                                   *)
ChannelPart == SinkCallPart /\ LivePart /\ AnswerPart /\ FreshPart

LEMMA ChannelKept ==
    ASSUME ServiceInv, UNCHANGED <<queue, inHand, engine, sinkCall, reply>>
    PROVE  ChannelPart'
  BY DEF ServiceInv, ChannelPart, SinkCallPart, LivePart, AnswerPart, FreshPart, Alive, Awaiting

(* An engine that starts, or whose end is noticed, finds only commands that  *)
(* nobody awaits.                                                            *)
LEMMA EngineChanges ==
    ASSUME ServiceInv, UNCHANGED <<queue, inHand>>, engine \in {"none", "ended"},
           StartEngine \/ EngineGone
    PROVE  ChannelPart'
  <1>1. sinkCall = "none" /\ ~Awaiting /\ ~Alive /\ reply = "none"
    BY DEF ServiceInv, TypeOK, SinkCallPart, AnswerPart, Awaiting, Alive
  <1>2. /\ sinkCall' = "none" /\ reply' = "none" /\ engine' \in {"running", "none"}
    BY <1>1 DEF StartEngine, EngineGone
  <1> QED BY <1>1, <1>2 DEF ServiceInv, ChannelPart, SinkCallPart, LivePart, AnswerPart, FreshPart

LEMMA TakeFacts ==
    ASSUME ServiceInv, TakeProxyCommand
    PROVE  /\ queue' \in Seq(ProxyCommand) /\ Len(queue') <= ProxyLength
           /\ inHand' \in ProxyCommand
           /\ ChannelPart'
           /\ Fresh(inHand') => Alive
  <1>1. /\ queue \in Seq(ProxyCommand) /\ queue # <<>> /\ inHand' = Head(queue)
        /\ queue' = Tail(queue) /\ UNCHANGED engineVars /\ Len(queue) <= ProxyLength
        /\ Len(queue) \in Nat
    BY QueueFacts DEF TakeProxyCommand, ServiceInv, TypeOK
  <1>2. /\ 1 \in DOMAIN queue /\ inHand' = queue[1] /\ inHand' \in ProxyCommand
        /\ queue' \in Seq(ProxyCommand) /\ Len(queue') = Len(queue) - 1
        /\ \A k \in DOMAIN queue' : k + 1 \in DOMAIN queue /\ queue'[k] = queue[k + 1]
    BY <1>1, QueueFacts
  <1>3. Awaiting' = Awaiting /\ Alive' = Alive
    BY <1>1 DEF Awaiting, Alive, engineVars
  <1>4. \A k \in DOMAIN queue' : k \in Nat
    BY <1>2, QueueFacts
  <1>5. queue' = <<>> <=> Len(queue') = 0
    BY <1>2, QueueFacts
  <1>6. LivePart'
    <2>1. \A k \in DOMAIN queue' : queue'[k].live => k = Len(queue') /\ Awaiting
      BY <1>1, <1>2, <1>4 DEF ServiceInv, LivePart
    <2>2. inHand'.live => queue' = <<>> /\ Awaiting
      BY <1>1, <1>2, <1>5 DEF ServiceInv, LivePart
    <2> QED BY <1>3, <2>1, <2>2 DEF LivePart
  <1>7. SinkCallPart' /\ AnswerPart'
    BY <1>1 DEF ServiceInv, SinkCallPart, AnswerPart, engineVars
  <1>8. FreshPart' /\ (Fresh(inHand') => Alive)
    BY <1>2, <1>3 DEF ServiceInv, FreshPart
  <1> QED BY <1>1, <1>2, <1>6, <1>7, <1>8 DEF ChannelPart

(* A command in hand that the engine awaits is the last one.                 *)
LEMMA DispatchFacts ==
    ASSUME ServiceInv, pc = "dispatch", Dispatched, NEW value \in {"ok", "error"}, Answer(value)
    PROVE  /\ inHand' = NoCommand /\ reply' \in {"none", "ok", "error"}
           /\ ChannelPart'
  <1>1. /\ inHand \in ProxyCommand /\ inHand' = NoCommand /\ NoCommand.live = FALSE
        /\ UNCHANGED <<queue, engine, sinkCall>>
    BY CommandFacts DEF ServiceInv, TypeOK, HandPart, Dispatched
  <1>2. reply = "none"
    BY <1>1, CommandFacts DEF ServiceInv, AnswerPart
  <1>3. CASE inHand.live
    <2>1. queue = <<>> /\ sinkCall \in {"write", "blackout"} /\ reply' = value /\ DOMAIN queue = {}
      BY <1>3 DEF ServiceInv, LivePart, Awaiting, Answer
    <2> QED BY <1>1, <2>1
        DEF ServiceInv, ChannelPart, SinkCallPart, LivePart, AnswerPart, FreshPart
  <1>4. CASE ~inHand.live
    <2>1. reply' = reply
      BY <1>4 DEF Answer
    <2> QED BY <1>1, <1>2, <2>1
        DEF ServiceInv, ChannelPart, SinkCallPart, LivePart, AnswerPart, FreshPart, Alive, Awaiting
  <1> QED BY <1>3, <1>4

(* The engine sends a command while it awaits none.                          *)
LEMMA SendFacts ==
    ASSUME ServiceInv, EngineWrite \/ EngineSendBlackout
    PROVE  /\ queue' \in Seq(ProxyCommand) /\ Len(queue') <= ProxyLength
           /\ ChannelPart'
  <1>1. PICK c \in ProxyCommand :
            /\ Len(queue) < ProxyLength /\ queue' = Append(queue, c)
            /\ sinkCall' \in {"write", "blackout"} /\ sinkCall \in {"none", "sending"}
            /\ sinkCall' = "write" => engine = "running"
            /\ sinkCall' = "blackout" => engine \in {"stalled", "ending"}
    <2>1. [kind |-> "write", live |-> TRUE, stale |-> FALSE] \in ProxyCommand
          /\ [kind |-> "blackout", live |-> TRUE, stale |-> FALSE] \in ProxyCommand
      BY DEF ProxyCommand
    <2>2. CASE EngineWrite
      BY <2>1, <2>2 DEF EngineWrite, Send
    <2>3. CASE EngineSendBlackout
      BY <2>1, <2>3 DEF EngineSendBlackout, Send, ServiceInv, SinkCallPart
    <2> QED BY <2>2, <2>3
  <1>2. UNCHANGED <<inHand, engine, reply>>
    BY DEF EngineWrite, EngineSendBlackout, serviceVars
  <1>3. /\ queue \in Seq(ProxyCommand) /\ Len(queue) \in Nat
        /\ queue' \in Seq(ProxyCommand) /\ Len(queue') = Len(queue) + 1
        /\ DOMAIN queue' = DOMAIN queue \cup {Len(queue) + 1}
        /\ \A k \in DOMAIN queue : queue'[k] = queue[k]
    BY <1>1, QueueFacts DEF ServiceInv, TypeOK
  <1>4. ~Awaiting /\ reply = "none" /\ engine \in {"running", "stalled", "ending"}
    BY <1>1 DEF ServiceInv, AnswerPart, Awaiting
  <1>5. Alive' /\ Awaiting'
    BY <1>1, <1>2, <1>4 DEF Alive, Awaiting
  <1>6. LivePart'
    BY <1>2, <1>3, <1>4, <1>5 DEF ServiceInv, LivePart
  <1>7. SinkCallPart' /\ AnswerPart'
    BY <1>1, <1>2, <1>4 DEF ServiceInv, TypeOK, SinkCallPart, AnswerPart
  <1> QED BY <1>1, <1>3, <1>5, <1>6, <1>7 DEF ChannelPart, FreshPart

(* An answer reaches the engine when nothing is left in the channel.         *)
LEMMA AnsweredFacts ==
    ASSUME ServiceInv, EngineWriteAnswered \/ EngineBlackoutAnswered
    PROVE  ChannelPart'
  <1>1. /\ queue = <<>> /\ inHand = NoCommand /\ NoCommand.live = FALSE /\ DOMAIN queue = {}
        /\ UNCHANGED <<queue, inHand>>
    BY CommandFacts
       DEF EngineWriteAnswered, EngineBlackoutAnswered, ServiceInv, AnswerPart, serviceVars
  <1>2. sinkCall' = "none" /\ reply' = "none" /\ engine' \in {"running", "ended"}
    BY DEF EngineWriteAnswered, EngineBlackoutAnswered, ServiceInv, SinkCallPart
  <1> QED BY <1>1, <1>2 DEF ChannelPart, SinkCallPart, LivePart, AnswerPart, FreshPart

LEMMA HandFacts ==
    ASSUME TypeOK, inHand' = Unawaited(inHand)
    PROVE  /\ inHand' \in ProxyCommand \cup {NoCommand} /\ ~inHand'.live
           /\ inHand' = NoCommand <=> inHand = NoCommand
           /\ inHand # NoCommand => (Fresh(inHand') <=> Fresh(inHand))
  <1>1. CASE inHand = NoCommand
    BY <1>1, CommandFacts
  <1>2. CASE inHand \in ProxyCommand
    <2>1. inHand' \in ProxyCommand /\ ~inHand'.live /\ (Fresh(inHand') <=> Fresh(inHand))
      BY <1>2, CommandFacts
    <2> QED BY <1>2, <2>1, CommandFacts
  <1> QED BY <1>1, <1>2 DEF TypeOK

(* An engine that gives its call up awaits nothing; one that ends because    *)
(* its blackout was not answered leaves no fresh write behind.               *)
LEMMA GiveUpFacts ==
    ASSUME ServiceInv, EngineStall \/ EngineLeave \/ EngineBlackoutTimeout
    PROVE  /\ queue' \in Seq(ProxyCommand) /\ Len(queue') <= ProxyLength
           /\ inHand' = Unawaited(inHand)
           /\ ChannelPart'
  <1>1. inHand' = Unawaited(inHand) /\ reply' = "none"
    BY DEF EngineStall, EngineLeave, EngineBlackoutTimeout, GiveUpCall
  <1>2. queue \in Seq(ProxyCommand) /\ ~inHand'.live
    BY <1>1, HandFacts DEF ServiceInv, TypeOK
  <1>3. CASE EngineStall \/ EngineLeave
    <2>1. /\ queue' = [k \in DOMAIN queue |-> Unawaited(queue[k])]
          /\ sinkCall' = "sending" /\ engine' \in {"stalled", "ending"}
      BY <1>3 DEF EngineStall, EngineLeave, GiveUpCall
    <2>2. queue' \in Seq(ProxyCommand) /\ Len(queue') = Len(queue) /\ \A k \in DOMAIN queue' : ~queue'[k].live
      BY <1>2, <2>1, LeftBehind
    <2>3. Len(queue') <= ProxyLength
      BY <2>2 DEF ServiceInv, TypeOK
    <2> QED BY <1>1, <1>2, <2>1, <2>2, <2>3
        DEF ChannelPart, SinkCallPart, LivePart, AnswerPart, FreshPart, Alive
  <1>4. CASE EngineBlackoutTimeout
    <2>1. /\ queue' = [k \in DOMAIN queue |-> Stale(Unawaited(queue[k]))]
          /\ sinkCall' = "none" /\ engine' = "ended"
      BY <1>4 DEF EngineBlackoutTimeout
    <2>2. /\ queue' \in Seq(ProxyCommand) /\ Len(queue') = Len(queue)
          /\ \A k \in DOMAIN queue' : ~queue'[k].live
          /\ \A k \in DOMAIN queue' : ~Fresh(queue'[k])
      BY <1>2, <2>1, LeftBehind
    <2>3. Len(queue') <= ProxyLength
      BY <2>2 DEF ServiceInv, TypeOK
    <2> QED BY <1>1, <1>2, <2>1, <2>2, <2>3
        DEF ChannelPart, SinkCallPart, LivePart, AnswerPart, FreshPart, Alive
  <1> QED BY <1>1, <1>3, <1>4

-----------------------------------------------------------------------------
(* The service.                                                              *)
LEMMA ServiceInit == Init => ServiceInv
  <1> SUFFICES ASSUME Init PROVE ServiceInv
    OBVIOUS
  <1>1. queue \in Seq(ProxyCommand) /\ Len(queue) = 0 /\ DOMAIN queue = {}
    <2>1. queue = <<>>
      BY DEF Init
    <2> QED BY <2>1, EmptySeq
  <1>2. TypeOK
    <2>1. Len(queue) <= ProxyLength
      BY <1>1
    <2>2. config \in Config /\ saved \in Config /\ confirmed \in Lights /\ lights \in Lights
      BY DEF Init, Lights
    <2> QED BY <1>1, <2>1, <2>2, Zenon DEF Init, TypeOK
  <1> QED BY <1>1, <1>2, CommandFacts DEF Init, ServiceInv, HandPart, SinkCallPart, LivePart,
       AnswerPart, FreshPart, ConfirmPart

LEMMA LightFacts ==
    ASSUME TypeOK
    PROVE  /\ Black \in Lights /\ Scene \in Lights /\ ManualTarget(config) \in Lights
           /\ config.enabled \in BOOLEAN /\ config.mode \in {"manual", "content"}
           /\ config.manual \in ManualColours
           /\ ManualTarget(config) = IF config.enabled THEN config.manual ELSE Black
  BY DEF TypeOK, Config, Lights, ManualTarget

(* What a client's command makes of the service: a write, a blackout, an     *)
(* engine to be stopped first, an engine to be started, or nothing.          *)
LEMMA ClientFacts ==
    ASSUME ServiceInv, Client
    PROVE  /\ pc = "loop" /\ ~shutdown /\ NothingElse /\ config' \in Config /\ saved' \in Config
           /\ \/ BeginWrite
              \/ BeginBlackout
              \/ NoWrite
              \/ engine # "none" /\ \E next \in {"write", "blackout", "restart"} : StopThen(next)
              \/ engine = "none" /\ pc' = "loop" /\ after' = "none" /\ ModelUnchanged /\ StartEngine
  <1>0. /\ config \in Config /\ saved \in Config
        /\ config.enabled \in BOOLEAN /\ config.mode \in {"manual", "content"}
    BY LightFacts DEF ServiceInv, TypeOK
  <1>1. ASSUME NEW c \in Config, Configure(c) PROVE config' \in Config /\ saved' \in Config
    BY <1>0, <1>1 DEF Configure
  <1>2. /\ StartContentAware => \/ NoWrite
                                \/ /\ engine = "none" /\ pc' = "loop" /\ after' = "none"
                                   /\ ModelUnchanged /\ StartEngine
        /\ StopContentAwareAndWrite => BeginWrite \/ (engine # "none" /\ StopThen("write"))
        /\ PriorityBlackout => BeginBlackout \/ (engine # "none" /\ StopThen("blackout"))
    BY DEF StartContentAware, NoWrite, StopContentAwareAndWrite, PriorityBlackout
  <1>3. ASSUME NEW colour \in ManualColours, SetManualZones(colour)
        PROVE  /\ pc = "loop" /\ ~shutdown /\ NothingElse /\ config' \in Config /\ saved' \in Config
               /\ BeginWrite \/ NoWrite
    <2>1. [config EXCEPT !.manual = colour] \in Config
      BY <1>0 DEF Config
    <2> QED BY <1>1, <1>3, <2>1 DEF SetManualZones, ClientTurn, Idle
  <1>4. ASSUME NEW mode \in {"manual", "content"}, SetMode(mode)
        PROVE  /\ pc = "loop" /\ ~shutdown /\ NothingElse /\ config' \in Config /\ saved' \in Config
               /\ NoWrite \/ StartContentAware \/ StopContentAwareAndWrite
    <2>1. [config EXCEPT !.mode = mode] \in Config
      BY <1>0 DEF Config
    <2> QED BY <1>1, <1>4, <2>1 DEF SetMode, ClientTurn, Idle
  <1>5. ASSUME NEW enabled \in BOOLEAN, SetLightsEnabled(enabled)
        PROVE  /\ pc = "loop" /\ ~shutdown /\ NothingElse /\ config' \in Config /\ saved' \in Config
               /\ PriorityBlackout \/ StartContentAware \/ BeginWrite
    <2>1. [config EXCEPT !.enabled = enabled] \in Config
      BY <1>0 DEF Config
    <2> QED BY <1>1, <1>5, <2>1 DEF SetLightsEnabled, ClientTurn, Idle
  <1>6. ASSUME RestartCapture
        PROVE  /\ pc = "loop" /\ ~shutdown /\ NothingElse /\ config' \in Config /\ saved' \in Config
               /\ \/ engine # "none" /\ StopThen("restart")
                  \/ engine = "none" /\ pc' = "loop" /\ after' = "none" /\ ModelUnchanged /\ StartEngine
    BY <1>0, <1>6 DEF RestartCapture, ClientTurn, Idle
  <1> QED BY <1>2, <1>3, <1>4, <1>5, <1>6 DEF Client

LEMMA ClientStep ==
    ASSUME ServiceInv, Client
    PROVE  ServiceInv'
  <1>1. /\ pc = "loop" /\ NothingElse /\ config' \in Config /\ saved' \in Config
        /\ \/ BeginWrite
           \/ BeginBlackout
           \/ NoWrite
           \/ engine # "none" /\ \E next \in {"write", "blackout", "restart"} : StopThen(next)
           \/ engine = "none" /\ pc' = "loop" /\ after' = "none" /\ ModelUnchanged /\ StartEngine
    BY ClientFacts
  <1>2. ChannelPart'
    <2>1. CASE BeginWrite \/ BeginBlackout \/ NoWrite
               \/ \E next \in {"write", "blackout", "restart"} : StopThen(next)
      BY <1>1, <2>1, ChannelKept
         DEF BeginWrite, BeginBlackout, NoWrite, StopThen, EngineUnchanged, engineVars, NothingElse
    <2> QED BY <1>1, <2>1, EngineChanges DEF NothingElse
  <1>3. TypeOK'
    <2>1. /\ engine' \in {"none", "running", "stalled", "ending", "ended"}
          /\ cancelled' \in BOOLEAN /\ failed' \in BOOLEAN
          /\ sinkCall' \in {"none", "write", "sending", "blackout"}
          /\ reply' \in {"none", "ok", "error"}
      BY <1>1 DEF BeginWrite, BeginBlackout, NoWrite, StopThen, StartEngine, EngineUnchanged,
         engineVars, ServiceInv, TypeOK
    <2>2. /\ confirmed' \in Lights /\ pending' \in BOOLEAN
          /\ health' \in {"unknown", "ready", "failed"}
      BY <1>1 DEF BeginWrite, BeginBlackout, NoWrite, StopThen, MarkPending, ModelUnchanged,
         ServiceInv, TypeOK
    <2>3. /\ pc' \in {"write", "loop", "blackout", "join"}
          /\ after' \in {"none", "write", "blackout", "restart"}
      BY <1>1 DEF BeginWrite, BeginBlackout, NoWrite, StopThen
    <2> QED BY <1>1, <2>1, <2>2, <2>3 DEF NothingElse, ServiceInv, TypeOK
  <1>4. HandPart'
    BY <1>1 DEF ServiceInv, HandPart, NothingElse, BeginWrite, BeginBlackout, NoWrite, StopThen
  <1>5. ConfirmPart'
    BY <1>1 DEF ServiceInv, ConfirmPart, NothingElse, BeginWrite, BeginBlackout, NoWrite, StopThen,
       MarkPending, ModelUnchanged
  <1> QED BY <1>2, <1>3, <1>4, <1>5 DEF ServiceInv, ChannelPart

(* The steps of the service that touch no proxied command and no engine.     *)
OwnSteps ==
    \/ OpenCancelled \/ Shutdown \/ ManualWritten \/ ManualWriteCancelled
    \/ BlackoutWritten \/ BlackoutFailed \/ EngineErrorHandled \/ LeaveLoop \/ FinalBlackout

LEMMA OwnStep ==
    ASSUME ServiceInv, OwnSteps
    PROVE  ServiceInv'
  <1>1. /\ UNCHANGED <<config, saved, queue, inHand, engine, sinkCall, reply, failed, after>>
        /\ cancelled' \in BOOLEAN
    BY DEF OwnSteps, OpenCancelled, Shutdown, ManualWritten, ManualWriteCancelled, BlackoutWritten,
       BlackoutFailed, EngineErrorHandled, LeaveLoop, FinalBlackout, ServiceRests, modelVars,
       engineVars, ServiceInv, TypeOK
  <1>2. ChannelPart'
    BY <1>1, ChannelKept
  <1>3. TypeOK'
    <2>1. /\ confirmed' \in Lights /\ pending' \in BOOLEAN /\ lights' \in Lights
          /\ health' \in {"unknown", "ready", "failed"}
      BY LightFacts
         DEF OwnSteps, OpenCancelled, Shutdown, ManualWritten, ManualWriteCancelled, BlackoutWritten,
         BlackoutFailed, EngineErrorHandled, LeaveLoop, FinalBlackout, modelVars,
         ServiceInv, TypeOK, Shows, ConfirmWrite, RecordFailure
    <2>2. /\ pc' \in {"open", "loop", "dispatch", "write", "blackout", "engineBlackout",
                      "join", "finalJoin", "final", "done"}
          /\ shutdown' \in BOOLEAN
      BY DEF OwnSteps, OpenCancelled, Shutdown, ManualWritten, ManualWriteCancelled, BlackoutWritten,
         BlackoutFailed, EngineErrorHandled, LeaveLoop, FinalBlackout, ServiceRests,
         ServiceInv, TypeOK
    <2> QED BY <1>1, <2>1, <2>2 DEF ServiceInv, TypeOK
  <1>4. HandPart'
    BY <1>1
       DEF OwnSteps, OpenCancelled, Shutdown, ManualWritten, ManualWriteCancelled, BlackoutWritten,
       BlackoutFailed, EngineErrorHandled, LeaveLoop, FinalBlackout, ServiceRests, ServiceInv, HandPart
  <1>5. ConfirmPart'
    BY DEF OwnSteps, OpenCancelled, Shutdown, ManualWritten, ManualWriteCancelled, BlackoutWritten,
       BlackoutFailed, EngineErrorHandled, LeaveLoop, FinalBlackout, ServiceRests, modelVars,
       ServiceInv, ConfirmPart, Shows, ConfirmWrite, RecordFailure
  <1> QED BY <1>2, <1>3, <1>4, <1>5 DEF ServiceInv, ChannelPart

(* The steps of the service that start an engine or let one go.              *)
EngineSteps == Opened \/ Joined \/ EngineEndNoticed \/ FinalJoined

LEMMA EngineStep ==
    ASSUME ServiceInv, EngineSteps
    PROVE  ServiceInv'
  <1>1. UNCHANGED <<config, saved, queue, inHand, shutdown>> /\ pc # "dispatch" /\ pc' # "dispatch"
    BY DEF EngineSteps, Opened, Joined, EngineEndNoticed, FinalJoined, modelVars, ClientTurn, Idle
  <1>2. /\ engine \in {"none", "ended"} \/ UNCHANGED engineVars
        /\ EngineGone \/ StartEngine \/ UNCHANGED engineVars
    BY DEF EngineSteps, Opened, Joined, EngineEndNoticed, FinalJoined, EngineUnchanged,
       ServiceInv, HandPart
  <1>3. ChannelPart'
    <2>1. CASE UNCHANGED engineVars
      BY <1>1, <2>1, ChannelKept DEF engineVars
    <2> QED BY <1>1, <1>2, <2>1, EngineChanges
  <1>4. TypeOK'
    <2>1. /\ engine' \in {"none", "running", "stalled", "ending", "ended"}
          /\ cancelled' \in BOOLEAN /\ failed' \in BOOLEAN
          /\ sinkCall' \in {"none", "write", "sending", "blackout"}
          /\ reply' \in {"none", "ok", "error"}
      BY <1>2 DEF EngineGone, StartEngine, engineVars, ServiceInv, TypeOK
    <2>2. /\ confirmed' \in Lights /\ pending' \in BOOLEAN /\ lights' \in Lights
          /\ health' \in {"unknown", "ready", "failed"}
      BY LightFacts DEF EngineSteps, Opened, Joined, EngineEndNoticed, FinalJoined, modelVars,
         ModelUnchanged, MarkPending, Shows, ServiceInv, TypeOK
    <2>3. /\ pc' \in {"write", "loop", "blackout", "engineBlackout", "final"}
          /\ after' \in {"none", "write", "blackout", "restart"}
      BY DEF EngineSteps, Opened, Joined, EngineEndNoticed, FinalJoined, ServiceInv, TypeOK
    <2> QED BY <1>1, <2>1, <2>2, <2>3 DEF ServiceInv, TypeOK
  <1>5. HandPart'
    BY <1>1 DEF EngineSteps, Opened, Joined, EngineEndNoticed, FinalJoined, ServiceInv, HandPart
  <1>6. ConfirmPart'
    BY DEF EngineSteps, Opened, Joined, EngineEndNoticed, FinalJoined, modelVars, ClientTurn, Idle,
       ModelUnchanged, MarkPending, Shows, ServiceInv, ConfirmPart
  <1> QED BY <1>3, <1>4, <1>5, <1>6 DEF ServiceInv, ChannelPart

(* A proxied command is taken and dispatched.                                *)
LEMMA TakeStep ==
    ASSUME ServiceInv, TakeProxyCommand
    PROVE  ServiceInv'
  <1>1. /\ UNCHANGED <<modelVars, after, shutdown, lights, engineVars>>
        /\ pc = "loop" /\ pc' = "dispatch" /\ inHand' # NoCommand
    BY TakeFacts, CommandFacts DEF TakeProxyCommand, Idle
  <1>2. TypeOK'
    BY <1>1, TakeFacts DEF ServiceInv, TypeOK, modelVars, engineVars
  <1>3. HandPart' /\ ConfirmPart'
    BY <1>1 DEF ServiceInv, HandPart, ConfirmPart, modelVars
  <1> QED BY <1>2, <1>3, TakeFacts DEF ServiceInv, ChannelPart

Dispatches == DispatchWrite \/ DispatchExpired \/ DispatchCancelled \/ DispatchBlackout

LEMMA DispatchStep ==
    ASSUME ServiceInv, Dispatches
    PROVE  ServiceInv'
  <1>1. pc = "dispatch" /\ Dispatched /\ \E value \in {"ok", "error"} : Answer(value)
    BY DEF Dispatches, DispatchWrite, DispatchExpired, DispatchCancelled, DispatchBlackout
  <1>2. inHand' = NoCommand /\ reply' \in {"none", "ok", "error"} /\ ChannelPart'
    BY <1>1, DispatchFacts
  <1>3. /\ confirmed' \in Lights /\ pending' \in BOOLEAN /\ lights' \in Lights
        /\ health' \in {"unknown", "ready", "failed"}
    BY LightFacts DEF Dispatches, DispatchWrite, DispatchExpired, DispatchCancelled,
       DispatchBlackout, ConfirmWrite, RecordFailure, ModelUnchanged, Shows, ServiceInv, TypeOK
  <1>4. TypeOK'
    BY <1>1, <1>2, <1>3 DEF Dispatched, ServiceInv, TypeOK
  <1>5. HandPart'
    BY <1>1, <1>2 DEF Dispatched, HandPart
  <1>6. ConfirmPart'
    BY DEF Dispatches, DispatchWrite, DispatchExpired, DispatchCancelled, DispatchBlackout,
       ConfirmWrite, RecordFailure, ModelUnchanged, Shows, ServiceInv, ConfirmPart
  <1> QED BY <1>2, <1>4, <1>5, <1>6 DEF ServiceInv, ChannelPart

(* The engine.                                                               *)
WriterSteps ==
    \/ EngineWrite \/ EngineStall \/ EngineLeave \/ EngineCalls \/ EngineBlackoutTimeout

LEMMA WriterStep ==
    ASSUME ServiceInv, WriterSteps
    PROVE  ServiceInv'
  <1>1. UNCHANGED <<modelVars, pc, after, shutdown, lights, cancelled>>
    BY DEF WriterSteps, EngineCalls, EngineWrite, EngineStall, EngineLeave, EngineWriteAnswered,
       EngineSendBlackout, EngineBlackoutAnswered, EngineBlackoutTimeout, serviceVars
  <1>2. /\ ChannelPart' /\ queue' \in Seq(ProxyCommand) /\ Len(queue') <= ProxyLength
        /\ inHand' = inHand \/ inHand' = Unawaited(inHand)
    <2>1. CASE EngineWrite \/ EngineSendBlackout
      BY <2>1, SendFacts DEF EngineWrite, EngineSendBlackout, serviceVars
    <2>2. CASE EngineWriteAnswered \/ EngineBlackoutAnswered
      BY <2>2, AnsweredFacts DEF EngineWriteAnswered, EngineBlackoutAnswered, serviceVars,
         ServiceInv, TypeOK
    <2>3. CASE EngineStall \/ EngineLeave \/ EngineBlackoutTimeout
      BY <2>3, GiveUpFacts
    <2> QED BY <2>1, <2>2, <2>3 DEF WriterSteps, EngineCalls
  <1>3. /\ inHand' \in ProxyCommand \cup {NoCommand}
        /\ inHand' = NoCommand <=> inHand = NoCommand
    BY <1>2, HandFacts DEF ServiceInv, TypeOK
  <1>4. /\ engine' \in {"none", "running", "stalled", "ending", "ended"}
        /\ failed' \in BOOLEAN /\ sinkCall' \in {"none", "write", "sending", "blackout"}
        /\ reply' \in {"none", "ok", "error"}
        /\ engine # "none"
    BY DEF WriterSteps, EngineCalls, EngineWrite, EngineStall, EngineLeave, EngineWriteAnswered,
       EngineSendBlackout, EngineBlackoutAnswered, EngineBlackoutTimeout, GiveUpCall,
       ServiceInv, TypeOK, SinkCallPart
  <1>5. TypeOK'
    BY <1>1, <1>2, <1>3, <1>4 DEF ServiceInv, TypeOK, modelVars
  <1>6. HandPart' /\ ConfirmPart'
    BY <1>1, <1>3, <1>4 DEF ServiceInv, HandPart, ConfirmPart, modelVars
  <1> QED BY <1>2, <1>5, <1>6 DEF ServiceInv, ChannelPart

LEMMA ServiceStutter ==
    ASSUME ServiceInv, UNCHANGED vars
    PROVE  ServiceInv'
  <1>1. ChannelPart'
    BY ChannelKept DEF vars, engineVars, serviceVars
  <1>2. TypeOK' /\ HandPart' /\ ConfirmPart'
    BY DEF ServiceInv, TypeOK, HandPart, ConfirmPart, vars, modelVars, engineVars, serviceVars
  <1> QED BY <1>1, <1>2 DEF ServiceInv, ChannelPart

LEMMA NextCases ==
    ASSUME Next
    PROVE  \/ Client \/ OwnSteps \/ EngineSteps \/ TakeProxyCommand \/ Dispatches \/ WriterSteps
  BY DEF Next, Boot, Writes, Blackouts, Loop, OwnSteps, EngineSteps, Dispatches, WriterSteps

LEMMA ServiceStep == ServiceInv /\ [Next]_vars => ServiceInv'
  BY NextCases, ClientStep, OwnStep, EngineStep, TakeStep, DispatchStep, WriterStep, ServiceStutter

LEMMA ServiceInvariant == Spec => []ServiceInv
  BY ServiceInit, ServiceStep, PTL DEF Spec

(* What the service tells its clients is confirmed is what the speaker shows *)
(* or darkness, for any length of the channel and any manual colours, with   *)
(* captures restarted at will or not, and every state is well-typed.         *)
THEOREM ConfirmedIsShown == Spec => []ConfirmedOrDark
  <1>1. ServiceInv => ConfirmedOrDark
    BY DEF ServiceInv, ConfirmPart, ConfirmedOrDark
  <1> QED BY <1>1, ServiceInvariant, PTL

-----------------------------------------------------------------------------
(* Clients that restart the capture only while content-aware lighting is on. *)
ServiceGoal == WantedPart' /\ FollowPart'

LEMMA WantedInit == Init => WantedInv
  BY ServiceInit DEF Init, WantedInv, WantedPart, FollowPart

LEMMA WantedClient ==
    ASSUME WantedInv, Client, RestartAtWill = FALSE
    PROVE  ServiceGoal
  <1>0. /\ config \in Config /\ config.enabled \in BOOLEAN /\ config.mode \in {"manual", "content"}
        /\ pc = "loop" /\ UNCHANGED <<inHand, queue, lights>>
    BY LightFacts, ClientFacts DEF WantedInv, ServiceInv, TypeOK, NothingElse
  <1>1. engine # "none" => ContentWanted /\ ~cancelled
    BY <1>0 DEF WantedInv, WantedPart
  <1>2. ASSUME pc' = "write" \/ pc' = "blackout", engine = "none", EngineUnchanged PROVE ServiceGoal
    BY <1>2 DEF EngineUnchanged, engineVars, ServiceGoal, WantedPart, FollowPart
  <1>3. ASSUME StopThen("write") \/ StopThen("blackout") PROVE ServiceGoal
    BY <1>3 DEF StopThen, ServiceGoal, WantedPart, FollowPart
  <1>4. ASSUME NEW colour \in ManualColours, SetManualZones(colour) PROVE ServiceGoal
    <2>1. engine = "none"
      BY <1>1, <1>4 DEF SetManualZones, ContentWanted
    <2>2. CASE config.enabled
      BY <1>2, <1>4, <2>1, <2>2 DEF SetManualZones, BeginWrite
    <2>3. CASE ~config.enabled
      <3>1. ~config'.enabled /\ config'.mode = config.mode
        BY <1>0, <1>4, <2>3 DEF SetManualZones, Configure, Config
      <3>2. NoWrite
        BY <1>4, <2>3 DEF SetManualZones
      <3> QED BY <1>0, <2>1, <2>3, <3>1, <3>2
          DEF NoWrite, ModelUnchanged, EngineUnchanged, engineVars, WantedInv, ServiceGoal,
              WantedPart, FollowPart
    <2> QED BY <2>2, <2>3
  <1>5. ASSUME NEW mode \in {"manual", "content"}, SetMode(mode) PROVE ServiceGoal
    <2>1. config'.mode = mode /\ config'.enabled = config.enabled
      BY <1>0, <1>5 DEF SetMode, Configure, Config
    <2>2. CASE ~config.enabled
      <3>1. NoWrite /\ engine = "none"
        <4>1. NoWrite
          BY <1>5, <2>2 DEF SetMode
        <4> QED BY <1>1, <2>2, <4>1 DEF ContentWanted
      <3> QED BY <1>0, <2>1, <2>2, <3>1
          DEF NoWrite, ModelUnchanged, EngineUnchanged, engineVars, WantedInv, ServiceGoal,
              WantedPart, FollowPart
    <2>3. CASE config.enabled /\ mode = "content"
      <3>1. engine = "none" /\ StartContentAware /\ config'.mode = "content"
        BY <1>1, <1>5, <2>1, <2>3 DEF SetMode, ContentWanted
      <3> QED BY <1>0, <2>1, <2>3, <3>1
          DEF StartContentAware, StartEngine, ServiceGoal, WantedPart, FollowPart, ContentWanted
    <2>4. CASE config.enabled /\ mode = "manual"
      <3>1. StopContentAwareAndWrite
        BY <1>5, <2>4 DEF SetMode
      <3> QED BY <1>2, <1>3, <3>1 DEF StopContentAwareAndWrite, BeginWrite
    <2> QED BY <1>0, <2>2, <2>3, <2>4
  <1>6. ASSUME NEW enabled \in BOOLEAN, SetLightsEnabled(enabled) PROVE ServiceGoal
    <2>1. config'.mode = config.mode /\ config'.enabled = enabled /\ config.enabled # enabled
      BY <1>0, <1>6 DEF SetLightsEnabled, Configure, Config
    <2>2. CASE ~enabled
      <3>1. PriorityBlackout
        BY <1>6, <2>2 DEF SetLightsEnabled
      <3> QED BY <1>2, <1>3, <3>1 DEF PriorityBlackout, BeginBlackout
    <2>3. CASE enabled
      <3>1. engine = "none"
        BY <1>0, <1>1, <2>1, <2>3 DEF ContentWanted
      <3>2. CASE config.mode = "content"
        <4>1. StartContentAware
          BY <1>6, <2>3, <3>2 DEF SetLightsEnabled
        <4> QED BY <1>0, <2>1, <2>3, <3>1, <3>2, <4>1
            DEF StartContentAware, StartEngine, ServiceGoal, WantedPart, FollowPart, ContentWanted
      <3>3. CASE config.mode # "content"
        <4>1. BeginWrite
          BY <1>6, <2>3, <3>3 DEF SetLightsEnabled
        <4> QED BY <1>2, <3>1, <4>1 DEF BeginWrite
      <3> QED BY <3>2, <3>3
    <2> QED BY <2>2, <2>3
  <1>7. ASSUME RestartCapture PROVE ServiceGoal
    <2>1. ContentWanted /\ config' = config
      BY <1>7 DEF RestartCapture
    <2>2. ContentWanted'
      BY <2>1 DEF ContentWanted
    <2>3. CASE engine # "none"
      BY <1>7, <2>2, <2>3 DEF RestartCapture, StopThen, ServiceGoal, WantedPart, FollowPart
    <2>4. CASE engine = "none"
      BY <1>7, <2>1, <2>2, <2>4 DEF RestartCapture, StartEngine, ServiceGoal, WantedPart,
         FollowPart, ContentWanted
    <2> QED BY <2>3, <2>4
  <1> QED BY <1>4, <1>5, <1>6, <1>7 DEF Client

(* What the service writes itself follows the configuration.                 *)
LEMMA WantedOwn ==
    ASSUME WantedInv, OwnSteps
    PROVE  ServiceGoal
  <1>1. /\ UNCHANGED <<config, inHand, engine>> /\ ContentWanted' = ContentWanted
    BY DEF OwnSteps, OpenCancelled, Shutdown, ManualWritten, ManualWriteCancelled, BlackoutWritten,
       BlackoutFailed, EngineErrorHandled, LeaveLoop, FinalBlackout, ServiceRests, modelVars,
       engineVars, ContentWanted
  <1>2. /\ ManualTarget(config) = IF config.enabled THEN config.manual ELSE Black
        /\ config.enabled \in BOOLEAN
    BY LightFacts DEF WantedInv, ServiceInv
  <1>3. WantedPart'
    BY <1>1
       DEF OwnSteps, OpenCancelled, Shutdown, ManualWritten, ManualWriteCancelled, BlackoutWritten,
       BlackoutFailed, EngineErrorHandled, LeaveLoop, FinalBlackout, ServiceRests, engineVars,
       WantedInv, WantedPart
  <1>4. FollowPart'
    BY <1>1, <1>2
       DEF OwnSteps, OpenCancelled, Shutdown, ManualWritten, ManualWriteCancelled, BlackoutWritten,
       BlackoutFailed, EngineErrorHandled, LeaveLoop, FinalBlackout, ServiceRests, modelVars,
       WantedInv, FollowPart, Shows, ConfirmWrite, RecordFailure
  <1> QED BY <1>3, <1>4 DEF ServiceGoal

LEMMA WantedEngine ==
    ASSUME WantedInv, EngineSteps
    PROVE  ServiceGoal
  <1>1. UNCHANGED <<config, inHand>> /\ ContentWanted' = ContentWanted
    BY DEF EngineSteps, Opened, Joined, EngineEndNoticed, FinalJoined, modelVars, ContentWanted
  <1>2. pc = "open" => engine = "none"
    BY DEF WantedInv, ServiceInv, HandPart
  <1>3. config.enabled \in BOOLEAN /\ config.mode \in {"manual", "content"}
    BY LightFacts DEF WantedInv, ServiceInv
  <1>4. WantedPart'
    <2>1. CASE Opened
      BY <1>1, <1>2, <1>3, <2>1 DEF Opened, StartEngine, EngineUnchanged, engineVars, WantedPart,
         ContentWanted
    <2>2. CASE Joined
      BY <1>1, <2>2 DEF Joined, StartEngine, EngineGone, WantedInv, WantedPart
    <2>3. CASE EngineEndNoticed \/ FinalJoined
      BY <1>1, <2>3 DEF EngineEndNoticed, FinalJoined, EngineGone, WantedPart
    <2> QED BY <2>1, <2>2, <2>3 DEF EngineSteps
  <1>5. FollowPart'
    <2>1. CASE Opened
      BY <2>1 DEF Opened, Shows, FollowPart
    <2>2. CASE Joined
      <3>1. pc' = "loop" => ContentWanted'
        BY <1>1, <2>2 DEF Joined, WantedInv, WantedPart
      <3> QED BY <2>2, <3>1 DEF Joined, FollowPart, ContentWanted
    <2>3. CASE EngineEndNoticed \/ FinalJoined
      BY <2>3 DEF EngineEndNoticed, FinalJoined, modelVars, ClientTurn, Idle, WantedInv, FollowPart
    <2> QED BY <2>1, <2>2, <2>3 DEF EngineSteps
  <1> QED BY <1>4, <1>5 DEF ServiceGoal

LEMMA WantedTake ==
    ASSUME WantedInv, TakeProxyCommand
    PROVE  ServiceGoal
  <1>1. /\ UNCHANGED <<config, lights, health, engine, cancelled>> /\ ContentWanted' = ContentWanted
        /\ pc = "loop" /\ pc' = "dispatch"
    BY DEF TakeProxyCommand, Idle, modelVars, engineVars, ContentWanted
  <1>2. Fresh(inHand') => Alive
    BY TakeFacts DEF WantedInv
  <1>3. Fresh(inHand)' => ContentWanted
    BY <1>1, <1>2 DEF Fresh, WantedInv, WantedPart, Alive
  <1> QED BY <1>1, <1>3 DEF WantedInv, ServiceGoal, WantedPart, FollowPart

(* A write in hand that is not stale is wanted: it may light the speaker.    *)
LEMMA WantedDispatch ==
    ASSUME WantedInv, Dispatches
    PROVE  ServiceGoal
  <1>1. /\ UNCHANGED <<config, engine, cancelled>> /\ ContentWanted' = ContentWanted
        /\ pc = "dispatch" /\ pc' = "loop"
    BY DEF Dispatches, DispatchWrite, DispatchExpired, DispatchCancelled, DispatchBlackout,
       Dispatched, ContentWanted
  <1>2. WantedPart'
    BY <1>1 DEF WantedInv, WantedPart
  <1>3. FollowPart'
    <2>1. CASE DispatchWrite
      <3>1. ContentWanted
        BY <2>1 DEF DispatchWrite, WantedInv, WantedPart, Fresh
      <3> QED BY <1>1, <3>1 DEF FollowPart, ContentWanted
    <2>2. CASE DispatchExpired \/ DispatchCancelled \/ DispatchBlackout
      BY <1>1, <2>2 DEF DispatchExpired, DispatchCancelled, DispatchBlackout, Shows, ConfirmWrite,
         RecordFailure, ModelUnchanged, WantedInv, FollowPart
    <2> QED BY <2>1, <2>2 DEF Dispatches
  <1> QED BY <1>2, <1>3 DEF ServiceGoal

LEMMA WantedWriter ==
    ASSUME WantedInv, WriterSteps
    PROVE  ServiceGoal
  <1>1. /\ UNCHANGED <<config, health, pc, after, lights, cancelled>>
        /\ ContentWanted' = ContentWanted
        /\ inHand' = inHand \/ inHand' = Unawaited(inHand)
        /\ engine' # "none" => engine # "none"
    BY DEF WriterSteps, EngineCalls, EngineWrite, EngineStall, EngineLeave, EngineWriteAnswered,
       EngineSendBlackout, EngineBlackoutAnswered, EngineBlackoutTimeout, GiveUpCall, serviceVars,
       modelVars, ContentWanted, WantedInv, ServiceInv, SinkCallPart
  <1>2. pc = "dispatch" => (Fresh(inHand)' <=> Fresh(inHand))
    <2>1. pc = "dispatch" => inHand # NoCommand
      BY DEF WantedInv, ServiceInv, HandPart
    <2>2. pc = "dispatch" => (Fresh(inHand') <=> Fresh(inHand))
      BY <1>1, <2>1, HandFacts DEF WantedInv, ServiceInv
    <2> QED BY <2>2 DEF Fresh
  <1> QED BY <1>1, <1>2 DEF WantedInv, ServiceGoal, WantedPart, FollowPart

LEMMA WantedStep ==
    ASSUME RestartAtWill = FALSE
    PROVE  WantedInv /\ [Next]_vars => WantedInv'
  <1> SUFFICES ASSUME WantedInv, [Next]_vars PROVE WantedInv'
    OBVIOUS
  <1>1. ServiceInv'
    BY ServiceStep DEF WantedInv
  <1>2. ASSUME UNCHANGED vars PROVE ServiceGoal
    BY <1>2 DEF vars, modelVars, serviceVars, engineVars, WantedInv, ServiceGoal, WantedPart,
       FollowPart, ContentWanted, Fresh
  <1>3. ServiceGoal
    BY <1>2, NextCases, WantedClient, WantedOwn, WantedEngine, WantedTake, WantedDispatch,
       WantedWriter
  <1> QED BY <1>1, <1>3 DEF ServiceGoal, WantedInv

LEMMA WantedInvariant ==
    ASSUME RestartAtWill = FALSE
    PROVE  Spec => []WantedInv
  BY WantedInit, WantedStep, PTL DEF Spec

(* As long as clients restart the capture only in content-aware mode with    *)
(* the lights on: between two commands, when the last write or blackout went *)
(* through, the speaker is dark with the lights off and shows the client's   *)
(* colour or nothing in manual mode, whatever engines left in the channel.   *)
THEOREM ConfigIsFollowed ==
    ASSUME RestartAtWill = FALSE
    PROVE  Spec => []LightsFollowConfig
  <1>1. WantedInv => LightsFollowConfig
    BY DEF WantedInv, FollowPart, LightsFollowConfig
  <1> QED BY <1>1, WantedInvariant, PTL

(* And an engine runs between two commands only in that mode, and was not    *)
(* told to stop.                                                             *)
THEOREM EngineIsWanted ==
    ASSUME RestartAtWill = FALSE
    PROVE  Spec => []EngineOnlyWhenWanted
  <1>1. WantedInv => EngineOnlyWhenWanted
    BY DEF WantedInv, WantedPart, EngineOnlyWhenWanted
  <1> QED BY <1>1, WantedInvariant, PTL
=============================================================================
