------------------------ MODULE WatchIngressProofs ------------------------
(***************************************************************************)
(* Theorems about WatchIngress, for every set of files, every capacity and *)
(* every bound: the barrier's bookkeeping stays well formed, a raised      *)
(* quarantine can never be slept through by drain_loop, and, when the      *)
(* watcher comes to rest, Studio holds the files the disk holds, through   *)
(* every edit, overflow, fault, resync, lag and reconnection.              *)
(***************************************************************************)
EXTENDS WatchIngress, TLAPS

USE BoundsAssumption DEF BoundsAssumption

(* What can be waiting in the two channels. *)
Items  == Batch \cup {Wake}
Events == Op \cup {Resync}

(* Waking the drain respects the queue's capacity and leaves an item in it. *)
LEMMA WakeDrainType ==
    ASSUME TypeOK, WakeDrain
    PROVE  queue' \in Seq(Items) /\ Len(queue') <= QueueCap /\ queue' # <<>>
<1>1. queue \in Seq(Items) /\ Len(queue) <= QueueCap /\ Wake \in Items BY DEF TypeOK, Items
<1>2. CASE Len(queue) < QueueCap BY <1>1, <1>2 DEF WakeDrain
<1>3. CASE ~(Len(queue) < QueueCap) BY <1>1, <1>3 DEF WakeDrain
<1> QED BY <1>2, <1>3

(* Broadcasting respects the channel's capacity, by losing the oldest. *)
LEMMA BroadcastType ==
    ASSUME TypeOK, NEW event \in Events, Broadcast(event)
    PROVE  /\ channel' \in Seq(Events) /\ Len(channel') <= ChannelCap
           /\ lagged' \in BOOLEAN
<1>1. channel \in Seq(Events) /\ Len(channel) <= ChannelCap BY DEF TypeOK, Events
<1>2. CASE Len(channel) < ChannelCap BY SMTT(60), <1>1, <1>2 DEF Broadcast, TypeOK
<1>3. CASE ~(Len(channel) < ChannelCap)
  <2>1. channel # <<>> /\ Len(channel) = ChannelCap BY <1>1, <1>3
  <2>2. /\ Tail(channel) \in Seq(Events)
        /\ Len(Tail(channel)) = Len(channel) - 1
    BY <1>1, <2>1
  <2> QED BY <1>3, <2>1, <2>2 DEF Broadcast
<1> QED BY <1>2, <1>3

(* A flush empties the queue and ends the quarantine. *)
LEMMA FlushType ==
    ASSUME TypeOK, Flush
    PROVE  /\ quarantine # "none" /\ quarantine' = "none"
           /\ queue' = <<>> /\ queue' \in Seq(Items)
           /\ Len(queue') <= QueueCap
           /\ generation' \in Nat /\ discarded' \in Nat
           /\ discarded' <= generation'
           /\ channel' \in Seq(Events) /\ Len(channel') <= ChannelCap
           /\ lagged' \in BOOLEAN
<1>1. CASE quarantine = "resync"
  <2>1. Broadcast(Resync) BY <1>1 DEF Flush
  <2> QED BY <2>1, BroadcastType DEF Flush, TypeOK, Events
<1>2. CASE quarantine # "resync" BY <1>2 DEF Flush, TypeOK, chanVars, Events
<1> QED BY <1>1, <1>2

(* Raising a quarantine only ever moves the generation forward. *)
LEMMA ActivateType ==
    ASSUME TypeOK, NEW silently \in BOOLEAN, Activate(silently)
    PROVE  /\ generation' \in Nat /\ generation <= generation'
           /\ quarantine' \in {"resync", "silent"}
BY DEF Activate, TypeOK, barrierVars

(* Every step keeps the types. *)
LEMMA TypesKept ==
    ASSUME TypeOK, [Next]_vars
    PROVE  TypeOK'
<1> USE DEF TypeOK, diskVars, callVars, barrierVars, drainVars, chanVars,
            bridgeVars, peerVars
<1>1. ASSUME NEW f \in Files, Edit(f) PROVE TypeOK' BY SMTT(60), <1>1 DEF Edit, DiskChange
<1>2. ASSUME NEW f \in Files, NEW g \in Files, Move(f, g) PROVE TypeOK'
  <2> DEFINE one == [budget EXCEPT !.edits = @ + 1]
  <2>1. budget' \in [edits : Nat, moves : Nat, faults : Nat]
    <3>1. one \in [edits : Nat, moves : Nat, faults : Nat] BY SMTT(60)
    <3>2. budget' = [one EXCEPT !.moves = @ + 1] BY <1>2 DEF Move
    <3> HIDE DEF one
    <3> QED BY ONLY <3>1, <3>2
  <2>2. disk' \subseteq Files BY <1>2 DEF Move
  <2> QED BY SMTT(60), <1>2, <2>1, <2>2 DEF Move
<1>3. CASE TagBatch
  <2>1. tagged' \in Batch BY <1>3 DEF TagBatch, Batch
  <2> QED BY ZenonT(60), <1>3, <2>1 DEF TagBatch
<1>4. CASE BackendFault BY SMTT(60), <1>4 DEF BackendFault, Fault
<1>5. CASE EnqueueBatch
  <2>1. queue \in Seq(Items) /\ Len(queue) <= QueueCap /\ tagged \in Items BY DEF Items
  <2> USE <1>5 DEF EnqueueBatch
  <2>2. CASE Len(queue) < QueueCap
    <3>1. /\ Append(queue, tagged) \in Seq(Items)
          /\ Len(Append(queue, tagged)) = Len(queue) + 1
      BY <2>1
    <3>2. queue' = Append(queue, tagged) /\ callback' = "idle" BY <2>2
    <3> QED BY <2>1, <2>2, <3>1, <3>2 DEF Items
  <2>3. CASE ~(Len(queue) < QueueCap) BY <2>3
  <2> QED BY <2>2, <2>3
<1>6. CASE CallbackActivates
  <2> USE <1>6 DEF CallbackActivates
  <2>1. /\ generation' \in Nat /\ generation <= generation'
        /\ quarantine' \in {"resync", "silent"}
    BY ActivateType
  <2>2. discarded' <= generation' BY <2>1
  <2> QED BY <2>1, <2>2
<1>7. CASE CallbackWakes BY <1>7, WakeDrainType DEF CallbackWakes, Items
<1>8. CASE TakeItem
  <2>1. queue \in Seq(Items) /\ queue # <<>> BY <1>8 DEF TakeItem, Items
  <2>2. /\ Head(queue) \in Items /\ Tail(queue) \in Seq(Items)
        /\ Len(Tail(queue)) = Len(queue) - 1
    BY <2>1
  <2> QED BY <1>8, <2>2 DEF TakeItem, Items
<1>9. CASE CheckItem
  <2>1. CASE Flush BY <1>9, <2>1, FlushType DEF CheckItem, Events, Items
  <2>2. CASE ~Flush BY <1>9, <2>2 DEF CheckItem, Items
  <2> QED BY <2>1, <2>2
<1>10. CASE PlanBatch
  <2>0. \A f \in Files : [path |-> f, present |-> f \in disk] \in Op
    <3> SUFFICES ASSUME NEW f \in Files
                 PROVE  [path |-> f, present |-> f \in disk] \in Op
      OBVIOUS
    <3>1. (f \in disk) \in BOOLEAN OBVIOUS
    <3> QED BY ONLY <3>1, f \in Files, Zenon DEF Op
  <2>1. plan' \subseteq Op
    <3>1. CASE held.oneSided
      <4>1. plan' = {[path |-> f, present |-> f \in disk] :
                       f \in (manifest \ disk) \cup (disk \ manifest)}
        BY <1>10, <3>1 DEF PlanBatch
      <4> QED BY <2>0, <4>1
    <3>2. CASE ~held.oneSided
      <4>1. held \in Batch BY <1>10 DEF PlanBatch, Batch
      <4>2. plan' = {[path |-> f, present |-> f \in disk] :
                       f \in held.paths}
        BY <1>10, <3>2 DEF PlanBatch
      <4> QED BY <2>0, <4>1, <4>2 DEF Batch
    <3> QED BY <3>1, <3>2
  <2> QED BY <1>10, <2>1 DEF PlanBatch
<1>11. CASE DrainFault
  <2> USE <1>11 DEF DrainFault
  <2>1. /\ generation' \in Nat /\ generation <= generation'
        /\ quarantine' \in {"resync", "silent"}
    BY ActivateType
  <2>2. discarded' <= generation' BY <2>1
  <2> QED BY SMTT(60), <2>1, <2>2 DEF Fault
<1>12. CASE DrainFlushes BY <1>12, FlushType DEF DrainFlushes, Events, Items
<1>13. CASE PublishOp
  <2> USE <1>13 DEF PublishOp, Events
  <2>1. CASE Flush /\ plan' = {} /\ drain' = "recv" /\ UNCHANGED applied
    BY <2>1, FlushType DEF Items
  <2>2. CASE /\ UNCHANGED <<barrierVars, queue, discarded>>
             /\ drain' = "applying"
             /\ \E op \in plan : /\ Broadcast(op)
                                  /\ plan' = plan \ {op}
                                  /\ applied' = {op}
    <3>1. PICK op \in plan : /\ Broadcast(op)
                             /\ plan' = plan \ {op} /\ applied' = {op}
      BY <2>2
    <3>2. op \in Events OBVIOUS
    <3> QED BY <2>2, <3>1, <3>2, BroadcastType
  <2> QED BY <2>1, <2>2
<1>14. CASE ApplyToManifest
  <2>1. PICK op \in applied :
               manifest' = After(manifest, [op EXCEPT !.present =
                                              @ /\ op.path \in disk])
    BY <1>14 DEF ApplyToManifest
  <2>2. op.path \in Files BY <2>1 DEF Op
  <2>3. manifest' \subseteq Files BY <2>1, <2>2 DEF After, Op
  <2> QED BY <1>14, <2>3 DEF ApplyToManifest
<1>15. CASE FinishBatch BY <1>15 DEF FinishBatch
<1>16. CASE ReceiveOp
  <2> USE <1>16 DEF ReceiveOp
  <2>1. channel \in Seq(Events) /\ channel # <<>> BY DEF Events
  <2>2. /\ Head(channel) \in Events /\ Tail(channel) \in Seq(Events)
        /\ Len(Tail(channel)) = Len(channel) - 1
    BY <2>1
  <2>3. {Head(channel)} \subseteq Op BY <2>2 DEF Events
  <2>4. channel' \in Seq(Events) /\ Len(channel') <= ChannelCap BY <2>2
  <2>5. budget' \in [edits : Nat, moves : Nat, faults : Nat]
    <3>1. budget' = budget \/ budget' = [budget EXCEPT !.faults = @ + 1] BY DEF Fault
    <3> QED BY SMTT(60), <3>1
  <2>6. handling' \subseteq Op /\ bridge' \in {"grace", "resetting"} BY <2>3
  <2> QED BY <2>4, <2>5, <2>6 DEF Events
<1>17. CASE EmitOp
  <2>1. PICK op \in handling :
               studio' = IF linked THEN After(studio, op) ELSE studio
    BY <1>17 DEF EmitOp
  <2>2. studio' \subseteq Files BY <2>1 DEF After, Op
  <2> QED BY <1>17, <2>2 DEF EmitOp
<1>18. CASE ReceiveResync
  <2>1. channel' \in Seq(Events) /\ Len(channel') <= ChannelCap
    <3>1. CASE lagged BY <1>18, <3>1 DEF ReceiveResync, Events
    <3>2. CASE ~lagged
      <4>1. /\ channel \in Seq(Events) /\ channel # <<>>
            /\ channel' = Tail(channel)
        BY <1>18, <3>2 DEF ReceiveResync, Events
      <4>2. /\ Tail(channel) \in Seq(Events)
            /\ Len(Tail(channel)) = Len(channel) - 1
        BY <4>1
      <4> QED BY <4>1, <4>2
    <3> QED BY <3>1, <3>2
  <2> QED BY ZenonT(60), <1>18, <2>1 DEF ReceiveResync, Events
<1>19. CASE ResetActivates
  <2> USE <1>19 DEF ResetActivates
  <2>1. /\ generation' \in Nat /\ generation <= generation'
        /\ quarantine' \in {"resync", "silent"}
    BY ActivateType
  <2>2. discarded' <= generation' BY <2>1
  <2> QED BY <2>1, <2>2
<1>20. CASE ResetWakes BY <1>20, WakeDrainType DEF ResetWakes, Items
<1>21. CASE ResetScans BY SMTT(60), <1>21 DEF ResetScans, Fault
<1>22. CASE ResetStores BY <1>22 DEF ResetStores
<1>23. CASE ResetSubscribes
  <2>1. <<>> \in Seq(Op \cup {Resync}) /\ Len(<<>>) <= ChannelCap OBVIOUS
  <2> QED BY ZenonT(60), <1>23, <2>1 DEF ResetSubscribes
<1>24. CASE AnnounceShutdown BY ZenonT(60), <1>24 DEF AnnounceShutdown
<1>25. CASE Reconnect BY <1>25 DEF Reconnect
<1>26. CASE UNCHANGED vars BY <1>26 DEF vars
<1> QED BY <1>1, <1>2, <1>3, <1>4, <1>5, <1>6, <1>7, <1>8, <1>9, <1>10, <1>11, <1>12, <1>13,
   <1>14, <1>15, <1>16, <1>17, <1>18, <1>19, <1>20, <1>21, <1>22, <1>23, <1>24, <1>25, <1>26
   DEF Next, Callback, Drain, Bridge

(* Every variable keeps its type, both channels stay within their capacity, and no
   generation is discarded before it exists. *)
THEOREM TypeCorrect == Spec => []TypeOK
<1>1. Init => TypeOK
  <2> SUFFICES ASSUME Init PROVE TypeOK OBVIOUS
  <2>1. NoBatch \in Batch BY DEF NoBatch, Batch
  <2>2. budget \in [edits : Nat, moves : Nat, faults : Nat] BY DEF Init
  <2>3. queue \in Seq(Batch \cup {Wake}) /\ Len(queue) <= QueueCap BY DEF Init
  <2>4. channel \in Seq(Op \cup {Resync}) /\ Len(channel) <= ChannelCap BY DEF Init
  <2>5. disk \subseteq Files /\ manifest \subseteq Files /\ studio \subseteq Files
    BY DEF Init
  <2>6. held \in Batch \cup {Wake} /\ (drain = "planning" => held # Wake) BY DEF Init
  <2>7. discarded \in Nat /\ discarded <= generation /\ generation \in Nat BY DEF Init
  <2> QED BY <2>1, <2>2, <2>3, <2>4, <2>5, <2>6, <2>7 DEF Init, TypeOK
<1>2. TypeOK /\ [Next]_vars => TypeOK' BY TypesKept
<1> QED BY <1>1, <1>2, PTL DEF Spec

(* drain_loop never sleeps on a quarantine: whoever raises one, in what order soever the
   callback, the bridge and the drain run, an item is in the queue, the drain is about to
   look, or a wake-up is still to come. *)
THEOREM WakeupNeverLost == Spec => []NoLostWakeup
<1>1. Init => NoLostWakeup BY DEF Init, NoLostWakeup
<1>2. TypeOK /\ NoLostWakeup /\ [Next]_vars => NoLostWakeup'
  <2> SUFFICES ASSUME TypeOK, NoLostWakeup, [Next]_vars PROVE NoLostWakeup' OBVIOUS
  <2> USE DEF NoLostWakeup, diskVars, callVars, barrierVars, drainVars,
              chanVars, bridgeVars, peerVars
  <2>1. ASSUME NEW f \in Files, Edit(f) PROVE NoLostWakeup' BY <2>1 DEF Edit
  <2>2. ASSUME NEW f \in Files, NEW g \in Files, Move(f, g) PROVE NoLostWakeup'
    BY <2>2 DEF Move
  <2>3. CASE TagBatch BY <2>3 DEF TagBatch
  <2>4. CASE BackendFault BY <2>4 DEF BackendFault
  <2>5. CASE EnqueueBatch
    <3>1. queue' = queue \/ queue' # <<>> BY <2>5 DEF EnqueueBatch, TypeOK
    <3> QED BY <2>5, <3>1 DEF EnqueueBatch
  <2>6. CASE CallbackActivates BY <2>6 DEF CallbackActivates
  <2>7. CASE CallbackWakes BY <2>7, WakeDrainType DEF CallbackWakes
  <2>8. CASE TakeItem BY <2>8 DEF TakeItem
  <2>9. CASE CheckItem BY <2>9, FlushType DEF CheckItem
  <2>10. CASE PlanBatch BY <2>10 DEF PlanBatch
  <2>11. CASE DrainFault BY <2>11 DEF DrainFault
  <2>12. CASE DrainFlushes BY <2>12, FlushType DEF DrainFlushes
  <2>13. CASE PublishOp
    <3>1. quarantine' = "none" BY <2>13, FlushType DEF PublishOp
    <3> QED BY <3>1
  <2>14. CASE ApplyToManifest BY <2>14 DEF ApplyToManifest
  <2>15. CASE FinishBatch BY <2>15 DEF FinishBatch
  <2>16. CASE ReceiveOp BY <2>16 DEF ReceiveOp
  <2>17. CASE EmitOp BY <2>17 DEF EmitOp
  <2>18. CASE ReceiveResync BY <2>18 DEF ReceiveResync
  <2>19. CASE ResetActivates BY <2>19 DEF ResetActivates
  <2>20. CASE ResetWakes BY <2>20, WakeDrainType DEF ResetWakes
  <2>21. CASE ResetScans BY <2>21 DEF ResetScans
  <2>22. CASE ResetStores BY <2>22 DEF ResetStores
  <2>23. CASE ResetSubscribes BY <2>23 DEF ResetSubscribes
  <2>24. CASE AnnounceShutdown BY <2>24 DEF AnnounceShutdown
  <2>25. CASE Reconnect BY <2>25 DEF Reconnect
  <2>26. CASE UNCHANGED vars BY <2>26 DEF vars
  <2> QED BY <2>1, <2>2, <2>3, <2>4, <2>5, <2>6, <2>7, <2>8, <2>9, <2>10, <2>11, <2>12,
     <2>13, <2>14, <2>15, <2>16, <2>17, <2>18, <2>19, <2>20, <2>21, <2>22, <2>23, <2>24,
     <2>25, <2>26 DEF Next, Callback, Drain, Bridge
<1> QED BY <1>1, <1>2, TypeCorrect, PTL DEF Spec
-----------------------------------------------------------------------------
(* The way of a change to Studio. *)

(* A batch that will be classified says something of the file. *)
Names(batch, f) == f \in batch.paths \/ batch.oneSided
Stale(batch) == discarded > 0 /\ batch.generation <= discarded
Unplanned(f) ==
    \/ f \in dirty \/ unpaired \/ callback = "faulty"
    \/ callback = "tagged" /\ ~Stale(tagged) /\ Names(tagged, f)
    \/ \E i \in 1..Len(queue) :
          queue[i] # Wake /\ ~Stale(queue[i]) /\ Names(queue[i], f)
    \/ drain = "held" /\ held # Wake /\ ~Stale(held) /\ Names(held, f)
    \/ drain = "planning" /\ Names(held, f)
Planned(f) == \E op \in plan : op.path = f

(* Nothing that was published about the file is on its way to Studio; and what Studio will
   have heard of a file last: the last operation on the way, or what it has. *)
IsAbout(event, f) == event \in Op /\ event.path = f
InChannel(f) == \E i \in 1..Len(channel) : IsAbout(channel[i], f)
Mute(f) == ~InChannel(f) /\ \A op \in handling : op.path # f
Last(o) ==
    \/ \E i \in 1..Len(channel) :
          /\ channel[i] = o
          /\ \A j \in 1..Len(channel) : j > i => ~IsAbout(channel[j], o.path)
    \/ ~InChannel(o.path) /\ o \in handling
    \/ Mute(o.path) /\ (o.present <=> o.path \in studio)

(* An operation is appended, taken by the bridge, and told to Studio. *)
LEMMA Publishing ==
    ASSUME TypeOK, NEW op \in Op, Broadcast(op), ~lagged', SignalsAssumption,
           UNCHANGED <<handling, studio>>
    PROVE  /\ channel' = Append(channel, op) /\ UNCHANGED lagged
           /\ Last(op)'
           /\ \A o \in Op : o.path # op.path => (Last(o) => Last(o)')
           /\ \A f \in Files : f # op.path => (Mute(f) => Mute(f)')
<1>1. channel \in Seq(Events) /\ op \in Events BY DEF TypeOK, Events
<1>2. channel' = Append(channel, op) /\ UNCHANGED lagged BY DEF Broadcast
<1> DEFINE n == Len(channel)
<1>3. /\ n \in Nat /\ Len(channel') = n + 1 /\ channel'[n + 1] = op
      /\ \A i \in 1..n : channel'[i] = channel[i]
  BY <1>1, <1>2
<1> HIDE DEF n
<1>4. Last(op)' BY <1>3 DEF Last
<1>5. ASSUME NEW f \in Files, f # op.path PROVE InChannel(f)' <=> InChannel(f)
  BY <1>3, <1>5 DEF InChannel, IsAbout, n
<1>6. ASSUME NEW o \in Op, o.path # op.path, Last(o) PROVE Last(o)'
  <2>1. InChannel(o.path)' <=> InChannel(o.path) BY <1>5, <1>6 DEF Op
  <2>2. CASE ~InChannel(o.path) BY <1>6, <2>1, <2>2 DEF Last, Mute, InChannel, IsAbout
  <2>3. CASE InChannel(o.path)
    <3>1. PICK i \in 1..n :
             /\ channel[i] = o
             /\ \A j \in 1..n : j > i => ~IsAbout(channel[j], o.path)
      BY <1>6, <2>3 DEF Last, Mute, n
    <3>2. ~IsAbout(channel'[n + 1], o.path) BY <1>3, <1>6 DEF IsAbout
    <3>3. \A j \in 1..(n + 1) : j > i => ~IsAbout(channel'[j], o.path) BY <1>3, <3>1, <3>2
    <3>4. i \in 1..(n + 1) /\ channel'[i] = o BY <1>3, <3>1
    <3> QED BY <1>3, <3>3, <3>4 DEF Last, IsAbout
  <2> QED BY <2>2, <2>3
<1>7. ASSUME NEW f \in Files, f # op.path, Mute(f) PROVE Mute(f)' BY <1>5, <1>7 DEF Mute
<1> QED BY <1>2, <1>4, <1>6, <1>7

LEMMA Hearing ==
    ASSUME TypeOK, SignalsAssumption, handling = {}, channel # <<>>,
           Head(channel) # Resync, channel' = Tail(channel),
           handling' = {Head(channel)}, UNCHANGED studio
    PROVE  /\ \A o \in Op : Last(o) => Last(o)'
           /\ \A f \in Files : Mute(f) => Mute(f)'
<1> DEFINE n == Len(channel)
<1>1. channel \in Seq(Events) BY DEF TypeOK, Events
<1>2. /\ n \in Nat /\ n > 0 /\ Len(channel') = n - 1
      /\ \A i \in 1..(n - 1) : channel'[i] = channel[i + 1]
      /\ Head(channel) = channel[1] /\ channel[1] \in Op
  BY <1>1 DEF Events
<1> HIDE DEF n
<1>3. ASSUME NEW f \in Files, InChannel(f)' PROVE InChannel(f)
  <2>1. PICK i \in 1..(n - 1) : IsAbout(channel'[i], f) BY <1>2, <1>3 DEF InChannel, IsAbout
  <2>2. i + 1 \in 1..n /\ IsAbout(channel[i + 1], f) BY <1>2, <2>1
  <2> QED BY <2>2 DEF InChannel, n
<1>4. ASSUME NEW f \in Files, Mute(f) PROVE Mute(f)'
  <2>1. 1 \in 1..n BY <1>2
  <2>2. ~IsAbout(channel[1], f) BY <1>4, <2>1 DEF Mute, InChannel, n
  <2> QED BY <1>2, <1>3, <1>4, <2>2 DEF Mute, IsAbout
<1>5. ASSUME NEW o \in Op, Last(o) PROVE Last(o)'
  <2>0. o.path \in Files BY DEF Op
  <2>1. CASE Mute(o.path)
    <3>1. ~\E i \in 1..n : channel[i] = o BY <2>1 DEF Mute, InChannel, IsAbout, n
    <3>2. (o.present <=> o.path \in studio) BY <1>5, <3>1 DEF Last, n
    <3> QED BY <1>4, <2>0, <2>1, <3>2 DEF Last
  <2>2. CASE ~Mute(o.path)
    <3>1. PICK i \in 1..n :
             /\ channel[i] = o
             /\ \A j \in 1..n : j > i => ~IsAbout(channel[j], o.path)
      BY <1>5, <2>2 DEF Last, n
    <3>2. CASE i = 1
      <4>1. \A j \in 1..(n - 1) : ~IsAbout(channel'[j], o.path)
        <5>1. SUFFICES ASSUME NEW j \in 1..(n - 1)
                       PROVE  ~IsAbout(channel'[j], o.path)
          OBVIOUS
        <5>2. j + 1 \in 1..n /\ j + 1 > 1 /\ channel'[j] = channel[j + 1] BY <1>2
        <5> QED BY <3>1, <3>2, <5>2
      <4>2. ~InChannel(o.path)' BY <1>2, <4>1 DEF InChannel, IsAbout
      <4>3. o \in handling' BY <1>2, <3>1, <3>2
      <4> QED BY <4>2, <4>3 DEF Last
    <3>3. CASE i # 1
      <4>1. i - 1 \in 1..(n - 1) /\ channel'[i - 1] = channel[i] BY <1>2, <3>3
      <4>2. \A j \in 1..(n - 1) : j > i - 1 => ~IsAbout(channel'[j], o.path)
        <5>1. SUFFICES ASSUME NEW j \in 1..(n - 1), j > i - 1
                       PROVE  ~IsAbout(channel'[j], o.path)
          OBVIOUS
        <5>2. j + 1 \in 1..n /\ j + 1 > i /\ channel'[j] = channel[j + 1] BY <1>2, <5>1
        <5> QED BY <3>1, <5>2
      <4> QED BY <1>2, <3>1, <4>1, <4>2 DEF Last, IsAbout
    <3> QED BY <3>2, <3>3
  <2> QED BY <2>1, <2>2
<1> QED BY <1>4, <1>5

LEMMA Telling ==
    ASSUME TypeOK, NEW op \in Op, handling = {op}, handling' = {},
           studio' = IF linked THEN After(studio, op) ELSE studio,
           UNCHANGED channel
    PROVE  /\ \A f \in Files : Mute(f) => Mute(f)'
           /\ \A o \in Op : Last(o) => Last(o)' \/ (~linked /\ Mute(o.path)')
<1>1. \A f : InChannel(f)' <=> InChannel(f) BY DEF InChannel
<1>2. \A f \in Files : ~InChannel(f) <=> Mute(f)' BY <1>1 DEF Mute
<1>3. ASSUME NEW o \in Op, Last(o)
      PROVE  Last(o)' \/ (~linked /\ Mute(o.path)')
  <2>0. o.path \in Files BY DEF Op
  <2>1. CASE \E i \in 1..Len(channel) :
                /\ channel[i] = o
                /\ \A j \in 1..Len(channel) : j > i => ~IsAbout(channel[j], o.path)
    BY <2>1 DEF Last, IsAbout
  <2>2. CASE ~InChannel(o.path) /\ o \in handling
    <3>1. Mute(o.path)' /\ o = op BY <1>2, <2>0, <2>2
    <3>2. CASE linked
      <4>1. o.present <=> o.path \in studio' BY <3>1, <3>2 DEF After
      <4> QED BY <3>1, <4>1 DEF Last
    <3> QED BY <3>1, <3>2
  <2>3. CASE Mute(o.path) /\ (o.present <=> o.path \in studio)
    <3>1. Mute(o.path)' /\ o.path # op.path BY <1>2, <2>0, <2>3 DEF Mute
    <3>2. o.path \in studio' <=> o.path \in studio BY <3>1 DEF After
    <3> QED BY <2>3, <3>1, <3>2 DEF Last
  <2> QED BY <1>3, <2>1, <2>2, <2>3 DEF Last
<1> QED BY <1>2, <1>3 DEF Mute

-----------------------------------------------------------------------------
(* The invariant. *)

(* What the threads hold while they are where they are. *)
Steady ==
    /\ drain \notin {"publishing", "applying"} => plan = {}
    /\ drain # "applying" => applied = {}
    /\ drain = "applying" => \E op \in Op : applied = {op}
    /\ bridge # "grace" => handling = {}
    /\ bridge = "grace" => \E op \in Op : handling = {op}
    /\ discarded > 0 => discarded < generation
    /\ quarantine # "none" => generation > 0
    /\ drain = "flushing" => quarantine # "none"

(* While no rename was one-sided, no batch says so. *)
Paired ==
    budget.moves = 0 =>
        /\ ~unpaired /\ ~tagged.oneSided
        /\ held # Wake => ~held.oneSided
        /\ \A i \in 1..Len(queue) : queue[i] # Wake => ~queue[i].oneSided

(* What is in the broadcast will be thrown away, and the plugin told. *)
InReset == bridge \in {"resetting", "waking", "scanning", "storing",
                       "subscribing"}
Doomed == \/ quarantine = "resync" \/ lagged \/ InReset
          \/ \E i \in 1..Len(channel) : channel[i] = Resync

(* Nothing was reset yet. *)
NeverReset ==
    generation = 0 =>
        /\ linked /\ quarantine = "none" /\ discarded = 0
        /\ bridge \in {"recv", "grace", "resetting"}
        /\ \A i \in 1..Len(channel) : channel[i] # Resync

(* A silent quarantine is the bridge's, which has emptied the broadcast by the time it tells
   the plugin. *)
SilentHolds ==
    quarantine = "silent" /\ ~Doomed =>
        /\ channel = <<>> /\ handling = {}
        /\ bridge = "announcing" \/ ~linked

(* What is planned, and what has been told of each file, is the disk as it is, or there is
   more to come; and where nothing was told, it will be by the snapshot. *)
Exact == budget.moves = 0 \/ (generation = 0 /\ ~RacingDisk)
PlanHolds ==
    quarantine = "none" /\ Exact =>
        \A op \in plan : Unplanned(op.path) \/ (op.present <=> op.path \in disk)
TellsTheDisk ==
    quarantine = "none" /\ ~Doomed /\ Exact =>
        \A o \in Op : (o.present <=> o.path \in disk) =>
            \/ Unplanned(o.path) \/ Planned(o.path) \/ Last(o)
            \/ Mute(o.path) /\ (bridge = "announcing" \/ ~linked)

(* Until something fails, the manifest is what has been told of each file; and, if the disk
   waits for it, what is planned is the disk. *)
Clean == generation = 0 /\ ~lagged /\ bridge \in {"recv", "grace"}
ManifestTells ==
    ~RacingDisk /\ Clean =>
        \A o \in Op : (o.present <=> o.path \in manifest) =>
            Last(o) \/ \E op \in applied : op.path = o.path
PlanIsDisk ==
    ~RacingDisk => \A op \in plan \cup applied : op.present <=> op.path \in disk
AppliedIsTold ==
    ~RacingDisk /\ Clean => \A op \in applied : Last(op)
ComparisonHolds ==
    ~RacingDisk /\ generation = 0 /\ ManifestBehind /\ held.oneSided =>
        /\ scanned = disk
        /\ \A f \in Files :
              \/ \E op \in plan \cup applied : op.path = f
              \/ f \in manifest <=> f \in disk

Follows ==
    /\ Steady /\ Paired /\ NeverReset /\ SilentHolds /\ PlanHolds
    /\ TellsTheDisk /\ ManifestTells /\ PlanIsDisk /\ AppliedIsTold
    /\ ComparisonHolds
(* Each thread fills its hands as it goes. *)
LEMMA SteadyKept ==
    ASSUME TypeOK, Steady, [Next]_vars
    PROVE  Steady'
<1> USE DEF Steady, diskVars, callVars, barrierVars, drainVars, chanVars,
              bridgeVars, peerVars
<1>1. ASSUME NEW f \in Files, Edit(f) PROVE Steady' BY <1>1 DEF Edit
<1>2. ASSUME NEW f \in Files, NEW g \in Files, Move(f, g) PROVE Steady' BY <1>2 DEF Move
<1>3. CASE TagBatch BY <1>3 DEF TagBatch
<1>4. CASE BackendFault BY <1>4 DEF BackendFault
<1>5. CASE EnqueueBatch BY <1>5 DEF EnqueueBatch
<1>6. CASE CallbackActivates BY <1>6 DEF CallbackActivates, Activate, TypeOK
<1>7. CASE CallbackWakes BY <1>7 DEF CallbackWakes
<1>8. CASE TakeItem BY <1>8 DEF TakeItem
<1>9. CASE CheckItem BY <1>9, FlushType DEF CheckItem, Flush, TypeOK
<1>10. CASE PlanBatch BY <1>10 DEF PlanBatch
<1>11. CASE DrainFault BY <1>11 DEF DrainFault, Activate, TypeOK
<1>12. CASE DrainFlushes BY <1>12, FlushType DEF DrainFlushes, Flush, TypeOK
<1>13. CASE PublishOp BY <1>13 DEF PublishOp, Flush, TypeOK
<1>14. CASE ApplyToManifest BY <1>14 DEF ApplyToManifest
<1>15. CASE FinishBatch BY <1>15 DEF FinishBatch
<1>16. CASE ReceiveOp
  <2>1. Head(channel) \in Op
    <3>1. channel \in Seq(Events) /\ channel # <<>> BY <1>16 DEF ReceiveOp, TypeOK, Events
    <3>2. Head(channel) \in Events BY <3>1
    <3> QED BY <1>16, <3>2 DEF ReceiveOp, Events
  <2> QED BY <1>16, <2>1 DEF ReceiveOp
<1>17. CASE EmitOp BY <1>17 DEF EmitOp
<1>18. CASE ReceiveResync BY <1>18 DEF ReceiveResync
<1>19. CASE ResetActivates BY <1>19 DEF ResetActivates, Activate, TypeOK
<1>20. CASE ResetWakes BY <1>20 DEF ResetWakes
<1>21. CASE ResetScans BY <1>21 DEF ResetScans
<1>22. CASE ResetStores BY <1>22 DEF ResetStores
<1>23. CASE ResetSubscribes BY <1>23 DEF ResetSubscribes
<1>24. CASE AnnounceShutdown BY <1>24 DEF AnnounceShutdown
<1>25. CASE Reconnect BY <1>25 DEF Reconnect
<1>26. CASE UNCHANGED vars BY <1>26 DEF vars
<1> QED BY <1>1, <1>2, <1>3, <1>4, <1>5, <1>6, <1>7, <1>8, <1>9, <1>10, <1>11, <1>12, <1>13,
   <1>14, <1>15, <1>16, <1>17, <1>18, <1>19, <1>20, <1>21, <1>22, <1>23, <1>24, <1>25, <1>26
   DEF Next, Callback, Drain, Bridge

(* A wake is appended, or nothing. *)
LEMMA Waking ==
    ASSUME TypeOK, WakeDrain
    PROVE  \/ UNCHANGED queue
           \/ /\ Len(queue') = Len(queue) + 1
              /\ queue'[Len(queue) + 1] = Wake
              /\ \A i \in 1..Len(queue) : queue'[i] = queue[i]
<1>1. queue \in Seq(Items) /\ Wake \in Items BY DEF TypeOK, Items
<1> QED BY <1>1 DEF WakeDrain

(* A batch is one-sided only after such a rename. *)
LEMMA PairedKept ==
    ASSUME TypeOK, Paired, [Next]_vars
    PROVE  Paired'
<1> USE DEF Paired, diskVars, callVars, barrierVars, drainVars, chanVars,
              bridgeVars, peerVars
<1>1. ASSUME NEW f \in Files, Edit(f) PROVE Paired' BY <1>1 DEF Edit, TypeOK
<1>2. ASSUME NEW f \in Files, NEW g \in Files, Move(f, g) PROVE Paired'
  <2>1. budget'.moves = budget.moves + 1 BY <1>2 DEF Move, TypeOK
  <2>2. budget'.moves # 0 BY <2>1 DEF TypeOK
  <2> QED BY <2>2
<1>3. CASE TagBatch BY <1>3 DEF TagBatch
<1>4. CASE BackendFault BY <1>4 DEF BackendFault, Fault, TypeOK
<1>5. CASE EnqueueBatch
  <2>1. CASE queue' = Append(queue, tagged)
    <3>1. queue \in Seq(Items) /\ tagged \in Items BY DEF TypeOK, Items
    <3>2. /\ Len(queue') = Len(queue) + 1 /\ queue'[Len(queue) + 1] = tagged
          /\ \A i \in 1..Len(queue) : queue'[i] = queue[i]
      BY <2>1, <3>1
    <3> QED BY <1>5, <3>1, <3>2 DEF EnqueueBatch
  <2>2. CASE UNCHANGED queue BY <1>5, <2>2 DEF EnqueueBatch
  <2> QED BY <1>5, <2>1, <2>2 DEF EnqueueBatch
<1>6. CASE CallbackActivates BY <1>6 DEF CallbackActivates
<1>7. CASE CallbackWakes BY <1>7, Waking DEF CallbackWakes
<1>8. CASE TakeItem
  <2>1. queue \in Seq(Items) /\ queue # <<>> BY <1>8 DEF TakeItem, TypeOK, Items
  <2>2. /\ Head(queue) = queue[1] /\ 1 \in 1..Len(queue)
        /\ Len(Tail(queue)) = Len(queue) - 1
        /\ \A i \in 1..(Len(queue) - 1) : Tail(queue)[i] = queue[i + 1]
    BY <2>1
  <2> QED BY <1>8, <2>1, <2>2 DEF TakeItem
<1>9. CASE CheckItem BY <1>9, FlushType DEF CheckItem
<1>10. CASE PlanBatch BY <1>10 DEF PlanBatch
<1>11. CASE DrainFault BY <1>11 DEF DrainFault, Fault, TypeOK
<1>12. CASE DrainFlushes BY <1>12, FlushType DEF DrainFlushes
<1>13. CASE PublishOp BY <1>13, FlushType DEF PublishOp
<1>14. CASE ApplyToManifest BY <1>14 DEF ApplyToManifest
<1>15. CASE FinishBatch BY <1>15 DEF FinishBatch
<1>16. CASE ReceiveOp BY <1>16 DEF ReceiveOp, Fault, TypeOK
<1>17. CASE EmitOp BY <1>17 DEF EmitOp
<1>18. CASE ReceiveResync BY <1>18 DEF ReceiveResync
<1>19. CASE ResetActivates BY <1>19 DEF ResetActivates
<1>20. CASE ResetWakes BY <1>20, Waking DEF ResetWakes
<1>21. CASE ResetScans BY <1>21 DEF ResetScans, Fault, TypeOK
<1>22. CASE ResetStores BY <1>22 DEF ResetStores
<1>23. CASE ResetSubscribes BY <1>23 DEF ResetSubscribes
<1>24. CASE AnnounceShutdown BY <1>24 DEF AnnounceShutdown
<1>25. CASE Reconnect BY <1>25 DEF Reconnect
<1>26. CASE UNCHANGED vars BY <1>26 DEF vars
<1> QED BY <1>1, <1>2, <1>3, <1>4, <1>5, <1>6, <1>7, <1>8, <1>9, <1>10, <1>11, <1>12, <1>13,
   <1>14, <1>15, <1>16, <1>17, <1>18, <1>19, <1>20, <1>21, <1>22, <1>23, <1>24, <1>25, <1>26
   DEF Next, Callback, Drain, Bridge

(* What a broadcast and a flush do to the resync in the channel. *)
LEMMA Resyncing ==
    ASSUME TypeOK, NEW event \in Events, Broadcast(event)
    PROVE  /\ ~lagged' => /\ channel' = Append(channel, event) /\ UNCHANGED lagged
                          /\ \A i \in 1..Len(channel') :
                                \/ channel'[i] = event
                                \/ i \in 1..Len(channel) /\ channel'[i] = channel[i]
           /\ \E i \in 1..Len(channel') : channel'[i] = event
           /\ \A i \in 1..Len(channel) :
                 lagged' \/ \E j \in 1..Len(channel') : channel'[j] = channel[i]
<1>1. channel \in Seq(Events) BY DEF TypeOK, Events
<1>2. CASE Len(channel) < ChannelCap
  <2>1. channel' = Append(channel, event) /\ UNCHANGED lagged BY <1>2 DEF Broadcast
  <2>2. /\ Len(channel') = Len(channel) + 1
        /\ channel'[Len(channel) + 1] = event
        /\ \A i \in 1..Len(channel) : channel'[i] = channel[i]
    BY <1>1, <2>1
  <2> QED BY <1>1, <2>1, <2>2
<1>3. CASE ~(Len(channel) < ChannelCap)
  <2>1. channel' = Append(Tail(channel), event) /\ lagged' BY <1>3 DEF Broadcast
  <2>2. channel # <<>> BY <1>1, <1>3
  <2>3. Tail(channel) \in Seq(Events) BY <1>1, <2>2
  <2>4. \E i \in 1..Len(channel') : channel'[i] = event BY <2>1, <2>3
  <2> QED BY <2>1, <2>4
<1> QED BY <1>2, <1>3


LEMMA FlushDooms ==
    ASSUME TypeOK, Flush
    PROVE  /\ quarantine' = "none"
           /\ quarantine = "resync" =>
                 lagged' \/ \E i \in 1..Len(channel') : channel'[i] = Resync
           /\ quarantine # "resync" => UNCHANGED chanVars
<1>1. Resync \in Events BY DEF Events
<1>2. CASE quarantine = "resync" BY <1>1, <1>2, Resyncing DEF Flush
<1>3. CASE quarantine # "resync" BY <1>3 DEF Flush
<1> QED BY <1>2, <1>3 DEF Flush

(* Only a new subscription ends what is doomed. *)
LEMMA DoomKept ==
    ASSUME TypeOK, Doomed, [Next]_vars, ~ResetSubscribes
    PROVE  Doomed'
<1> USE DEF Doomed, InReset
<1> USE DEF diskVars, callVars, barrierVars, drainVars, chanVars,
              bridgeVars, peerVars
<1>1. ASSUME NEW f \in Files, Edit(f) PROVE Doomed' BY <1>1 DEF Edit
<1>2. ASSUME NEW f \in Files, NEW g \in Files, Move(f, g) PROVE Doomed' BY <1>2 DEF Move
<1>3. CASE TagBatch BY <1>3 DEF TagBatch
<1>4. CASE BackendFault BY <1>4 DEF BackendFault
<1>5. CASE EnqueueBatch BY <1>5 DEF EnqueueBatch
<1>6. CASE CallbackActivates BY <1>6 DEF CallbackActivates, Activate
<1>7. CASE CallbackWakes BY <1>7 DEF CallbackWakes
<1>8. CASE TakeItem BY <1>8 DEF TakeItem
<1>9. CASE CheckItem BY <1>9, FlushDooms DEF CheckItem
<1>10. CASE PlanBatch BY <1>10 DEF PlanBatch
<1>11. CASE DrainFault BY <1>11 DEF DrainFault, Activate
<1>12. CASE DrainFlushes BY <1>12, FlushDooms DEF DrainFlushes
<1>13. CASE PublishOp
  <2> USE <1>13 DEF PublishOp
  <2>1. CASE Flush BY <2>1, FlushDooms
  <2>2. ASSUME NEW op \in plan, Broadcast(op), UNCHANGED barrierVars
        PROVE  Doomed'
    <3>1. op \in Events BY DEF TypeOK, Events
    <3> QED BY <2>2, <3>1, Resyncing
  <2> QED BY <2>1, <2>2
<1>14. CASE ApplyToManifest BY <1>14 DEF ApplyToManifest
<1>15. CASE FinishBatch BY <1>15 DEF FinishBatch
<1>16. CASE ReceiveOp
  <2> USE <1>16 DEF ReceiveOp
  <2>1. channel \in Seq(Events) /\ channel # <<>> BY DEF TypeOK, Events
  <2>2. /\ Head(channel) = channel[1] /\ Len(Tail(channel)) = Len(channel) - 1
        /\ \A i \in 1..Len(channel) : i > 1 =>
              i - 1 \in 1..(Len(channel) - 1) /\ Tail(channel)[i - 1] = channel[i]
    BY <2>1
  <2>3. ASSUME NEW i \in 1..Len(channel), channel[i] = Resync
        PROVE  \E j \in 1..Len(channel') : channel'[j] = Resync
    <3>1. i > 1 BY <2>2, <2>3
    <3>2. i - 1 \in 1..Len(channel') /\ channel'[i - 1] = channel[i] BY <2>2, <3>1
    <3> QED BY <2>3, <3>2
  <2> QED BY <2>3
<1>17. CASE EmitOp BY <1>17 DEF EmitOp
<1>18. CASE ReceiveResync BY <1>18 DEF ReceiveResync
<1>19. CASE ResetActivates BY <1>19 DEF ResetActivates
<1>20. CASE ResetWakes BY <1>20 DEF ResetWakes
<1>21. CASE ResetScans BY <1>21 DEF ResetScans
<1>22. CASE ResetStores BY <1>22 DEF ResetStores
<1>23. CASE ResetSubscribes BY <1>23
<1>24. CASE AnnounceShutdown BY <1>24 DEF AnnounceShutdown
<1>25. CASE Reconnect BY <1>25 DEF Reconnect
<1>26. CASE UNCHANGED vars BY <1>26 DEF vars
<1> QED BY <1>1, <1>2, <1>3, <1>4, <1>5, <1>6, <1>7, <1>8, <1>9, <1>10, <1>11, <1>12, <1>13,
   <1>14, <1>15, <1>16, <1>17, <1>18, <1>19, <1>20, <1>21, <1>22, <1>23, <1>24, <1>25, <1>26
   DEF Next, Callback, Drain, Bridge

LEMMA Broadcasting ==
    ASSUME TypeOK, NEW event \in Events, Broadcast(event)
    PROVE  \A i \in 1..Len(channel') :
              \/ channel'[i] = event
              \/ \E j \in 1..Len(channel) : channel'[i] = channel[j]
<1>1. channel \in Seq(Events) BY DEF TypeOK, Events
<1>2. CASE Len(channel) < ChannelCap
  <2>1. channel' = Append(channel, event) BY <1>2 DEF Broadcast
  <2> QED BY <1>1, <2>1
<1>3. CASE ~(Len(channel) < ChannelCap)
  <2>1. channel' = Append(Tail(channel), event) /\ channel # <<>>
    BY <1>1, <1>3 DEF Broadcast
  <2>2. /\ Tail(channel) \in Seq(Events)
        /\ Len(Tail(channel)) = Len(channel) - 1
        /\ \A i \in 1..(Len(channel) - 1) :
              i + 1 \in 1..Len(channel) /\ Tail(channel)[i] = channel[i + 1]
    BY <1>1, <2>1
  <2>3. /\ Len(channel') = Len(Tail(channel)) + 1
        /\ \A i \in 1..Len(channel') :
              \/ channel'[i] = event
              \/ i \in 1..(Len(channel) - 1) /\ channel'[i] = Tail(channel)[i]
    BY <2>1, <2>2
  <2> QED BY <2>2, <2>3
<1> QED BY <1>2, <1>3

(* The first reset begins a generation. *)
LEMMA NeverResetKept ==
    ASSUME TypeOK, Steady, NeverReset, SignalsAssumption, [Next]_vars
    PROVE  NeverReset'
<1> USE DEF NeverReset, diskVars, callVars, barrierVars, drainVars, chanVars,
              bridgeVars, peerVars
<1>1. ASSUME NEW f \in Files, Edit(f) PROVE NeverReset' BY <1>1 DEF Edit
<1>2. ASSUME NEW f \in Files, NEW g \in Files, Move(f, g) PROVE NeverReset' BY <1>2 DEF Move
<1>3. CASE TagBatch BY <1>3 DEF TagBatch
<1>4. CASE BackendFault BY <1>4 DEF BackendFault
<1>5. CASE EnqueueBatch BY <1>5 DEF EnqueueBatch
<1>6. CASE CallbackActivates
  <2>1. CASE generation' = 0 BY <1>6, <2>1 DEF CallbackActivates, Activate, TypeOK
  <2> QED BY <2>1
<1>7. CASE CallbackWakes BY <1>7 DEF CallbackWakes
<1>8. CASE TakeItem BY <1>8 DEF TakeItem
<1>9. CASE CheckItem
  <2>1. CASE Flush
    <3>1. generation' > 0 BY <2>1 DEF Flush, TypeOK
    <3> QED BY <3>1
  <2>2. CASE ~Flush BY <1>9, <2>2 DEF CheckItem
  <2> QED BY <2>1, <2>2
<1>10. CASE PlanBatch BY <1>10 DEF PlanBatch
<1>11. CASE DrainFault
  <2>1. CASE generation' = 0 BY <1>11, <2>1 DEF DrainFault, Activate, TypeOK
  <2> QED BY <2>1
<1>12. CASE DrainFlushes
  <2>1. generation' > 0 BY <1>12 DEF DrainFlushes, Flush, TypeOK
  <2> QED BY <2>1
<1>13. CASE PublishOp
  <2>1. CASE Flush
    <3>1. generation' > 0 BY <2>1 DEF Flush, TypeOK
    <3> QED BY <3>1
  <2>2. ASSUME NEW op \in plan, Broadcast(op), UNCHANGED <<barrierVars, discarded>>
        PROVE  NeverReset'
    <3>1. op \in Events /\ op # Resync BY DEF TypeOK, Events, SignalsAssumption
    <3>2. \A i \in 1..Len(channel') :
             channel'[i] = op \/ \E j \in 1..Len(channel) : channel'[i] = channel[j]
      BY <2>2, <3>1, Broadcasting
    <3> QED BY <1>13, <2>2, <3>1, <3>2 DEF PublishOp
  <2> QED BY <1>13, <2>1, <2>2 DEF PublishOp
<1>14. CASE ApplyToManifest BY <1>14 DEF ApplyToManifest
<1>15. CASE FinishBatch BY <1>15 DEF FinishBatch
<1>16. CASE ReceiveOp
  <2>1. channel \in Seq(Events) /\ channel # <<>> BY <1>16 DEF ReceiveOp, TypeOK, Events
  <2>2. /\ Len(Tail(channel)) = Len(channel) - 1
        /\ \A i \in 1..(Len(channel) - 1) :
              i + 1 \in 1..Len(channel) /\ Tail(channel)[i] = channel[i + 1]
    BY <2>1
  <2> QED BY <1>16, <2>2 DEF ReceiveOp
<1>17. CASE EmitOp BY <1>17 DEF EmitOp
<1>18. CASE ReceiveResync
  <2>1. CASE lagged BY <1>18, <2>1 DEF ReceiveResync
  <2>2. CASE ~lagged /\ generation = 0
    <3>1. channel \in Seq(Events) /\ channel # <<>> /\ Head(channel) = Resync
      BY <1>18, <2>2 DEF ReceiveResync, TypeOK, Events
    <3>2. 1 \in 1..Len(channel) /\ channel[1] = Resync BY <3>1
    <3> QED BY <2>2, <3>2
  <2> QED BY <1>18, <2>1, <2>2 DEF ReceiveResync
<1>19. CASE ResetActivates
  <2>1. generation' > 0 BY <1>19 DEF ResetActivates, Activate, TypeOK
  <2> QED BY <2>1
<1>20. CASE ResetWakes BY <1>20 DEF ResetWakes
<1>21. CASE ResetScans BY <1>21 DEF ResetScans
<1>22. CASE ResetStores BY <1>22 DEF ResetStores
<1>23. CASE ResetSubscribes BY <1>23 DEF ResetSubscribes
<1>24. CASE AnnounceShutdown BY <1>24 DEF AnnounceShutdown
<1>25. CASE Reconnect BY <1>25 DEF Reconnect
<1>26. CASE UNCHANGED vars BY <1>26 DEF vars
<1> QED BY <1>1, <1>2, <1>3, <1>4, <1>5, <1>6, <1>7, <1>8, <1>9, <1>10, <1>11, <1>12, <1>13,
   <1>14, <1>15, <1>16, <1>17, <1>18, <1>19, <1>20, <1>21, <1>22, <1>23, <1>24, <1>25, <1>26
   DEF Next, Callback, Drain, Bridge

(* The bridge empties the broadcast and tells the plugin after it has raised a silent
   quarantine; the plugin waits for the end of it. *)
LEMMA SilentKept ==
    ASSUME TypeOK, Steady, SilentHolds, ~SlowDrain, [Next]_vars
    PROVE  SilentHolds'
<1> USE DEF diskVars, callVars, barrierVars, drainVars, chanVars,
              bridgeVars, peerVars
<1>a. SUFFICES ASSUME quarantine' = "silent", ~Doomed'
                PROVE  /\ channel' = <<>> /\ handling' = {}
                       /\ bridge' = "announcing" \/ ~linked'
  BY DEF SilentHolds
<1>b. ResetSubscribes \/ ~Doomed BY <1>a, DoomKept
<1> USE <1>a, <1>b DEF SilentHolds, ResetSubscribes
<1> DEFINE Goal == /\ channel' = <<>> /\ handling' = {}
                   /\ bridge' = "announcing" \/ ~linked'
<1>1. ASSUME NEW f \in Files, Edit(f) PROVE Goal BY <1>1 DEF Edit
<1>2. ASSUME NEW f \in Files, NEW g \in Files, Move(f, g) PROVE Goal BY <1>2 DEF Move
<1>3. CASE TagBatch BY <1>3 DEF TagBatch
<1>4. CASE BackendFault BY <1>4 DEF BackendFault
<1>5. CASE EnqueueBatch BY <1>5 DEF EnqueueBatch
<1>6. CASE CallbackActivates BY <1>6 DEF CallbackActivates, Activate
<1>7. CASE CallbackWakes BY <1>7 DEF CallbackWakes
<1>8. CASE TakeItem BY <1>8 DEF TakeItem
<1>9. CASE CheckItem BY <1>9, FlushDooms DEF CheckItem
<1>10. CASE PlanBatch BY <1>10 DEF PlanBatch
<1>11. CASE DrainFault BY <1>11 DEF DrainFault, Activate
<1>12. CASE DrainFlushes BY <1>12, FlushDooms DEF DrainFlushes
<1>13. CASE PublishOp BY <1>13, FlushDooms DEF PublishOp
<1>14. CASE ApplyToManifest BY <1>14 DEF ApplyToManifest
<1>15. CASE FinishBatch BY <1>15 DEF FinishBatch
<1>16. CASE ReceiveOp BY <1>16 DEF ReceiveOp
<1>17. CASE EmitOp BY <1>17 DEF EmitOp
<1>18. CASE ReceiveResync BY <1>18 DEF ReceiveResync
<1>19. CASE ResetActivates BY <1>19 DEF ResetActivates, Doomed, InReset
<1>20. CASE ResetWakes BY <1>20 DEF ResetWakes
<1>21. CASE ResetScans BY <1>21 DEF ResetScans
<1>22. CASE ResetStores BY <1>22 DEF ResetStores
<1>23. CASE ResetSubscribes BY <1>23 DEF Steady
<1>24. CASE AnnounceShutdown BY <1>24 DEF AnnounceShutdown
<1>25. CASE Reconnect BY <1>25 DEF Reconnect
<1>26. CASE UNCHANGED vars BY <1>26 DEF vars
<1> QED BY <1>1, <1>2, <1>3, <1>4, <1>5, <1>6, <1>7, <1>8, <1>9, <1>10, <1>11, <1>12, <1>13,
   <1>14, <1>15, <1>16, <1>17, <1>18, <1>19, <1>20, <1>21, <1>22, <1>23, <1>24, <1>25, <1>26
   DEF Next, Callback, Drain, Bridge

LEMMA Wakes ==
    ASSUME TypeOK, WakeDrain
    PROVE  \A i \in 1..Len(queue) : i \in 1..Len(queue') /\ queue'[i] = queue[i]
<1>1. queue \in Seq(Items) BY DEF TypeOK, Items
<1>2. Len(queue) \in Nat BY <1>1
<1> QED BY <1>2, Waking

(* A file that will be classified still will be, until it is. *)
LEMMA UnplannedKept ==
    ASSUME TypeOK, Steady, SignalsAssumption, [Next]_vars, quarantine = "none",
           quarantine' = "none", NEW p \in Files, Unplanned(p)
    PROVE  Unplanned(p)' \/ (PlanBatch /\ Names(held, p))
<1> USE DEF Stale
<1> USE DEF diskVars, callVars, barrierVars, drainVars, chanVars,
              bridgeVars, peerVars
<1> DEFINE Goal == Unplanned(p)' \/ (PlanBatch /\ Names(held, p))
<1>1. ASSUME NEW f \in Files, Edit(f) PROVE Goal BY <1>1 DEF Edit, Unplanned, Names
<1>2. ASSUME NEW f \in Files, NEW g \in Files, Move(f, g) PROVE Goal
  BY <1>2 DEF Move, Unplanned, Names
<1>3. CASE TagBatch
  <2> USE <1>3 DEF TagBatch
  <2>1. /\ callback' = "tagged" /\ tagged'.generation = generation
        /\ tagged'.paths = dirty /\ tagged'.oneSided = unpaired
    OBVIOUS
  <2>2. ~(discarded > 0 /\ generation <= discarded) BY DEF Steady, TypeOK
  <2>3. ~Stale(tagged)' /\ (p \in dirty \/ unpaired => Names(tagged, p)')
    BY <2>1, <2>2 DEF Names
  <2> QED BY <2>1, <2>3 DEF Unplanned, Names
<1>4. CASE BackendFault BY <1>4 DEF BackendFault, Unplanned, Names
<1>5. CASE EnqueueBatch
  <2>1. queue \in Seq(Items) /\ tagged \in Items BY DEF TypeOK, Items
  <2> USE <1>5 DEF EnqueueBatch
  <2>2. CASE queue' = Append(queue, tagged)
    <3>1. /\ Len(queue') = Len(queue) + 1 /\ queue'[Len(queue) + 1] = tagged
          /\ \A i \in 1..Len(queue) : queue'[i] = queue[i]
          /\ Len(queue) + 1 \in 1..Len(queue')
          /\ \A i \in 1..Len(queue) : i \in 1..Len(queue')
      BY <2>1, <2>2
    <3>2. tagged # Wake BY SignalsAssumption DEF SignalsAssumption, TypeOK
    <3> QED BY <3>1, <3>2 DEF Unplanned, Names
  <2>3. CASE UNCHANGED queue BY <2>3 DEF Unplanned, Names
  <2> QED BY <2>2, <2>3
<1>6. CASE CallbackActivates BY <1>6 DEF CallbackActivates, Activate
<1>7. CASE CallbackWakes
  <2>1. \A i \in 1..Len(queue) : i \in 1..Len(queue') /\ queue'[i] = queue[i]
    BY <1>7, Wakes DEF CallbackWakes
  <2> QED BY <1>7, <2>1 DEF CallbackWakes, Unplanned, Names
<1>8. CASE TakeItem
  <2> USE <1>8 DEF TakeItem
  <2>1. queue \in Seq(Items) /\ queue # <<>> BY DEF TypeOK, Items
  <2>2. /\ Head(queue) = queue[1]
        /\ Len(Tail(queue)) = Len(queue) - 1
        /\ \A i \in 1..Len(queue) : i # 1 =>
              i - 1 \in 1..Len(Tail(queue)) /\ Tail(queue)[i - 1] = queue[i]
    BY <2>1
  <2>3. ASSUME NEW i \in 1..Len(queue), queue[i] # Wake, ~Stale(queue[i]),
               Names(queue[i], p)
        PROVE  Unplanned(p)'
    <3>1. CASE i = 1 BY <2>2, <2>3, <3>1 DEF Unplanned, Names
    <3>2. CASE i # 1
      <4>1. i - 1 \in 1..Len(queue') /\ queue'[i - 1] = queue[i] BY <2>2, <3>2
      <4> QED BY <2>3, <4>1 DEF Unplanned, Names
    <3> QED BY <3>1, <3>2
  <2> QED BY <2>3 DEF Unplanned, Names
<1>9. CASE CheckItem BY <1>9 DEF CheckItem, Flush, Unplanned, Names
<1>10. CASE PlanBatch BY <1>10 DEF PlanBatch, Unplanned, Names
<1>11. CASE DrainFault BY <1>11 DEF DrainFault, Activate
<1>12. CASE DrainFlushes BY <1>12 DEF DrainFlushes, Flush
<1>13. CASE PublishOp BY <1>13 DEF PublishOp, Flush, Unplanned, Names
<1>14. CASE ApplyToManifest BY <1>14 DEF ApplyToManifest, Unplanned, Names
<1>15. CASE FinishBatch BY <1>15 DEF FinishBatch, Unplanned, Names
<1>16. CASE ReceiveOp BY <1>16 DEF ReceiveOp, Unplanned, Names
<1>17. CASE EmitOp BY <1>17 DEF EmitOp, Unplanned, Names
<1>18. CASE ReceiveResync BY <1>18 DEF ReceiveResync, Unplanned, Names
<1>19. CASE ResetActivates BY <1>19 DEF ResetActivates, Activate
<1>20. CASE ResetWakes
  <2>1. \A i \in 1..Len(queue) : i \in 1..Len(queue') /\ queue'[i] = queue[i]
    BY <1>20, Wakes DEF ResetWakes
  <2> QED BY <1>20, <2>1 DEF ResetWakes, Unplanned, Names
<1>21. CASE ResetScans BY <1>21 DEF ResetScans, Unplanned, Names
<1>22. CASE ResetStores BY <1>22 DEF ResetStores, Unplanned, Names
<1>23. CASE ResetSubscribes BY <1>23 DEF ResetSubscribes, Unplanned, Names
<1>24. CASE AnnounceShutdown BY <1>24 DEF AnnounceShutdown, Unplanned, Names
<1>25. CASE Reconnect BY <1>25 DEF Reconnect, Unplanned, Names
<1>26. CASE UNCHANGED vars BY <1>26 DEF vars, Unplanned, Names
<1> QED BY <1>1, <1>2, <1>3, <1>4, <1>5, <1>6, <1>7, <1>8, <1>9, <1>10, <1>11, <1>12, <1>13,
   <1>14, <1>15, <1>16, <1>17, <1>18, <1>19, <1>20, <1>21, <1>22, <1>23, <1>24, <1>25, <1>26
   DEF Next, Callback, Drain, Bridge

(* The promise never comes back; and an operation speaks of a file. *)
LEMMA ExactBefore ==
    ASSUME TypeOK, [Next]_vars, Exact'
    PROVE  Exact
<1> USE DEF Exact
<1> USE DEF diskVars, callVars, barrierVars, drainVars, chanVars,
              bridgeVars, peerVars
<1>1. ASSUME NEW f \in Files, Edit(f) PROVE Exact BY <1>1 DEF Edit, TypeOK
<1>2. ASSUME NEW f \in Files, NEW g \in Files, Move(f, g) PROVE Exact
  <2>1. budget'.moves = budget.moves + 1 BY <1>2 DEF Move, TypeOK
  <2>2. budget'.moves # 0 BY <2>1 DEF TypeOK
  <2> QED BY <1>2, <2>2 DEF Move
<1>3. CASE TagBatch BY <1>3 DEF TagBatch
<1>4. CASE BackendFault BY <1>4 DEF BackendFault, Fault, TypeOK
<1>5. CASE EnqueueBatch BY <1>5 DEF EnqueueBatch
<1>6. CASE CallbackActivates BY <1>6 DEF CallbackActivates, Activate, TypeOK
<1>7. CASE CallbackWakes BY <1>7 DEF CallbackWakes
<1>8. CASE TakeItem BY <1>8 DEF TakeItem
<1>9. CASE CheckItem BY <1>9 DEF CheckItem, Flush, TypeOK
<1>10. CASE PlanBatch BY <1>10 DEF PlanBatch
<1>11. CASE DrainFault BY <1>11 DEF DrainFault, Fault, Activate, TypeOK
<1>12. CASE DrainFlushes BY <1>12 DEF DrainFlushes, Flush, TypeOK
<1>13. CASE PublishOp BY <1>13 DEF PublishOp, Flush, TypeOK
<1>14. CASE ApplyToManifest BY <1>14 DEF ApplyToManifest
<1>15. CASE FinishBatch BY <1>15 DEF FinishBatch
<1>16. CASE ReceiveOp BY <1>16 DEF ReceiveOp, Fault, TypeOK
<1>17. CASE EmitOp BY <1>17 DEF EmitOp
<1>18. CASE ReceiveResync BY <1>18 DEF ReceiveResync
<1>19. CASE ResetActivates BY <1>19 DEF ResetActivates, Activate, TypeOK
<1>20. CASE ResetWakes BY <1>20 DEF ResetWakes
<1>21. CASE ResetScans BY <1>21 DEF ResetScans, Fault, TypeOK
<1>22. CASE ResetStores BY <1>22 DEF ResetStores
<1>23. CASE ResetSubscribes BY <1>23 DEF ResetSubscribes
<1>24. CASE AnnounceShutdown BY <1>24 DEF AnnounceShutdown
<1>25. CASE Reconnect BY <1>25 DEF Reconnect
<1>26. CASE UNCHANGED vars BY <1>26 DEF vars
<1> QED BY <1>1, <1>2, <1>3, <1>4, <1>5, <1>6, <1>7, <1>8, <1>9, <1>10, <1>11, <1>12, <1>13,
   <1>14, <1>15, <1>16, <1>17, <1>18, <1>19, <1>20, <1>21, <1>22, <1>23, <1>24, <1>25, <1>26
   DEF Next, Callback, Drain, Bridge

(* What is planned is classified from the disk, and a change of the disk after it has been
   reported. *)
LEMMA PlanKept ==
    ASSUME TypeOK, Steady, SignalsAssumption, PlanHolds, [Next]_vars
    PROVE  PlanHolds'
<1> USE DEF diskVars, callVars, barrierVars, drainVars, chanVars,
              bridgeVars, peerVars
<1>a. SUFFICES ASSUME quarantine' = "none", Exact', NEW op \in plan'
                PROVE  Unplanned(op.path)' \/ (op.present <=> op.path \in disk')
  BY DEF PlanHolds
<1>b. Exact /\ op \in Op BY <1>a, ExactBefore, TypesKept DEF TypeOK
<1>c. op.path \in Files BY <1>b DEF Op
<1> DEFINE Goal == Unplanned(op.path)' \/ (op.present <=> op.path \in disk')
<1>d. ASSUME quarantine = "none", op \in plan, UNCHANGED disk, ~PlanBatch
      PROVE  Goal
  BY <1>a, <1>b, <1>c, <1>d, UnplannedKept DEF PlanHolds
<1>1. ASSUME NEW f \in Files, Edit(f) PROVE Goal
  <2> USE <1>1 DEF Edit
  <2>1. CASE op.path = f BY <2>1 DEF Unplanned
  <2>2. CASE op.path # f
    <3>1. op.path \in disk' <=> op.path \in disk BY <2>2
    <3>2. quarantine = "none" /\ op \in plan BY <1>a
    <3>3. Unplanned(op.path) => Unplanned(op.path)' BY DEF Unplanned, Stale, Names
    <3> QED BY <1>b, <3>1, <3>2, <3>3 DEF PlanHolds
  <2> QED BY <2>1, <2>2
<1> USE <1>a, <1>d DEF PlanBatch
<1>2. ASSUME NEW f \in Files, NEW g \in Files, Move(f, g) PROVE Goal
  BY <1>2 DEF Move, Unplanned
<1>3. CASE TagBatch BY <1>3 DEF TagBatch
<1>4. CASE BackendFault BY <1>4 DEF BackendFault
<1>5. CASE EnqueueBatch BY <1>5 DEF EnqueueBatch
<1>6. CASE CallbackActivates BY <1>6 DEF CallbackActivates, Activate
<1>7. CASE CallbackWakes BY <1>7 DEF CallbackWakes
<1>8. CASE TakeItem BY <1>8 DEF TakeItem, Steady
<1>9. CASE CheckItem BY <1>9 DEF CheckItem, Steady
<1>10. CASE PlanBatch
  <2>1. PICK f \in Files : op = [path |-> f, present |-> f \in disk]
    BY <1>10 DEF TypeOK, Batch
  <2>2. op.path = f /\ (op.present <=> f \in disk) BY <2>1
  <2> QED BY <1>10, <2>2
<1>11. CASE DrainFault BY <1>11 DEF DrainFault, Activate, Steady
<1>12. CASE DrainFlushes BY <1>12 DEF DrainFlushes, Steady
<1>13. CASE PublishOp BY <1>13 DEF PublishOp, Flush
<1>14. CASE ApplyToManifest BY <1>14 DEF ApplyToManifest
<1>15. CASE FinishBatch BY <1>15 DEF FinishBatch
<1>16. CASE ReceiveOp BY <1>16 DEF ReceiveOp
<1>17. CASE EmitOp BY <1>17 DEF EmitOp
<1>18. CASE ReceiveResync BY <1>18 DEF ReceiveResync
<1>19. CASE ResetActivates BY <1>19 DEF ResetActivates, Activate
<1>20. CASE ResetWakes BY <1>20 DEF ResetWakes
<1>21. CASE ResetScans BY <1>21 DEF ResetScans
<1>22. CASE ResetStores BY <1>22 DEF ResetStores
<1>23. CASE ResetSubscribes BY <1>23 DEF ResetSubscribes
<1>24. CASE AnnounceShutdown BY <1>24 DEF AnnounceShutdown
<1>25. CASE Reconnect BY <1>25 DEF Reconnect
<1>26. CASE UNCHANGED vars BY <1>26 DEF vars
<1> QED BY <1>1, <1>2, <1>3, <1>4, <1>5, <1>6, <1>7, <1>8, <1>9, <1>10, <1>11, <1>12, <1>13,
   <1>14, <1>15, <1>16, <1>17, <1>18, <1>19, <1>20, <1>21, <1>22, <1>23, <1>24, <1>25, <1>26
   DEF Next, Callback, Drain, Bridge

(* Only a flush ends a quarantine. *)
LEMMA FlushEnds ==
    ASSUME TypeOK, [Next]_vars, quarantine # "none", quarantine' = "none"
    PROVE  Flush /\ UNCHANGED <<diskVars, bridgeVars, peerVars>>
<1> USE DEF diskVars, callVars, barrierVars, drainVars, chanVars,
              bridgeVars, peerVars
<1>1. ASSUME NEW f \in Files, Edit(f)
      PROVE Flush /\ UNCHANGED <<diskVars, bridgeVars, peerVars>>
  BY <1>1 DEF Edit
<1>2. ASSUME NEW f \in Files, NEW g \in Files, Move(f, g)
      PROVE Flush /\ UNCHANGED <<diskVars, bridgeVars, peerVars>>
  BY <1>2 DEF Move
<1>3. CASE TagBatch BY <1>3 DEF TagBatch
<1>4. CASE BackendFault BY <1>4 DEF BackendFault
<1>5. CASE EnqueueBatch BY <1>5 DEF EnqueueBatch
<1>6. CASE CallbackActivates BY <1>6 DEF CallbackActivates, Activate
<1>7. CASE CallbackWakes BY <1>7 DEF CallbackWakes
<1>8. CASE TakeItem BY <1>8 DEF TakeItem
<1>9. CASE CheckItem BY <1>9 DEF CheckItem
<1>10. CASE PlanBatch BY <1>10 DEF PlanBatch
<1>11. CASE DrainFault BY <1>11 DEF DrainFault, Activate
<1>12. CASE DrainFlushes BY <1>12 DEF DrainFlushes
<1>13. CASE PublishOp BY <1>13 DEF PublishOp
<1>14. CASE ApplyToManifest BY <1>14 DEF ApplyToManifest
<1>15. CASE FinishBatch BY <1>15 DEF FinishBatch
<1>16. CASE ReceiveOp BY <1>16 DEF ReceiveOp
<1>17. CASE EmitOp BY <1>17 DEF EmitOp
<1>18. CASE ReceiveResync BY <1>18 DEF ReceiveResync
<1>19. CASE ResetActivates BY <1>19 DEF ResetActivates, Activate
<1>20. CASE ResetWakes BY <1>20 DEF ResetWakes
<1>21. CASE ResetScans BY <1>21 DEF ResetScans
<1>22. CASE ResetStores BY <1>22 DEF ResetStores
<1>23. CASE ResetSubscribes BY <1>23 DEF ResetSubscribes
<1>24. CASE AnnounceShutdown BY <1>24 DEF AnnounceShutdown
<1>25. CASE Reconnect BY <1>25 DEF Reconnect
<1>26. CASE UNCHANGED vars BY <1>26 DEF vars
<1> QED BY <1>1, <1>2, <1>3, <1>4, <1>5, <1>6, <1>7, <1>8, <1>9, <1>10, <1>11, <1>12, <1>13,
   <1>14, <1>15, <1>16, <1>17, <1>18, <1>19, <1>20, <1>21, <1>22, <1>23, <1>24, <1>25, <1>26
   DEF Next, Callback, Drain, Bridge

(* Two operations that say the same of one file are one. *)
LEMMA SameOp ==
    ASSUME NEW o \in Op, NEW q \in Op, o.path = q.path, o.present <=> q.present
    PROVE  o = q
<1>1. o = [path |-> o.path, present |-> o.present] BY DEF Op
<1>2. q = [path |-> q.path, present |-> q.present] BY DEF Op
<1>3. o.present \in BOOLEAN /\ q.present \in BOOLEAN BY DEF Op
<1>4. o.present = q.present BY <1>3
<1> QED BY <1>1, <1>2, <1>4

(* What will have been told of a file is the disk, or it will be classified or in a
   snapshot. *)
LEMMA TellsKept ==
    ASSUME TypeOK, Steady, Paired, NeverReset, SilentHolds, PlanHolds,
           ManifestTells, TellsTheDisk, SignalsAssumption, ~SlowDrain, [Next]_vars
    PROVE  TellsTheDisk'
<1> USE DEF diskVars, callVars, barrierVars, drainVars, chanVars,
              bridgeVars, peerVars
<1>a. SUFFICES ASSUME quarantine' = "none", ~Doomed', Exact', NEW o \in Op,
                      o.present <=> o.path \in disk'
               PROVE  \/ Unplanned(o.path)' \/ Planned(o.path)' \/ Last(o)'
                      \/ Mute(o.path)' /\ (bridge' = "announcing" \/ ~linked')
  BY DEF TellsTheDisk
<1> DEFINE Goal == \/ Unplanned(o.path)' \/ Planned(o.path)' \/ Last(o)'
                   \/ Mute(o.path)' /\ (bridge' = "announcing" \/ ~linked')
<1>b. Exact /\ o.path \in Files BY <1>a, ExactBefore DEF Op
<1>c. CASE ResetSubscribes
  <2>1. channel' = <<>> /\ handling' = {} /\ bridge' = "announcing"
    BY <1>c DEF ResetSubscribes, Steady
  <2> QED BY <2>1 DEF Mute, InChannel
<1>d. CASE ~ResetSubscribes /\ quarantine # "none"
  <2>1. ~Doomed BY <1>a, <1>d, DoomKept
  <2>2. Flush /\ UNCHANGED <<diskVars, bridgeVars, peerVars>> BY <1>a, <1>d, FlushEnds
  <2>3. quarantine = "silent" BY <1>d, <2>1 DEF Doomed, TypeOK
  <2>4. /\ channel = <<>> /\ handling = {}
        /\ bridge = "announcing" \/ ~linked
    BY <2>1, <2>3 DEF SilentHolds
  <2>5. UNCHANGED channel BY <2>2, <2>3 DEF Flush
  <2> QED BY <2>2, <2>4, <2>5 DEF Mute, InChannel
<1>e. SUFFICES ASSUME ~ResetSubscribes, quarantine = "none" PROVE Goal BY <1>c, <1>d
<1>f. ~Doomed BY <1>a, <1>e, DoomKept
<1>g. (o.present <=> o.path \in disk) =>
         \/ Unplanned(o.path) \/ Planned(o.path) \/ Last(o)
         \/ Mute(o.path) /\ (bridge = "announcing" \/ ~linked)
  BY <1>b, <1>e, <1>f DEF TellsTheDisk
<1>h. ASSUME UNCHANGED <<plan, channel, handling, studio, bridge, linked>>
      PROVE  /\ Planned(o.path) => Planned(o.path)'
             /\ Last(o) => Last(o)'
             /\ Mute(o.path) => Mute(o.path)'
  BY <1>h DEF Planned, Last, Mute, InChannel, IsAbout
<1>i. ASSUME UNCHANGED <<disk, plan, channel, handling, studio, bridge, linked>>,
             ~PlanBatch
      PROVE  Goal
  BY <1>a, <1>b, <1>e, <1>g, <1>h, <1>i, UnplannedKept
<1>1. ASSUME NEW f \in Files, Edit(f) PROVE Goal
  <2>1. CASE o.path = f BY <1>1, <2>1 DEF Edit, Unplanned
  <2>2. CASE o.path # f
    <3>1. o.path \in disk' <=> o.path \in disk BY <1>1, <2>2 DEF Edit
    <3>2. Unplanned(o.path) => Unplanned(o.path)' BY <1>1 DEF Edit, Unplanned, Stale, Names
    <3>3. UNCHANGED <<plan, channel, handling, studio, bridge, linked>> BY <1>1 DEF Edit
    <3> QED BY <1>a, <1>g, <1>h, <3>1, <3>2, <3>3
  <2> QED BY <2>1, <2>2
<1>2. ASSUME NEW f \in Files, NEW g \in Files, Move(f, g) PROVE Goal
  BY <1>2 DEF Move, Unplanned
<1>3. CASE TagBatch BY <1>3, <1>i DEF TagBatch, PlanBatch
<1>4. CASE BackendFault BY <1>4, <1>i DEF BackendFault, PlanBatch
<1>5. CASE EnqueueBatch BY <1>5, <1>i DEF EnqueueBatch, PlanBatch
<1>6. CASE CallbackActivates BY <1>6, <1>a DEF CallbackActivates, Activate
<1>7. CASE CallbackWakes BY <1>7, <1>i DEF CallbackWakes, PlanBatch
<1>8. CASE TakeItem BY <1>8, <1>i DEF TakeItem, PlanBatch
<1>9. CASE CheckItem BY <1>9, <1>e, <1>i DEF CheckItem, Flush, PlanBatch
<1>10. CASE PlanBatch
  <2>1. UNCHANGED <<disk, channel, handling, studio, bridge, linked>> BY <1>10 DEF PlanBatch
  <2>2. /\ Last(o) => Last(o)'
        /\ Mute(o.path) => Mute(o.path)'
    BY <2>1 DEF Last, Mute, InChannel, IsAbout
  <2>3. ~Planned(o.path) BY <1>10 DEF PlanBatch, Planned, Steady
  <2>4. CASE ~held.oneSided
    <3>1. Names(held, o.path) => Planned(o.path)'
      <4>1. ASSUME o.path \in held.paths PROVE Planned(o.path)'
        <5>1. [path |-> o.path, present |-> o.path \in disk] \in plan'
          BY <1>10, <2>4, <4>1 DEF PlanBatch
        <5>2. [path |-> o.path, present |-> o.path \in disk].path = o.path OBVIOUS
        <5> QED BY <5>1, <5>2 DEF Planned
      <4> QED BY <2>4, <4>1 DEF Names
    <3> QED BY <1>a, <1>b, <1>e, <1>g, <2>1, <2>2, <2>3, <3>1, UnplannedKept
  <2>5. CASE held.oneSided
    <3>1. budget.moves # 0
      <4>1. held # Wake BY <1>10 DEF PlanBatch, TypeOK
      <4> QED BY <2>5, <4>1 DEF Paired
    <3>2. ~RacingDisk /\ Clean
      BY <1>b, <1>f, <3>1 DEF Exact, Clean, Doomed, InReset, NeverReset
    <3>3. CASE o.path \in (manifest \ disk) \cup (disk \ manifest)
      <4>1. [path |-> o.path, present |-> o.path \in disk] \in plan'
        BY <1>10, <2>5, <3>3 DEF PlanBatch
      <4>2. [path |-> o.path, present |-> o.path \in disk].path = o.path OBVIOUS
      <4> QED BY <4>1, <4>2 DEF Planned
    <3>4. CASE o.path \notin (manifest \ disk) \cup (disk \ manifest)
      <4>1. o.present <=> o.path \in manifest BY <1>a, <2>1, <3>4
      <4>2. applied = {} BY <1>10 DEF PlanBatch, Steady
      <4>3. Last(o) BY <3>2, <4>1, <4>2 DEF ManifestTells
      <4> QED BY <2>2, <4>3
    <3> QED BY <3>3, <3>4
  <2> QED BY <2>4, <2>5
<1>11. CASE DrainFault BY <1>11, <1>a DEF DrainFault, Activate
<1>12. CASE DrainFlushes BY <1>12, <1>e DEF DrainFlushes, Flush
<1>13. CASE PublishOp
  <2>1. PICK op \in plan : Broadcast(op) /\ plan' = plan \ {op}
    BY <1>13, <1>e DEF PublishOp, Flush
  <2>2. /\ op \in Op
        /\ ~lagged' /\ UNCHANGED <<disk, handling, studio, bridge, linked>>
        /\ ~PlanBatch
    BY <1>13, <1>a, <2>1 DEF PublishOp, Doomed, TypeOK, PlanBatch
  <2>3. /\ Last(op)'
        /\ \A q \in Op : q.path # op.path => (Last(q) => Last(q)')
        /\ \A f \in Files : f # op.path => (Mute(f) => Mute(f)')
    BY <2>1, <2>2, Publishing
  <2>4. Unplanned(o.path) => Unplanned(o.path)' BY <1>a, <1>b, <1>e, <2>2, UnplannedKept
  <2>5. CASE o.path = op.path
    <3>1. Unplanned(op.path) \/ (op.present <=> op.path \in disk)
      BY <1>b, <1>e, <2>1 DEF PlanHolds
    <3>2. ASSUME op.present <=> op.path \in disk PROVE Last(o)'
      <4>1. op = o BY <1>a, <2>2, <2>5, <3>2, SameOp
      <4> QED BY <2>3, <4>1
    <3> QED BY <2>4, <2>5, <3>1, <3>2
  <2>6. CASE o.path # op.path
    <3>1. Planned(o.path) => Planned(o.path)' BY <2>1, <2>6 DEF Planned
    <3> QED BY <1>a, <1>b, <1>g, <2>2, <2>3, <2>4, <2>6, <3>1
  <2> QED BY <2>5, <2>6
<1>14. CASE ApplyToManifest BY <1>14, <1>i DEF ApplyToManifest, PlanBatch
<1>15. CASE FinishBatch BY <1>15, <1>i DEF FinishBatch, PlanBatch
<1>16. CASE ReceiveOp
  <2>1. /\ handling = {} /\ channel # <<>> /\ Head(channel) # Resync
        /\ channel' = Tail(channel) /\ handling' = {Head(channel)}
        /\ UNCHANGED <<disk, plan, studio, linked>> /\ bridge = "recv" /\ ~PlanBatch
    BY <1>16, <1>a DEF ReceiveOp, Steady, Doomed, InReset, PlanBatch
  <2>2. (Last(o) => Last(o)') /\ (Mute(o.path) => Mute(o.path)') BY <1>b, <2>1, Hearing
  <2>3. Unplanned(o.path) => Unplanned(o.path)' BY <1>a, <1>b, <1>e, <2>1, UnplannedKept
  <2>4. Planned(o.path) => Planned(o.path)' BY <2>1 DEF Planned
  <2> QED BY <1>a, <1>g, <2>1, <2>2, <2>3, <2>4
<1>17. CASE EmitOp
  <2>1. PICK op \in handling : studio' = IF linked THEN After(studio, op) ELSE studio
    BY <1>17 DEF EmitOp
  <2>2. handling = {op} /\ op \in Op /\ handling' = {} BY <1>17, <2>1 DEF EmitOp, Steady
  <2>3. /\ UNCHANGED <<disk, plan, channel, linked>> /\ bridge = "grace"
        /\ ~PlanBatch
    BY <1>17, <1>i DEF EmitOp, PlanBatch
  <2>4. /\ Mute(o.path) => Mute(o.path)'
        /\ Last(o) => Last(o)' \/ (~linked /\ Mute(o.path)')
    BY <1>b, <2>1, <2>2, <2>3, Telling
  <2>5. Unplanned(o.path) => Unplanned(o.path)' BY <1>a, <1>b, <1>e, <2>3, UnplannedKept
  <2>6. Planned(o.path) => Planned(o.path)' BY <2>3 DEF Planned
  <2> QED BY <1>a, <1>g, <2>3, <2>4, <2>5, <2>6
<1>18. CASE ReceiveResync BY <1>18, <1>a DEF ReceiveResync, Doomed, InReset
<1>19. CASE ResetActivates BY <1>19, <1>a DEF ResetActivates, Activate
<1>20. CASE ResetWakes BY <1>20, <1>f DEF ResetWakes, Doomed, InReset
<1>21. CASE ResetScans BY <1>21, <1>f DEF ResetScans, Doomed, InReset
<1>22. CASE ResetStores BY <1>22, <1>f DEF ResetStores, Doomed, InReset
<1>23. CASE ResetSubscribes BY <1>23, <1>e
<1>24. CASE AnnounceShutdown
  <2>1. /\ UNCHANGED <<disk, plan, channel, handling, studio>> /\ ~linked'
        /\ ~PlanBatch
    BY <1>24, <1>i DEF AnnounceShutdown, PlanBatch
  <2>2. /\ Planned(o.path) => Planned(o.path)'
        /\ Last(o) => Last(o)'
        /\ Mute(o.path) => Mute(o.path)'
    BY <2>1 DEF Planned, Last, Mute, InChannel, IsAbout
  <2> QED BY <1>a, <1>b, <1>e, <1>g, <2>1, <2>2, UnplannedKept
<1>25. CASE Reconnect
  <2>1. UNCHANGED <<disk, plan, channel, handling, bridge>> /\ studio' = disk
        /\ ~PlanBatch
    BY <1>25, <1>i DEF Reconnect, PlanBatch
  <2>2. Planned(o.path) => Planned(o.path)' BY <2>1 DEF Planned
  <2>3. Mute(o.path) => Last(o)' BY <1>a, <2>1 DEF Last, Mute, InChannel, IsAbout
  <2>4. Last(o) => Last(o)' BY <2>1, <2>3 DEF Last, Mute, InChannel, IsAbout
  <2> QED BY <1>a, <1>b, <1>e, <1>g, <2>1, <2>2, <2>3, <2>4, UnplannedKept
<1>26. CASE UNCHANGED vars BY <1>26, <1>i DEF vars, PlanBatch
<1> QED BY <1>1, <1>2, <1>3, <1>4, <1>5, <1>6, <1>7, <1>8, <1>9, <1>10, <1>11, <1>12, <1>13,
   <1>14, <1>15, <1>16, <1>17, <1>18, <1>19, <1>20, <1>21, <1>22, <1>23, <1>24, <1>25, <1>26
   DEF Next, Callback, Drain, Bridge

(* What is clean was clean before. *)
LEMMA CleanBefore ==
    ASSUME TypeOK, Steady, NeverReset, [Next]_vars, Clean'
    PROVE  Clean
<1> USE DEF Clean, NeverReset
<1> USE DEF diskVars, callVars, barrierVars, drainVars, chanVars,
              bridgeVars, peerVars
<1>1. ASSUME NEW f \in Files, Edit(f) PROVE Clean BY <1>1 DEF Edit
<1>2. ASSUME NEW f \in Files, NEW g \in Files, Move(f, g) PROVE Clean BY <1>2 DEF Move
<1>3. CASE TagBatch BY <1>3 DEF TagBatch
<1>4. CASE BackendFault BY <1>4 DEF BackendFault
<1>5. CASE EnqueueBatch BY <1>5 DEF EnqueueBatch
<1>6. CASE CallbackActivates BY <1>6 DEF CallbackActivates, Activate, TypeOK
<1>7. CASE CallbackWakes BY <1>7 DEF CallbackWakes
<1>8. CASE TakeItem BY <1>8 DEF TakeItem
<1>9. CASE CheckItem BY <1>9 DEF CheckItem, Flush, TypeOK, Steady
<1>10. CASE PlanBatch BY <1>10 DEF PlanBatch
<1>11. CASE DrainFault BY <1>11 DEF DrainFault, Activate, TypeOK
<1>12. CASE DrainFlushes BY <1>12 DEF DrainFlushes, Flush, TypeOK, Steady
<1>13. CASE PublishOp BY <1>13 DEF PublishOp, Flush, Broadcast, TypeOK, Steady
<1>14. CASE ApplyToManifest BY <1>14 DEF ApplyToManifest
<1>15. CASE FinishBatch BY <1>15 DEF FinishBatch
<1>16. CASE ReceiveOp BY <1>16 DEF ReceiveOp
<1>17. CASE EmitOp BY <1>17 DEF EmitOp
<1>18. CASE ReceiveResync BY <1>18 DEF ReceiveResync
<1>19. CASE ResetActivates BY <1>19 DEF ResetActivates, Activate, TypeOK
<1>20. CASE ResetWakes BY <1>20 DEF ResetWakes
<1>21. CASE ResetScans BY <1>21 DEF ResetScans
<1>22. CASE ResetStores BY <1>22 DEF ResetStores
<1>23. CASE ResetSubscribes BY <1>23 DEF ResetSubscribes
<1>24. CASE AnnounceShutdown BY <1>24 DEF AnnounceShutdown
<1>25. CASE Reconnect BY <1>25 DEF Reconnect
<1>26. CASE UNCHANGED vars BY <1>26 DEF vars
<1> QED BY <1>1, <1>2, <1>3, <1>4, <1>5, <1>6, <1>7, <1>8, <1>9, <1>10, <1>11, <1>12, <1>13,
   <1>14, <1>15, <1>16, <1>17, <1>18, <1>19, <1>20, <1>21, <1>22, <1>23, <1>24, <1>25, <1>26
   DEF Next, Callback, Drain, Bridge

(* A clean step publishes by a broadcast that overruns nobody. *)
LEMMA CleanPublish ==
    ASSUME TypeOK, Steady, NeverReset, SignalsAssumption, Clean', Clean, PublishOp
    PROVE  \E op \in plan :
              /\ op \in Op /\ plan' = plan \ {op} /\ applied' = {op} /\ Last(op)'
              /\ \A q \in Op : q.path # op.path => (Last(q) => Last(q)')
<1> USE DEF drainVars, barrierVars, bridgeVars, peerVars, chanVars, callVars, diskVars
<1>1. quarantine = "none" BY DEF Clean, NeverReset
<1>2. PICK op \in plan : Broadcast(op) /\ plan' = plan \ {op} /\ applied' = {op}
  BY <1>1 DEF PublishOp, Flush
<1>3. op \in Op /\ ~lagged' /\ UNCHANGED <<handling, studio>>
  BY <1>2 DEF PublishOp, Clean, TypeOK
<1> QED BY <1>2, <1>3, Publishing

(* The bridge hands on what will have been told. *)
LEMMA CleanBridge ==
    ASSUME TypeOK, Steady, NeverReset, SignalsAssumption, Clean', Clean,
           ReceiveOp \/ EmitOp
    PROVE  \A q \in Op : Last(q) => Last(q)'
<1>1. CASE ReceiveOp
  <2>1. /\ handling = {} /\ channel # <<>> /\ Head(channel) # Resync
        /\ channel' = Tail(channel) /\ handling' = {Head(channel)}
        /\ UNCHANGED studio
    BY <1>1 DEF ReceiveOp, Steady, Clean, peerVars
  <2> QED BY <2>1, Hearing
<1>2. CASE EmitOp
  <2>1. PICK op \in handling : studio' = IF linked THEN After(studio, op) ELSE studio
    BY <1>2 DEF EmitOp
  <2>2. /\ handling = {op} /\ op \in Op /\ handling' = {} /\ linked
        /\ UNCHANGED channel
    BY <1>2, <2>1 DEF EmitOp, Steady, Clean, NeverReset, chanVars
  <2> QED BY <2>1, <2>2, Telling
<1> QED BY <1>1, <1>2

(* What was published is entered. *)
LEMMA Applied ==
    ASSUME NEW op \in Op, op.present <=> op.path \in disk,
           manifest' = After(manifest, [op EXCEPT !.present = @ /\ op.path \in disk])
    PROVE  /\ op.path \in manifest' <=> op.present
           /\ \A f : f # op.path => (f \in manifest' <=> f \in manifest)
<1> DEFINE q == [op EXCEPT !.present = @ /\ op.path \in disk]
<1>1. q.path = op.path /\ (q.present <=> op.present) BY DEF Op
<1> HIDE DEF q
<1>2. manifest' = After(manifest, q) BY DEF q
<1> QED BY <1>1, <1>2 DEF After

(* Until something fails, the manifest is what has been told. *)
LEMMA ManifestKept ==
    ASSUME TypeOK, Steady, NeverReset, SignalsAssumption, ManifestTells,
           PlanIsDisk, AppliedIsTold, ComparisonHolds, [Next]_vars
    PROVE  ManifestTells'
<1> USE DEF diskVars, callVars, barrierVars, drainVars, chanVars,
              bridgeVars, peerVars
<1>a. SUFFICES ASSUME ~RacingDisk, Clean', NEW o \in Op,
                      o.present <=> o.path \in manifest'
               PROVE  Last(o)' \/ \E op \in applied' : op.path = o.path
  BY DEF ManifestTells
<1> DEFINE Goal == Last(o)' \/ \E op \in applied' : op.path = o.path
<1>b. Clean BY <1>a, CleanBefore
<1>c. (o.present <=> o.path \in manifest) =>
         Last(o) \/ \E op \in applied : op.path = o.path
  BY <1>a, <1>b DEF ManifestTells
<1>d. ASSUME UNCHANGED <<channel, handling, studio>>
      PROVE  \A q : Last(q) => Last(q)'
  BY <1>d DEF Last, Mute, InChannel, IsAbout
<1>e. ASSUME UNCHANGED <<manifest, applied, channel, handling, studio>>
      PROVE  Goal
  BY <1>a, <1>c, <1>d, <1>e
<1>1. ASSUME NEW f \in Files, Edit(f) PROVE Goal BY <1>1, <1>e DEF Edit
<1>2. ASSUME NEW f \in Files, NEW g \in Files, Move(f, g) PROVE Goal BY <1>2, <1>e DEF Move
<1>3. CASE TagBatch BY <1>3, <1>e DEF TagBatch
<1>4. CASE BackendFault BY <1>4, <1>e DEF BackendFault
<1>5. CASE EnqueueBatch BY <1>5, <1>e DEF EnqueueBatch
<1>6. CASE CallbackActivates BY <1>6, <1>e DEF CallbackActivates
<1>7. CASE CallbackWakes BY <1>7, <1>e DEF CallbackWakes
<1>8. CASE TakeItem BY <1>8, <1>e DEF TakeItem
<1>9. CASE CheckItem BY <1>9, <1>a, <1>b, <1>e DEF CheckItem, Flush, Clean, NeverReset
<1>10. CASE PlanBatch BY <1>10, <1>e DEF PlanBatch
<1>11. CASE DrainFault BY <1>11, <1>e DEF DrainFault
<1>12. CASE DrainFlushes BY <1>12, <1>a, <1>b DEF DrainFlushes, Flush, Clean, NeverReset
<1>13. CASE PublishOp
  <2>1. applied = {} /\ UNCHANGED manifest BY <1>13 DEF PublishOp, Steady
  <2> QED BY <1>13, <1>a, <1>b, <1>c, <2>1, CleanPublish
<1>14. CASE ApplyToManifest
  <2>1. PICK op \in applied :
           manifest' = After(manifest, [op EXCEPT !.present = op.present /\ op.path \in disk])
    BY <1>14 DEF ApplyToManifest
  <2>2. op \in Op /\ applied = {op} /\ UNCHANGED <<channel, handling, studio>>
    BY <1>14, <2>1 DEF ApplyToManifest, Steady
  <2>3. (op.present <=> op.path \in disk) /\ Last(op)
    BY <1>a, <1>b, <2>1 DEF PlanIsDisk, AppliedIsTold
  <2>4. /\ op.path \in manifest' <=> op.present
        /\ \A f : f # op.path => (f \in manifest' <=> f \in manifest)
    BY <2>1, <2>2, <2>3, Applied
  <2>5. CASE o.path = op.path
    <3>1. o = op BY <1>a, <2>2, <2>4, <2>5, SameOp
    <3> QED BY <1>d, <2>2, <2>3, <3>1
  <2>6. CASE o.path # op.path BY <1>a, <1>c, <1>d, <2>2, <2>4, <2>6
  <2> QED BY <2>5, <2>6
<1>15. CASE FinishBatch
  <2>1. /\ plan = {} /\ applied = {} /\ ManifestBehind
        /\ UNCHANGED <<applied, channel, handling, studio>>
    BY <1>15 DEF FinishBatch, Steady, ManifestBehind
  <2>2. o.path \in manifest' <=> o.path \in manifest
    <3>1. CASE held.oneSided
      <4>1. scanned = disk /\ (o.path \in manifest <=> o.path \in disk)
        BY <1>a, <1>b, <2>1, <3>1 DEF ComparisonHolds, Clean, Op
      <4> QED BY <1>15, <3>1, <4>1 DEF FinishBatch
    <3>2. CASE ~held.oneSided BY <1>15, <3>2 DEF FinishBatch
    <3> QED BY <3>1, <3>2
  <2> QED BY <1>a, <1>c, <1>d, <2>1, <2>2
<1>16. CASE ReceiveOp
  <2>1. UNCHANGED <<manifest, applied>> BY <1>16 DEF ReceiveOp
  <2> QED BY <1>16, <1>a, <1>b, <1>c, <2>1, CleanBridge
<1> USE <1>b DEF Clean
<1>17. CASE EmitOp
  <2>1. UNCHANGED <<manifest, applied>> BY <1>17 DEF EmitOp
  <2> QED BY <1>17, <1>a, <1>c, <2>1, CleanBridge
<1>18. CASE ReceiveResync BY <1>18, <1>a DEF ReceiveResync
<1>19. CASE ResetActivates BY <1>19 DEF ResetActivates
<1>20. CASE ResetWakes BY <1>20 DEF ResetWakes
<1>21. CASE ResetScans BY <1>21 DEF ResetScans
<1>22. CASE ResetStores BY <1>22 DEF ResetStores
<1>23. CASE ResetSubscribes BY <1>23 DEF ResetSubscribes
<1>24. CASE AnnounceShutdown BY <1>24 DEF AnnounceShutdown
<1>25. CASE Reconnect BY <1>25 DEF Reconnect, NeverReset
<1>26. CASE UNCHANGED vars BY <1>26, <1>e DEF vars
<1> QED BY <1>1, <1>2, <1>3, <1>4, <1>5, <1>6, <1>7, <1>8, <1>9, <1>10, <1>11, <1>12, <1>13,
   <1>14, <1>15, <1>16, <1>17, <1>18, <1>19, <1>20, <1>21, <1>22, <1>23, <1>24, <1>25, <1>26
   DEF Next, Callback, Drain, Bridge

(* What was published last is what will have been told of its file. *)
LEMMA AppliedKept ==
    ASSUME TypeOK, Steady, NeverReset, SignalsAssumption, AppliedIsTold, [Next]_vars
    PROVE  AppliedIsTold'
<1> USE DEF diskVars, callVars, barrierVars, drainVars, chanVars,
              bridgeVars, peerVars
<1>a. SUFFICES ASSUME ~RacingDisk, Clean', NEW op \in applied' PROVE Last(op)'
  BY DEF AppliedIsTold
<1> USE <1>a
<1> DEFINE Goal == Last(op)'
<1>b. Clean /\ op \in Op BY CleanBefore, TypesKept DEF TypeOK
<1>c. op \in applied => Last(op) BY <1>b DEF AppliedIsTold
<1>d. ASSUME op \in applied, UNCHANGED <<channel, handling, studio>> PROVE Goal
  BY <1>c, <1>d DEF Last, Mute, InChannel, IsAbout
<1>1. ASSUME NEW f \in Files, Edit(f) PROVE Goal BY <1>1, <1>d DEF Edit
<1>2. ASSUME NEW f \in Files, NEW g \in Files, Move(f, g) PROVE Goal BY <1>2, <1>d DEF Move
<1>3. CASE TagBatch BY <1>3, <1>d DEF TagBatch
<1>4. CASE BackendFault BY <1>4, <1>d DEF BackendFault
<1>5. CASE EnqueueBatch BY <1>5, <1>d DEF EnqueueBatch
<1>6. CASE CallbackActivates BY <1>6, <1>d DEF CallbackActivates
<1>7. CASE CallbackWakes BY <1>7, <1>d DEF CallbackWakes
<1>8. CASE TakeItem BY <1>8, <1>d DEF TakeItem
<1>9. CASE CheckItem BY <1>9 DEF CheckItem, Steady
<1>10. CASE PlanBatch BY <1>10, <1>d DEF PlanBatch
<1>11. CASE DrainFault BY <1>11, <1>d DEF DrainFault
<1>12. CASE DrainFlushes BY <1>12 DEF DrainFlushes, Steady
<1>13. CASE PublishOp BY <1>13, <1>b, CleanPublish
<1>14. CASE ApplyToManifest BY <1>14 DEF ApplyToManifest
<1>15. CASE FinishBatch BY <1>15, <1>d DEF FinishBatch
<1>16. CASE ReceiveOp
  <2>1. UNCHANGED applied BY <1>16 DEF ReceiveOp
  <2> QED BY <1>16, <1>b, <1>c, <2>1, CleanBridge
<1>17. CASE EmitOp
  <2>1. UNCHANGED applied BY <1>17 DEF EmitOp
  <2> QED BY <1>17, <1>b, <1>c, <2>1, CleanBridge
<1>18. CASE ReceiveResync BY <1>18 DEF ReceiveResync, Clean
<1>19. CASE ResetActivates BY <1>19, <1>b DEF ResetActivates, Clean
<1>20. CASE ResetWakes BY <1>20, <1>b DEF ResetWakes, Clean
<1>21. CASE ResetScans BY <1>21, <1>b DEF ResetScans, Clean
<1>22. CASE ResetStores BY <1>22, <1>b DEF ResetStores, Clean
<1>23. CASE ResetSubscribes BY <1>23, <1>b DEF ResetSubscribes, Clean
<1>24. CASE AnnounceShutdown BY <1>24, <1>b DEF AnnounceShutdown, Clean
<1>25. CASE Reconnect BY <1>25, <1>b DEF Reconnect, Clean, NeverReset
<1>26. CASE UNCHANGED vars BY <1>26, <1>d DEF vars
<1> QED BY <1>1, <1>2, <1>3, <1>4, <1>5, <1>6, <1>7, <1>8, <1>9, <1>10, <1>11, <1>12, <1>13,
   <1>14, <1>15, <1>16, <1>17, <1>18, <1>19, <1>20, <1>21, <1>22, <1>23, <1>24, <1>25, <1>26
   DEF Next, Callback, Drain, Bridge

(* The disk waits while what was planned is published. *)
LEMMA PlanDiskKept ==
    ASSUME TypeOK, Steady, PlanIsDisk, [Next]_vars
    PROVE  PlanIsDisk'
<1> USE DEF diskVars, callVars, barrierVars, drainVars, chanVars,
              bridgeVars, peerVars
<1>a. SUFFICES ASSUME ~RacingDisk, NEW op \in plan' \cup applied'
               PROVE  op.present <=> op.path \in disk'
  BY DEF PlanIsDisk
<1> DEFINE Goal == op.present <=> op.path \in disk'
<1>b. op \in plan \cup applied => (op.present <=> op.path \in disk) BY <1>a DEF PlanIsDisk
<1> USE <1>a, <1>b
<1>1. ASSUME NEW f \in Files, Edit(f) PROVE Goal
  BY <1>1 DEF Edit, DiskChange, ManifestBehind, Steady
<1>2. ASSUME NEW f \in Files, NEW g \in Files, Move(f, g) PROVE Goal
  BY <1>2 DEF Move, DiskChange, ManifestBehind, Steady
<1>3. CASE TagBatch BY <1>3 DEF TagBatch
<1>4. CASE BackendFault BY <1>4 DEF BackendFault
<1>5. CASE EnqueueBatch BY <1>5 DEF EnqueueBatch
<1>6. CASE CallbackActivates BY <1>6 DEF CallbackActivates
<1>7. CASE CallbackWakes BY <1>7 DEF CallbackWakes
<1>8. CASE TakeItem BY <1>8 DEF TakeItem
<1>9. CASE CheckItem BY <1>9 DEF CheckItem
<1>10. CASE PlanBatch
  <2> USE <1>10 DEF PlanBatch
  <2>1. op \in plan' BY DEF Steady
  <2>2. PICK f : op = [path |-> f, present |-> f \in disk] BY <2>1
  <2>3. op.path = f /\ (op.present <=> f \in disk) BY <2>2
  <2> QED BY <2>3
<1>11. CASE DrainFault BY <1>11 DEF DrainFault
<1>12. CASE DrainFlushes BY <1>12 DEF DrainFlushes
<1>13. CASE PublishOp BY <1>13 DEF PublishOp
<1>14. CASE ApplyToManifest BY <1>14 DEF ApplyToManifest
<1>15. CASE FinishBatch BY <1>15 DEF FinishBatch
<1>16. CASE ReceiveOp BY <1>16 DEF ReceiveOp
<1>17. CASE EmitOp BY <1>17 DEF EmitOp
<1>18. CASE ReceiveResync BY <1>18 DEF ReceiveResync
<1>19. CASE ResetActivates BY <1>19 DEF ResetActivates
<1>20. CASE ResetWakes BY <1>20 DEF ResetWakes
<1>21. CASE ResetScans BY <1>21 DEF ResetScans
<1>22. CASE ResetStores BY <1>22 DEF ResetStores
<1>23. CASE ResetSubscribes BY <1>23 DEF ResetSubscribes
<1>24. CASE AnnounceShutdown BY <1>24 DEF AnnounceShutdown
<1>25. CASE Reconnect BY <1>25 DEF Reconnect
<1>26. CASE UNCHANGED vars BY <1>26 DEF vars
<1> QED BY <1>1, <1>2, <1>3, <1>4, <1>5, <1>6, <1>7, <1>8, <1>9, <1>10, <1>11, <1>12, <1>13,
   <1>14, <1>15, <1>16, <1>17, <1>18, <1>19, <1>20, <1>21, <1>22, <1>23, <1>24, <1>25, <1>26
   DEF Next, Callback, Drain, Bridge

(* A comparison plans all in which manifest and disk differ. *)
LEMMA ComparisonKept ==
    ASSUME TypeOK, Steady, NeverReset, PlanIsDisk, ComparisonHolds, [Next]_vars
    PROVE  ComparisonHolds'
<1> USE DEF diskVars, callVars, barrierVars, drainVars, chanVars,
              bridgeVars, peerVars
<1>a. SUFFICES ASSUME ~RacingDisk, generation' = 0, ManifestBehind', held'.oneSided
               PROVE  /\ scanned' = disk'
                      /\ \A f \in Files :
                            \/ \E op \in plan' \cup applied' : op.path = f
                            \/ f \in manifest' <=> f \in disk'
  BY DEF ComparisonHolds
<1> USE <1>a DEF ManifestBehind
<1> DEFINE Goal == /\ scanned' = disk'
                   /\ \A f \in Files :
                         \/ \E op \in plan' \cup applied' : op.path = f
                         \/ f \in manifest' <=> f \in disk'
<1>b. ManifestBehind /\ held.oneSided /\ generation = 0 =>
         /\ scanned = disk
         /\ \A f \in Files : \/ \E op \in plan \cup applied : op.path = f
                             \/ f \in manifest <=> f \in disk
  BY DEF ComparisonHolds
<1>1. ASSUME NEW f \in Files, Edit(f) PROVE Goal BY <1>1 DEF Edit, DiskChange
<1>2. ASSUME NEW f \in Files, NEW g \in Files, Move(f, g) PROVE Goal
  BY <1>2 DEF Move, DiskChange
<1>3. CASE TagBatch BY <1>3, <1>b DEF TagBatch
<1>4. CASE BackendFault BY <1>4, <1>b DEF BackendFault
<1>5. CASE EnqueueBatch BY <1>5, <1>b DEF EnqueueBatch
<1>6. CASE CallbackActivates BY <1>6, <1>b DEF CallbackActivates, Activate, TypeOK
<1>7. CASE CallbackWakes BY <1>7, <1>b DEF CallbackWakes
<1>8. CASE TakeItem BY <1>8 DEF TakeItem
<1>9. CASE CheckItem BY <1>9 DEF CheckItem
<1>10. CASE PlanBatch
  <2>1. scanned' = disk' /\ UNCHANGED <<disk, manifest>> /\ held.oneSided
    BY <1>10 DEF PlanBatch
  <2>2. ASSUME NEW f \in Files, f \in (manifest \ disk) \cup (disk \ manifest)
        PROVE  \E op \in plan' : op.path = f
    <3>1. [path |-> f, present |-> f \in disk] \in plan' BY <1>10, <2>1, <2>2 DEF PlanBatch
    <3>2. [path |-> f, present |-> f \in disk].path = f OBVIOUS
    <3> QED BY <3>1, <3>2
  <2> QED BY <2>1, <2>2
<1>11. CASE DrainFault BY <1>11 DEF DrainFault
<1>12. CASE DrainFlushes BY <1>12 DEF DrainFlushes
<1>13. CASE PublishOp
  <2> USE <1>13 DEF PublishOp
  <2>1. CASE Flush BY <2>1 DEF Flush
  <2>2. ASSUME NEW op \in plan, plan' = plan \ {op}, applied' = {op},
               UNCHANGED barrierVars
        PROVE  Goal
    BY <1>b, <2>2 DEF Steady
  <2> QED BY <2>1, <2>2
<1>14. CASE ApplyToManifest
  <2> USE <1>14 DEF ApplyToManifest
  <2>1. PICK op \in applied :
           manifest' = After(manifest, [op EXCEPT !.present = op.present /\ op.path \in disk])
    OBVIOUS
  <2>2. op \in Op /\ applied = {op} /\ UNCHANGED <<plan, scanned, disk>> BY <2>1 DEF Steady
  <2>3. op.present <=> op.path \in disk BY <2>1 DEF PlanIsDisk
  <2>4. /\ op.path \in manifest' <=> op.present
        /\ \A f : f # op.path => (f \in manifest' <=> f \in manifest)
    BY <2>1, <2>2, <2>3, Applied
  <2> QED BY <1>b, <2>2, <2>3, <2>4
<1>15. CASE FinishBatch BY <1>15 DEF FinishBatch
<1>16. CASE ReceiveOp BY <1>16, <1>b DEF ReceiveOp
<1>17. CASE EmitOp BY <1>17, <1>b DEF EmitOp
<1>18. CASE ReceiveResync BY <1>18, <1>b DEF ReceiveResync
<1>19. CASE ResetActivates BY <1>19, <1>b DEF ResetActivates, Activate, TypeOK
<1>20. CASE ResetWakes BY <1>20, <1>b DEF ResetWakes
<1>21. CASE ResetScans BY <1>21, <1>b DEF ResetScans
<1>22. CASE ResetStores BY <1>22 DEF ResetStores, NeverReset
<1>23. CASE ResetSubscribes BY <1>23, <1>b DEF ResetSubscribes
<1>24. CASE AnnounceShutdown BY <1>24, <1>b DEF AnnounceShutdown
<1>25. CASE Reconnect BY <1>25, <1>b DEF Reconnect
<1>26. CASE UNCHANGED vars BY <1>26, <1>b DEF vars
<1> QED BY <1>1, <1>2, <1>3, <1>4, <1>5, <1>6, <1>7, <1>8, <1>9, <1>10, <1>11, <1>12, <1>13,
   <1>14, <1>15, <1>16, <1>17, <1>18, <1>19, <1>20, <1>21, <1>22, <1>23, <1>24, <1>25, <1>26
   DEF Next, Callback, Drain, Bridge

(* Every step keeps the invariant. *)
LEMMA FollowsKept ==
    ASSUME TypeOK, Follows, SignalsAssumption, ~SlowDrain, [Next]_vars
    PROVE  Follows'
BY SteadyKept, PairedKept, NeverResetKept, SilentKept, PlanKept, TellsKept, ManifestKept,
   AppliedKept, PlanDiskKept, ComparisonKept DEF Follows

LEMMA FollowsInit ==
    ASSUME Init
    PROVE  Follows
<1>1. Steady /\ Paired /\ NeverReset /\ SilentHolds /\ PlanHolds /\ PlanIsDisk
  BY DEF Init, Steady, Paired, NeverReset, SilentHolds, PlanHolds, PlanIsDisk, NoBatch
<1>2. ComparisonHolds /\ AppliedIsTold
  BY DEF Init, ComparisonHolds, AppliedIsTold, ManifestBehind
<1>3. \A o \in Op : (o.present <=> o.path \in disk) => Last(o)
  BY DEF Init, Last, Mute, InChannel
<1> QED BY <1>1, <1>2, <1>3 DEF Init, Follows, TellsTheDisk, ManifestTells

LEMMA Spoken ==
    ASSUME NEW S, NEW f \in Files
    PROVE  \E o \in Op : o.path = f /\ (o.present <=> f \in S)
<1>1. CASE f \in S
  <2>1. [path |-> f, present |-> TRUE] \in Op BY DEF Op
  <2> QED BY <1>1, <2>1
<1>2. CASE f \notin S
  <2>1. [path |-> f, present |-> FALSE] \in Op BY DEF Op
  <2> QED BY <1>2, <2>1
<1> QED BY <1>1, <1>2

(* When all has been handed on, what was told last of a file is what Studio has; and that
   was the disk. *)
LEMMA AtRest ==
    ASSUME TypeOK, Follows, Idle
    PROVE  /\ Exact => studio = disk
           /\ ~RacingDisk /\ generation = 0 => studio = disk /\ manifest = disk
<1>1. /\ quarantine = "none" /\ channel = <<>> /\ handling = {} /\ plan = {}
      /\ applied = {} /\ linked /\ bridge = "recv" /\ ~Doomed
  BY DEF Idle, Follows, Steady, Doomed, InReset
<1>2. ASSUME NEW o \in Op, Last(o) PROVE o.present <=> o.path \in studio
  BY <1>1, <1>2 DEF Last, InChannel
<1>3. ASSUME Exact, NEW f \in Files PROVE f \in disk <=> f \in studio
  <2>1. PICK o \in Op : o.path = f /\ (o.present <=> f \in disk) BY Spoken
  <2>2. ~Unplanned(f) /\ ~Planned(f) BY <1>1 DEF Unplanned, Planned, Idle
  <2>3. Last(o) BY <1>1, <1>3, <2>1, <2>2 DEF Follows, TellsTheDisk
  <2> QED BY <1>2, <2>1, <2>3
<1>4. ASSUME ~RacingDisk, generation = 0, NEW f \in Files
      PROVE  f \in manifest <=> f \in studio
  <2>1. PICK o \in Op : o.path = f /\ (o.present <=> f \in manifest) BY Spoken
  <2>2. Clean BY <1>1, <1>4 DEF Clean, Idle
  <2>3. Last(o) BY <1>1, <1>4, <2>1, <2>2 DEF Follows, ManifestTells
  <2> QED BY <1>2, <2>1, <2>3
<1> QED BY <1>3, <1>4 DEF TypeOK, Exact

(* Through every overflow, fault, discarded generation and reset: once all is handed on,
   Studio has what the disk has, as long as no rename is one-sided, or nothing was reset and
   the disk waited for the manifest. A reconnect is taken to be slower than the drain
   thread. *)
THEOREM StudioIsTheDisk ==
    ASSUME ~SlowDrain
    PROVE  Spec => []StudioFollows
<1>1. Init => Follows BY FollowsInit
<1>2. TypeOK /\ Follows /\ [Next]_vars => Follows' BY FollowsKept, SignalsAssumption
<1>3. TypeOK /\ Follows => StudioFollows BY AtRest DEF StudioFollows, Exact
<1> QED BY <1>1, <1>2, <1>3, TypeCorrect, PTL DEF Spec

(* If the disk waits for the manifest, the comparison after a one-sided rename publishes
   exactly what has moved, whatever the watcher is doing besides. *)
THEOREM MovesAreFollowed ==
    ASSUME ~SlowDrain, ~RacingDisk
    PROVE  Spec => []MovesAreExact
<1>1. Init => Follows BY FollowsInit
<1>2. TypeOK /\ Follows /\ [Next]_vars => Follows' BY FollowsKept, SignalsAssumption
<1>3. TypeOK /\ Follows => MovesAreExact BY AtRest DEF MovesAreExact
<1> QED BY <1>1, <1>2, <1>3, TypeCorrect, PTL DEF Spec

=============================================================================
