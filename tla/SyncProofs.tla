----------------------------- MODULE SyncProofs ------------------------------
(***************************************************************************)
(* Theorems about SourceSync, for every set of texts and every settings    *)
(* (the races left open and the bounds), and about TreeOps, for any trees  *)
(* at the start, operations, edits and faults.                             *)
(*                                                                         *)
(* A text on both sides: TypeCorrect takes the parts of the type invariant *)
(* one by one: an action changes two or three of them and Kept takes care  *)
(* of the others.                                                          *)
(* BaselineShared needs Traced, which follows each text from where the     *)
(* user made it to where the engine records it.  ParkedStaysCurrent and    *)
(* DeletionsWait need Orderly, which says how far each thread is when the  *)
(* threads of the daemon take turns.  BothSidesAgree needs Followed: while  *)
(* the plugin trusts its connection, whatever one side has and the other   *)
(* has not is read, is on its way, or will be said.                        *)
(*                                                                         *)
(* Trees: UserWorkIsKept needs TreeInv, that what an operation has looked  *)
(* at does not change before it acts on it, and that what it removes or    *)
(* writes over is Studio's, has a backup or was given up.  ReportsAreTrue  *)
(* needs ReportInv, which says for each place an operation is at what the  *)
(* disk is then, compared with the disk it found.                          *)
(***************************************************************************)
EXTENDS SourceSync, ProjectTrees, FiniteSetTheorems, TLAPS

(* The sets the types are made of, used without being expanded below. *)
LEMMA Sets ==
    /\ None \in Content /\ None \notin Texts /\ Texts \subseteq Content
    /\ \A text \in Content : text # None => text \in Texts
    /\ DiskTexts \subseteq Texts /\ StudioTexts \subseteq Texts
    /\ Base \in Texts
BY TextsAssumption DEF Texts, Content

(* What a thread holds while it rests has its type. *)
LEMMA Rests ==
    /\ Idle \in BridgeState
    /\ NoPush \in PushState /\ NoPush.at = "recv" /\ NoPush.text = None
    /\ NoChoice \in ChoiceState /\ NoChoice.at = "none"
    /\ NoJob \in WorkerState /\ NoJob.at = "idle" /\ NoJob.text = None
    /\ NoConflict \in Conflict
    /\ <<>> \in Seq(Texts) /\ <<>> \in Seq(Content)
BY Sets DEF Idle, NoPush, NoChoice, NoJob, NoConflict, BridgeState, PushState, ChoiceState,
   WorkerState, Conflict, BridgeAt, PushAt, ChoiceAt, WorkerAt

(* A thread that only goes on keeps what it holds. *)
LEMMA Steps ==
    /\ \A at \in BridgeAt : BridgeType /\ BridgeStep(at) => BridgeType'
    /\ \A at \in PushAt \ {"recv"} :
         PushType /\ push.at # "recv" /\ PushStep(at) => PushType'
    /\ \A at \in ChoiceAt \ {"none"} :
         ChoiceType /\ choice.at # "none" /\ ChoiceStep(at) => ChoiceType'
BY DEF BridgeType, BridgeStep, BridgeState, PushType, PushStep, PushState, ChoiceType,
   ChoiceStep, ChoiceState

(* A count goes up by one. *)
LEMMA Counted ==
    ASSUME CountType
    PROVE  /\ [budget EXCEPT !.saves = @ + 1] \in Counters
           /\ [budget EXCEPT !.typed = @ + 1] \in Counters
           /\ [budget EXCEPT !.choices = @ + 1] \in Counters
BY DEF CountType, Counters

(* What an action leaves alone keeps its type. *)
LEMMA Kept ==
    /\ FileType /\ UNCHANGED fileVars => FileType'
    /\ EngineType /\ UNCHANGED engineVars => EngineType'
    /\ BridgeType /\ UNCHANGED bridge => BridgeType'
    /\ PushType /\ UNCHANGED push => PushType'
    /\ ChoiceType /\ UNCHANGED choice => ChoiceType'
    /\ WireType /\ UNCHANGED wireVars => WireType'
    /\ EditorType /\ UNCHANGED editorVars => EditorType'
    /\ QueueType /\ UNCHANGED <<outgoing, linked>> => QueueType'
    /\ WorkerType /\ UNCHANGED worker => WorkerType'
    /\ CountType /\ UNCHANGED budget => CountType'
BY DEF FileType, EngineType, BridgeType, PushType, ChoiceType, WireType, EditorType,
   QueueType, WorkerType, CountType, fileVars, engineVars, wireVars, editorVars


(* Every variable keeps its type. *)
THEOREM TypeCorrect == Spec => []TypeOK
<1>1. Init => TypeOK
  <2> USE Rests DEF Init
  <2> SUFFICES ASSUME Init PROVE TypeOK OBVIOUS
  <2>1. FileType /\ EngineType /\ EditorType BY Sets DEF FileType, EngineType, EditorType
  <2>2. BridgeType /\ PushType /\ ChoiceType /\ WorkerType
    BY DEF BridgeType, PushType, ChoiceType, WorkerType
  <2>3. WireType /\ QueueType /\ CountType BY DEF WireType, QueueType, CountType, Counters
  <2> QED BY <2>1, <2>2, <2>3 DEF TypeOK, DataType
<1>2. TypeOK /\ [Next]_vars => TypeOK'
  <2> SUFFICES ASSUME DataType, [Next]_vars PROVE DataType' BY DEF TypeOK, Next, vars
  <2> USE Sets, Rests
  <2> USE DEF DataType
  <2>1. ASSUME NEW text \in DiskTexts \cup {Base}, Save(text) PROVE DataType'
    <3> USE <2>1 DEF Save, FileChange
    <3>1. FileType' BY DEF FileType, fileVars
    <3>2. CountType' BY Counted DEF CountType
    <3> QED BY <3>1, <3>2, Kept DEF pluginVars
  <2>2. ASSUME NEW text \in StudioTexts \cup {Base}, Type(text) PROVE DataType'
    <3>1. EditorType' BY <2>2 DEF Type, EditorChanged, EditorType, editorVars
    <3>2. CountType' BY <2>2, Counted DEF Type, EditorChanged, CountType
    <3> QED BY <2>2, <3>1, <3>2, Kept DEF Type
  <2>3. CASE DeleteFile
    <3> USE <2>3 DEF DeleteFile, FileChange
    <3>1. FileType' BY DEF FileType, fileVars
    <3>2. CountType' BY Counted DEF CountType
    <3> QED BY <3>1, <3>2, Kept DEF pluginVars
  <2>4. CASE Resolve
    <3> USE <2>4 DEF Resolve, Parked
    <3>1. EngineType' BY DEF EngineType, engineVars, Conflict, ChoiceType, ChoiceState
    <3>2. ChoiceType' BY Steps DEF ChoiceType, ChoiceState, ChoiceAt, EngineType, Conflict
    <3>3. CountType' BY Counted DEF CountType
    <3> QED BY <3>1, <3>2, <3>3, Kept DEF pluginVars
  <2>5. CASE QuietEnds
    <3>1. FileType' BY <2>5 DEF QuietEnds, FileType, fileVars
    <3> QED BY <2>5, <3>1, Kept DEF QuietEnds, pluginVars
  <2>6. CASE ReceiveOp
    <3> USE <2>6 DEF ReceiveOp
    <3>1. FileType' BY DEF FileType, fileVars
    <3>2. BridgeType' BY Steps DEF BridgeType, BridgeState, BridgeAt, FileType
    <3> QED BY <3>1, <3>2, Kept DEF pluginVars
  <2>7. CASE CheckParked
    <3> USE <2>7 DEF CheckParked
    <3>1. EngineType'
      BY DEF Parked, EngineType, engineVars, Conflict, BridgeType, BridgeState
    <3>2. BridgeType' BY Steps DEF Parked, BridgeType, BridgeState, BridgeAt
    <3> QED BY <3>1, <3>2, Kept DEF pluginVars
  <2>8. CASE CheckAction
    <3>1. BridgeType'
      BY <2>8, Steps DEF CheckAction, Parked, BridgeType, BridgeState, BridgeAt
    <3> QED BY <2>8, <3>1, Kept DEF CheckAction, pluginVars
  <2>9. CASE CheckBaseline
    <3>1. BridgeType' BY <2>9, Steps DEF CheckBaseline, BridgeType, BridgeState, BridgeAt
    <3> QED BY <2>9, <3>1, Kept DEF CheckBaseline, pluginVars
  <2>10. CASE BridgeRecords
    <3> USE <2>10 DEF BridgeRecords
    <3>1. EngineType' BY DEF EngineType, engineVars, Conflict, BridgeType, BridgeState
    <3>2. BridgeType' BY Steps DEF BridgeType, BridgeState, BridgeAt
    <3> QED BY <3>1, <3>2, Kept DEF pluginVars
  <2>11. CASE BeginDelete
    <3> USE <2>11 DEF BeginDelete
    <3>1. EngineType' BY DEF EngineType, engineVars, Conflict, BridgeType, BridgeState
    <3>2. BridgeType' BY Steps DEF BridgeType, BridgeState, BridgeAt
    <3> QED BY <3>1, <3>2, Kept DEF pluginVars
  <2>12. CASE AttachDelete
    <3> USE <2>12 DEF AttachDelete
    <3>1. EngineType'
      BY DEF Parked, EngineType, engineVars, Conflict, BridgeType, BridgeState
    <3>2. BridgeType' BY Steps DEF Parked, BridgeType, BridgeState, BridgeAt
    <3> QED BY <3>1, <3>2, Kept DEF pluginVars
  <2>13. CASE FinishDelete
    <3> USE <2>13 DEF FinishDelete
    <3>1. EngineType' BY DEF EngineType, engineVars, Conflict, BridgeType, BridgeState
    <3>2. BridgeType' BY Steps DEF BridgeType, BridgeState, BridgeAt
    <3> QED BY <3>1, <3>2, Kept DEF pluginVars
  <2>14. CASE DecideDelete
    <3>1. BridgeType'
      BY <2>14, Steps DEF DecideDelete, Parked, BridgeType, BridgeState, BridgeAt
    <3> QED BY <2>14, <3>1, Kept DEF DecideDelete, pluginVars
  <2>15. CASE EmitOp
    <3>1. BridgeType'
      BY <2>15, Steps DEF EmitOp, Broadcast, BridgeType, BridgeState, BridgeAt
    <3>2. WireType'
      BY <2>15 DEF EmitOp, Broadcast, WireType, wireVars, BridgeType, BridgeState
    <3> QED BY <2>15, <3>1, <3>2, Kept DEF EmitOp, pluginVars
  <2>16. CASE BridgeForgets
    <3> USE <2>16 DEF BridgeForgets
    <3>1. EngineType' BY DEF EngineType, engineVars, Conflict, BridgeType, BridgeState
    <3>2. BridgeType' BY Steps DEF BridgeType, BridgeState, BridgeAt
    <3> QED BY <3>1, <3>2, Kept DEF pluginVars
  <2>17. CASE ReceivePush
    <3> USE <2>17 DEF ReceivePush
    <3>1. PushType' BY Steps DEF PushType, PushState, PushAt, WireType
    <3>2. WireType' BY DEF WireType, wireVars
    <3> QED BY <3>1, <3>2, Kept DEF pluginVars
  <2>18. CASE LookAtTarget
    <3> USE <2>18 DEF LookAtTarget
    <3>1. PushType' BY Steps DEF PushEnds, PushType, PushState, PushAt, FileType
    <3>2. WireType' BY DEF PushEnds, WireType, wireVars
    <3> QED BY <3>1, <3>2, Kept DEF pluginVars
  <2>19. CASE ReadTarget
    <3>1. PushType' BY <2>19, Steps DEF ReadTarget, PushType, PushState, PushAt, FileType
    <3> QED BY <2>19, <3>1, Kept DEF ReadTarget, pluginVars
  <2>20. CASE CheckPending
    <3>1. PushType' BY <2>20, Steps DEF CheckPending, PushType, PushState, PushAt
    <3> QED BY <2>20, <3>1, Kept DEF CheckPending, pluginVars
  <2>21. CASE CheckClean
    <3> USE <2>21 DEF CheckClean
    <3>1. PushType' BY Steps DEF PushEnds, PushType, PushState, PushAt
    <3>2. WireType' BY DEF PushEnds, WireType, wireVars
    <3> QED BY <3>1, <3>2, Kept DEF pluginVars
  <2>22. CASE ParkDelete
    <3> USE <2>22 DEF ParkDelete, PushEnds
    <3>1. EngineType' BY DEF EngineType, engineVars, Conflict, PushType, PushState, PushAt
    <3>2. PushType' BY Steps DEF PushType, PushState, PushAt
    <3>3. WireType' BY DEF WireType, wireVars
    <3> QED BY <3>1, <3>2, <3>3, Kept DEF pluginVars
  <2>23. CASE Decide
    <3>1. PushType' BY <2>23, Steps DEF Decide, PushType, PushState, PushAt
    <3> QED BY <2>23, <3>1, Kept DEF Decide, pluginVars
  <2>24. CASE ApplyPush
    <3> USE <2>24 DEF ApplyPush
    <3>1. FileType' BY DEF WriteFile, FileType, fileVars, PushType, PushState
    <3>2. PushType' BY Steps DEF WriteFile, PushType, PushState, PushAt
    <3> QED BY <3>1, <3>2, Kept DEF pluginVars
  <2>25. CASE PushRecords
    <3> USE <2>25 DEF PushRecords, PushEnds
    <3>1. EngineType' BY DEF EngineType, engineVars, Conflict, PushType, PushState, PushAt
    <3>2. PushType' BY Steps DEF PushType, PushState, PushAt
    <3>3. WireType' BY DEF WireType, wireVars
    <3> QED BY <3>1, <3>2, <3>3, Kept DEF pluginVars
  <2>26. CASE ParkPush
    <3> USE <2>26 DEF ParkPush, PushEnds
    <3>1. EngineType' BY DEF EngineType, engineVars, Conflict, PushType, PushState, PushAt
    <3>2. PushType' BY Steps DEF PushType, PushState, PushAt
    <3>3. WireType' BY DEF WireType, wireVars
    <3> QED BY <3>1, <3>2, <3>3, Kept DEF pluginVars
  <2>27. CASE SendLocal
    <3> USE <2>27 DEF SendLocal
    <3>1. ChoiceType' BY Steps DEF Broadcast, ChoiceType, ChoiceState, ChoiceAt
    <3>2. WireType' BY DEF Broadcast, WireType, wireVars, ChoiceType, ChoiceState
    <3> QED BY <3>1, <3>2, Kept DEF pluginVars
  <2>28. CASE AwaitAck
    <3>1. ChoiceType' BY <2>28, Steps DEF AwaitAck, ChoiceType, ChoiceState, ChoiceAt
    <3> QED BY <2>28, <3>1, Kept DEF AwaitAck, pluginVars
  <2>29. CASE ParkAgain
    <3> USE <2>29 DEF ParkAgain
    <3>1. EngineType' BY DEF EngineType, engineVars, Conflict, ChoiceType, ChoiceState
    <3>2. ChoiceType' BY Steps DEF ChoiceType, ChoiceState, ChoiceAt
    <3> QED BY <3>1, <3>2, Kept DEF pluginVars
  <2>30. CASE SendDelete
    <3> USE <2>30 DEF SendDelete
    <3>1. ChoiceType' BY Steps DEF Broadcast, ChoiceType, ChoiceState, ChoiceAt
    <3>2. WireType' BY DEF Broadcast, WireType, wireVars, ChoiceType, ChoiceState
    <3> QED BY <3>1, <3>2, Kept DEF pluginVars
  <2>31. CASE ChoiceForgets
    <3> USE <2>31 DEF ChoiceForgets
    <3>1. EngineType' BY DEF EngineType, engineVars, Conflict, ChoiceType, ChoiceState
    <3>2. ChoiceType' BY Steps DEF ChoiceType, ChoiceState, ChoiceAt
    <3> QED BY <3>1, <3>2, Kept DEF pluginVars
  <2>32. CASE WriteChoice
    <3> USE <2>32 DEF WriteChoice
    <3>1. FileType' BY DEF WriteFile, FileType, fileVars, ChoiceType, ChoiceState
    <3>2. ChoiceType' BY Steps DEF WriteFile, ChoiceType, ChoiceState, ChoiceAt
    <3> QED BY <3>1, <3>2, Kept DEF pluginVars
  <2>33. CASE WriteChoiceFails
    <3>1. ChoiceType'
      BY <2>33, Steps DEF WriteChoiceFails, ChoiceType, ChoiceState, ChoiceAt
    <3> QED BY <2>33, <3>1, Kept DEF WriteChoiceFails, pluginVars
  <2>34. CASE RestoreFile
    <3>1. ChoiceType' BY <2>34, Steps DEF RestoreFile, ChoiceType, ChoiceState, ChoiceAt
    <3> QED BY <2>34, <3>1, Kept DEF RestoreFile, pluginVars
  <2>35. CASE ChoiceRecords
    <3> USE <2>35 DEF ChoiceRecords
    <3>1. EngineType' BY DEF EngineType, engineVars, Conflict, ChoiceType, ChoiceState
    <3>2. ChoiceType' BY Steps DEF ChoiceType, ChoiceState, ChoiceAt
    <3> QED BY <3>1, <3>2, Kept DEF pluginVars
  <2>36. CASE CommitEdit
    <3> USE <2>36 DEF CommitEdit
    <3>1. EditorType' BY DEF EditorType, editorVars
    <3>2. QueueType' BY DEF QueueType, EditorType
    <3> QED BY <3>1, <3>2, Kept
  <2>37. CASE FlushPush
    <3> USE <2>37 DEF FlushPush
    <3>1. WireType' BY DEF WireType, wireVars, QueueType
    <3>2. QueueType' BY DEF QueueType
    <3> QED BY <3>1, <3>2, Kept
  <2>38. CASE ApplyOp
    <3> USE <2>38 DEF ApplyOp
    <3>1. WireType' BY DEF WireType, wireVars
    <3>2. EditorType'
      <4>1. Head(toStudio) \in Content BY DEF WireType
      <4>2. script' \in Content BY DEF EditorType
      <4>3. expected' \in Content /\ editing' = FALSE BY <4>1
      <4> QED BY <4>2, <4>3 DEF EditorType
    <3>3. WorkerType' BY DEF WorkerType, WorkerState, WorkerAt, WireType
    <3> QED BY <3>1, <3>2, <3>3, Kept
  <2>39. CASE WriteScript
    <3> USE <2>39 DEF WriteScript
    <3>1. EditorType' BY DEF EditorChanged, EditorType, editorVars, WorkerType, WorkerState
    <3>2. WorkerType' BY DEF EditorChanged, WorkerType, WorkerState, WorkerAt
    <3> QED BY <3>1, <3>2, Kept
  <2>40. CASE AckOp
    <3>1. WireType'
      BY <2>40 DEF AckOp, WireType, wireVars, WorkerType, WorkerState, EditorType
    <3>2. WorkerType' BY <2>40 DEF AckOp, WorkerType, WorkerState, WorkerAt
    <3> QED BY <2>40, <3>1, <3>2, Kept DEF AckOp
  <2>41. CASE Disconnect
    <3> USE <2>41 DEF Disconnect
    <3>1. WireType' BY DEF WireType, wireVars
    <3>2. EditorType' BY DEF EditorType, editorVars
    <3>3. QueueType' BY DEF QueueType
    <3>4. WorkerType' BY DEF WorkerType, WorkerState, WorkerAt
    <3> QED BY <3>1, <3>2, <3>3, <3>4, Kept
  <2>42. CASE Reconcile
    <3> USE <2>42 DEF Reconcile, FileType, EditorType
    <3>1. FileType' BY DEF fileVars
    <3>2. EngineType' BY DEF EngineType, engineVars, Conflict
    <3>3. EditorType' BY DEF editorVars
    <3>4. QueueType' BY DEF QueueType
    <3> QED BY <3>1, <3>2, <3>3, <3>4, Kept
  <2>43. CASE UNCHANGED vars BY <2>43, Kept DEF vars, pluginVars
  <2> QED BY <2>1, <2>2, <2>3, <2>4, <2>5, <2>6, <2>7, <2>8, <2>9, <2>10,
     <2>11, <2>12, <2>13, <2>14, <2>15, <2>16, <2>17, <2>18, <2>19, <2>20,
     <2>21, <2>22, <2>23, <2>24, <2>25, <2>26, <2>27, <2>28, <2>29, <2>30,
     <2>31, <2>32, <2>33, <2>34, <2>35, <2>36, <2>37, <2>38, <2>39, <2>40,
     <2>41, <2>42, <2>43 DEF Next, User, Bridge, PushHandler, Choice, Plugin
<1> QED BY <1>1, <1>2, PTL DEF Spec

(* What is traced to the pasts stays so while they grow. *)
LEMMA TracedKept ==
    ASSUME diskPast \subseteq diskPast', scriptPast \subseteq scriptPast'
    PROVE  /\ FileTraced /\ disk' = disk => FileTraced'
           /\ EditorTraced /\ script' = script => EditorTraced'
           /\ QueueTraced /\ outgoing' = outgoing => QueueTraced'
           /\ WireTraced /\ toDaemon' = toDaemon => WireTraced'
           /\ EngineTraced /\ UNCHANGED <<baseline, conflict>>
                => EngineTraced'
           /\ BridgeTraced /\ bridge' = bridge => BridgeTraced'
           /\ PushTraced /\ push' = push => PushTraced'
           /\ ChoiceTraced /\ choice' = choice => ChoiceTraced'
BY DEF FileTraced, EditorTraced, QueueTraced, WireTraced, EngineTraced, BaselineWasShared,
   Parked, BridgeTraced, PushTraced, PushBusy, ChoiceTraced

(* The pasts only grow. *)
LEMMA PastsGrow ==
    [Next]_vars => /\ diskPast \subseteq diskPast'
                   /\ scriptPast \subseteq scriptPast'
<1> SUFFICES ASSUME [Next]_vars
             PROVE  /\ diskPast \subseteq diskPast'
                    /\ scriptPast \subseteq scriptPast'
  OBVIOUS
<1> USE DEF fileVars, editorVars, pluginVars
<1>1. CASE User BY <1>1 DEF User, Save, DeleteFile, FileChange, Type, Resolve
<1>2. CASE QuietEnds BY <1>2 DEF QuietEnds
<1>3. CASE Bridge
  BY <1>3 DEF Bridge, ReceiveOp, CheckParked, CheckAction, CheckBaseline, BridgeRecords,
     BeginDelete, AttachDelete, FinishDelete, DecideDelete, EmitOp, BridgeForgets
<1>4. CASE PushHandler
  BY <1>4 DEF PushHandler, ReceivePush, LookAtTarget, ReadTarget, CheckPending, CheckClean,
     ParkDelete, Decide, ApplyPush, WriteFile, PushRecords, ParkPush
<1>5. CASE Choice
  BY <1>5 DEF Choice, SendLocal, AwaitAck, ParkAgain, SendDelete, ChoiceForgets,
     WriteChoice, WriteChoiceFails, WriteFile, RestoreFile, ChoiceRecords
<1>6. CASE Plugin
  BY <1>6 DEF Plugin, CommitEdit, FlushPush, ApplyOp, WriteScript, AckOp, Disconnect,
     Reconcile
<1>7. CASE UNCHANGED vars BY <1>7 DEF vars
<1> QED BY <1>1, <1>2, <1>3, <1>4, <1>5, <1>6, <1>7 DEF Next

(* Every text the daemon and the plugin hold can be traced to the file or to the script,
   whatever races are left open. *)
LEMMA TracedStep == TypeOK /\ Traced /\ [Next]_vars => Traced'
<1> SUFFICES ASSUME DataType, Traced, [Next]_vars PROVE Traced' BY DEF TypeOK
<1>0. diskPast \subseteq diskPast' /\ scriptPast \subseteq scriptPast' BY PastsGrow
<1> USE <1>0
<1> USE DEF Traced
<1>1. ASSUME NEW text \in DiskTexts \cup {Base}, Save(text) PROVE Traced'
  <2>1. FileTraced' BY <1>1, Sets DEF Save, FileChange, FileTraced
  <2> QED BY <1>1, <2>1, TracedKept DEF Save, pluginVars, engineVars, wireVars, editorVars,
         FileChange
<1>2. ASSUME NEW text \in StudioTexts \cup {Base}, Type(text) PROVE Traced'
  <2>1. EditorTraced' BY <1>2, Sets DEF Type, EditorChanged, EditorTraced
  <2> QED BY <1>2, <2>1, TracedKept DEF Type, engineVars, wireVars, fileVars
<1>3. CASE DeleteFile
  <2>1. FileTraced' BY <1>3, Sets DEF DeleteFile, FileChange, FileTraced
  <2> QED BY <1>3, <2>1, TracedKept DEF DeleteFile, pluginVars, engineVars, wireVars,
         editorVars, FileChange
<1>4. CASE Resolve
  <2>1. EngineTraced'
    BY <1>4, Sets DEF Resolve, Parked, EngineTraced, BaselineWasShared, ChoiceTraced,
       DataType, EngineType, Conflict, NoConflict, ChoiceType, ChoiceState, ChoiceStep,
       NoChoice
  <2>2. ChoiceTraced'
    BY <1>4, Sets DEF Resolve, Parked, ChoiceTraced, EngineTraced, BaselineWasShared,
       DataType, ChoiceType, ChoiceState, ChoiceStep, NoChoice, EngineType, Conflict,
       NoConflict
  <2> QED BY <1>4, <2>1, <2>2, TracedKept DEF Resolve, pluginVars, wireVars, fileVars,
         editorVars
<1>5. CASE QuietEnds
  <2> QED BY <1>5, TracedKept DEF QuietEnds, pluginVars, engineVars, wireVars, editorVars
<1>6. CASE ReceiveOp
  <2>1. BridgeTraced'
    BY <1>6, Sets DEF ReceiveOp, BridgeTraced, FileTraced, DataType, BridgeType,
       BridgeState, BridgeStep, Idle
  <2> QED BY <1>6, <2>1, TracedKept DEF ReceiveOp, pluginVars, engineVars, wireVars,
         editorVars
<1>7. CASE CheckParked
  <2> USE <1>7 DEF CheckParked
  <2>1. EngineTraced'
    BY Sets DEF Parked, EngineTraced, BaselineWasShared, BridgeTraced, DataType, EngineType,
       Conflict, NoConflict, BridgeType, BridgeState, BridgeStep, Idle
  <2>2. BridgeTraced'
    BY Sets DEF Parked, BridgeTraced, EngineTraced, BaselineWasShared, DataType, BridgeType,
       BridgeState, BridgeStep, Idle, EngineType, Conflict, NoConflict
  <2> QED BY <2>1, <2>2, TracedKept DEF pluginVars, wireVars, fileVars, editorVars
<1>8. CASE CheckAction
  <2>1. BridgeTraced'
    BY <1>8, Sets DEF CheckAction, Parked, BridgeTraced, EngineTraced, BaselineWasShared,
       DataType, BridgeType, BridgeState, BridgeStep, Idle, EngineType, Conflict, NoConflict
  <2> QED BY <1>8, <2>1, TracedKept DEF CheckAction, pluginVars, engineVars, wireVars,
         fileVars, editorVars
<1>9. CASE CheckBaseline
  <2>1. BridgeTraced'
    BY <1>9, Sets DEF CheckBaseline, BridgeTraced, EngineTraced, BaselineWasShared, Parked,
       DataType, BridgeType, BridgeState, BridgeStep, Idle
  <2> QED BY <1>9, <2>1, TracedKept DEF CheckBaseline, pluginVars, engineVars, wireVars,
         fileVars, editorVars
<1>10. CASE BridgeRecords
  <2> USE <1>10 DEF BridgeRecords
  <2>1. EngineTraced'
    BY Sets DEF EngineTraced, BaselineWasShared, Parked, BridgeTraced, DataType, EngineType,
       Conflict, NoConflict, BridgeType, BridgeState, BridgeStep, Idle
  <2>2. BridgeTraced'
    BY Sets DEF BridgeTraced, EngineTraced, BaselineWasShared, Parked, DataType, BridgeType,
       BridgeState, BridgeStep, Idle
  <2> QED BY <2>1, <2>2, TracedKept DEF pluginVars, wireVars, fileVars, editorVars
<1>11. CASE BeginDelete
  <2>1. BridgeTraced'
    BY <1>11, Sets DEF BeginDelete, BridgeTraced, DataType, BridgeType, BridgeState,
       BridgeStep, Idle
  <2> QED BY <1>11, <2>1, TracedKept DEF BeginDelete, pluginVars, wireVars, fileVars,
         editorVars
<1>12. CASE AttachDelete
  <2> USE <1>12 DEF AttachDelete
  <2>1. EngineTraced'
    BY Sets DEF Parked, EngineTraced, BaselineWasShared, BridgeTraced, DataType, EngineType,
       Conflict, NoConflict, BridgeType, BridgeState, BridgeStep, Idle
  <2>2. BridgeTraced'
    BY Sets DEF Parked, BridgeTraced, EngineTraced, BaselineWasShared, DataType, BridgeType,
       BridgeState, BridgeStep, Idle
  <2> QED BY <2>1, <2>2, TracedKept DEF pluginVars, wireVars, fileVars, editorVars
<1>13. CASE FinishDelete
  <2>1. BridgeTraced'
    BY <1>13, Sets DEF FinishDelete, BridgeTraced, DataType, BridgeType, BridgeState,
       BridgeStep, Idle
  <2> QED BY <1>13, <2>1, TracedKept DEF FinishDelete, pluginVars, wireVars, fileVars,
         editorVars
<1>14. CASE DecideDelete
  <2>1. BridgeTraced'
    BY <1>14, Sets DEF DecideDelete, Parked, BridgeTraced, EngineTraced, BaselineWasShared,
       DataType, BridgeType, BridgeState, BridgeStep, Idle, EngineType, Conflict, NoConflict
  <2> QED BY <1>14, <2>1, TracedKept DEF DecideDelete, pluginVars, engineVars, wireVars,
         fileVars, editorVars
<1>15. CASE EmitOp
  <2>1. BridgeTraced'
    BY <1>15, Sets DEF EmitOp, Broadcast, BridgeTraced, DataType, BridgeType, BridgeState,
       BridgeStep, Idle
  <2> QED BY <1>15, <2>1, TracedKept DEF EmitOp, pluginVars, engineVars, fileVars,
         editorVars, Broadcast
<1>16. CASE BridgeForgets
  <2> USE <1>16 DEF BridgeForgets
  <2>1. EngineTraced'
    BY Sets DEF EngineTraced, BaselineWasShared, Parked, BridgeTraced, DataType, EngineType,
       Conflict, NoConflict, BridgeType, BridgeState, BridgeStep, Idle
  <2>2. BridgeTraced'
    BY Sets DEF BridgeTraced, EngineTraced, BaselineWasShared, Parked, DataType, BridgeType,
       BridgeState, BridgeStep, Idle
  <2> QED BY <2>1, <2>2, TracedKept DEF pluginVars, wireVars, fileVars, editorVars
<1>17. CASE ReceivePush
  <2> USE <1>17 DEF ReceivePush
  <2>1. WireTraced'
    BY Sets DEF WireTraced, PushTraced, PushBusy, DataType, PushType, PushState, PushStep,
       NoPush
  <2>2. PushTraced'
    BY Sets DEF PushTraced, PushBusy, WireTraced, DataType, PushType, PushState, PushStep,
       NoPush
  <2> QED BY <2>1, <2>2, TracedKept DEF pluginVars, engineVars, fileVars, editorVars
<1>18. CASE LookAtTarget
  <2>1. PushTraced'
    BY <1>18, Sets DEF LookAtTarget, PushEnds, PushTraced, PushBusy, FileTraced, DataType,
       PushType, PushState, PushStep, NoPush
  <2> QED BY <1>18, <2>1, TracedKept DEF LookAtTarget, pluginVars, engineVars, wireVars,
         fileVars, editorVars, PushEnds
<1>19. CASE ReadTarget
  <2>1. PushTraced'
    BY <1>19, Sets DEF ReadTarget, PushTraced, PushBusy, FileTraced, DataType, PushType,
       PushState, PushStep, NoPush
  <2> QED BY <1>19, <2>1, TracedKept DEF ReadTarget, pluginVars, engineVars, wireVars,
         fileVars, editorVars
<1>20. CASE CheckPending
  <2>1. PushTraced'
    BY <1>20, Sets DEF CheckPending, PushTraced, PushBusy, EngineTraced, BaselineWasShared,
       Parked, DataType, PushType, PushState, PushStep, NoPush
  <2> QED BY <1>20, <2>1, TracedKept DEF CheckPending, pluginVars, engineVars, wireVars,
         fileVars, editorVars
<1>21. CASE CheckClean
  <2>1. PushTraced'
    BY <1>21, Sets DEF CheckClean, PushEnds, PushTraced, PushBusy, EngineTraced,
       BaselineWasShared, Parked, DataType, PushType, PushState, PushStep, NoPush
  <2> QED BY <1>21, <2>1, TracedKept DEF CheckClean, pluginVars, engineVars, wireVars,
         fileVars, editorVars, PushEnds
<1>22. CASE ParkDelete
  <2> USE <1>22 DEF ParkDelete, PushEnds
  <2>1. EngineTraced'
    BY Sets DEF EngineTraced, BaselineWasShared, Parked, PushTraced, PushBusy, DataType,
       EngineType, Conflict, NoConflict, PushType, PushState, PushStep, NoPush
  <2>2. PushTraced'
    BY Sets DEF PushTraced, PushBusy, DataType, PushType, PushState, PushStep, NoPush
  <2> QED BY <2>1, <2>2, TracedKept DEF pluginVars, fileVars, editorVars
<1>23. CASE Decide
  <2>1. PushTraced'
    BY <1>23, Sets DEF Decide, PushTraced, PushBusy, EngineTraced, BaselineWasShared,
       Parked, DataType, PushType, PushState, PushStep, NoPush
  <2> QED BY <1>23, <2>1, TracedKept DEF Decide, pluginVars, engineVars, wireVars, fileVars,
         editorVars
<1>24. CASE ApplyPush
  <2> USE <1>24 DEF ApplyPush
  <2>1. FileTraced'
    BY Sets DEF WriteFile, FileTraced, PushTraced, PushBusy, DataType, PushType, PushState,
       PushStep, NoPush
  <2>2. PushTraced'
    BY Sets DEF WriteFile, PushTraced, PushBusy, DataType, PushType, PushState, PushStep,
       NoPush
  <2> QED BY <2>1, <2>2, TracedKept DEF pluginVars, engineVars, wireVars, editorVars
<1>25. CASE PushRecords
  <2> USE <1>25 DEF PushRecords, PushEnds
  <2>1. EngineTraced'
    BY Sets DEF EngineTraced, BaselineWasShared, Parked, PushTraced, PushBusy, DataType,
       EngineType, Conflict, NoConflict, PushType, PushState, PushStep, NoPush
  <2>2. PushTraced'
    BY Sets DEF PushTraced, PushBusy, EngineTraced, BaselineWasShared, Parked, DataType,
       PushType, PushState, PushStep, NoPush
  <2> QED BY <2>1, <2>2, TracedKept DEF pluginVars, wireVars, fileVars, editorVars
<1>26. CASE ParkPush
  <2> USE <1>26 DEF ParkPush, PushEnds
  <2>1. EngineTraced'
    BY Sets DEF EngineTraced, BaselineWasShared, Parked, PushTraced, PushBusy, DataType,
       EngineType, Conflict, NoConflict, PushType, PushState, PushStep, NoPush
  <2>2. PushTraced'
    BY Sets DEF PushTraced, PushBusy, DataType, PushType, PushState, PushStep, NoPush
  <2> QED BY <2>1, <2>2, TracedKept DEF pluginVars, fileVars, editorVars
<1>27. CASE SendLocal
  <2>1. ChoiceTraced'
    BY <1>27, Sets DEF SendLocal, Broadcast, ChoiceTraced, DataType, ChoiceType,
       ChoiceState, ChoiceStep, NoChoice
  <2> QED BY <1>27, <2>1, TracedKept DEF SendLocal, pluginVars, engineVars, fileVars,
         editorVars, Broadcast
<1>28. CASE AwaitAck
  <2>1. ChoiceTraced'
    BY <1>28, Sets DEF AwaitAck, ChoiceTraced, EngineTraced, BaselineWasShared, Parked,
       DataType, ChoiceType, ChoiceState, ChoiceStep, NoChoice
  <2> QED BY <1>28, <2>1, TracedKept DEF AwaitAck, pluginVars, engineVars, wireVars,
         fileVars, editorVars
<1>29. CASE ParkAgain
  <2> USE <1>29 DEF ParkAgain
  <2>1. EngineTraced'
    BY Sets DEF EngineTraced, BaselineWasShared, Parked, ChoiceTraced, DataType, EngineType,
       Conflict, NoConflict, ChoiceType, ChoiceState, ChoiceStep, NoChoice
  <2>2. ChoiceTraced'
    BY Sets DEF ChoiceTraced, DataType, ChoiceType, ChoiceState, ChoiceStep, NoChoice
  <2> QED BY <2>1, <2>2, TracedKept DEF pluginVars, wireVars, fileVars, editorVars
<1>30. CASE SendDelete
  <2>1. ChoiceTraced'
    BY <1>30, Sets DEF SendDelete, Broadcast, ChoiceTraced, DataType, ChoiceType,
       ChoiceState, ChoiceStep, NoChoice
  <2> QED BY <1>30, <2>1, TracedKept DEF SendDelete, pluginVars, engineVars, fileVars,
         editorVars, Broadcast
<1>31. CASE ChoiceForgets
  <2> USE <1>31 DEF ChoiceForgets
  <2>1. EngineTraced'
    BY Sets DEF EngineTraced, BaselineWasShared, Parked, ChoiceTraced, DataType, EngineType,
       Conflict, NoConflict, ChoiceType, ChoiceState, ChoiceStep, NoChoice
  <2>2. ChoiceTraced'
    BY Sets DEF ChoiceTraced, EngineTraced, BaselineWasShared, Parked, DataType, ChoiceType,
       ChoiceState, ChoiceStep, NoChoice
  <2> QED BY <2>1, <2>2, TracedKept DEF pluginVars, wireVars, fileVars, editorVars
<1>32. CASE WriteChoice
  <2> USE <1>32 DEF WriteChoice
  <2>1. FileTraced'
    BY Sets DEF WriteFile, FileTraced, ChoiceTraced, DataType, ChoiceType, ChoiceState,
       ChoiceStep, NoChoice
  <2>2. ChoiceTraced'
    BY Sets DEF WriteFile, ChoiceTraced, DataType, ChoiceType, ChoiceState, ChoiceStep,
       NoChoice
  <2> QED BY <2>1, <2>2, TracedKept DEF pluginVars, engineVars, wireVars, editorVars
<1>33. CASE WriteChoiceFails
  <2>1. ChoiceTraced'
    BY <1>33, Sets DEF WriteChoiceFails, ChoiceTraced, DataType, ChoiceType, ChoiceState,
       ChoiceStep, NoChoice
  <2> QED BY <1>33, <2>1, TracedKept DEF WriteChoiceFails, pluginVars, engineVars, wireVars,
         fileVars, editorVars
<1>34. CASE RestoreFile
  <2>1. ChoiceTraced'
    BY <1>34, Sets DEF RestoreFile, ChoiceTraced, FileTraced, DataType, ChoiceType,
       ChoiceState, ChoiceStep, NoChoice
  <2> QED BY <1>34, <2>1, TracedKept DEF RestoreFile, pluginVars, engineVars, wireVars,
         fileVars, editorVars
<1>35. CASE ChoiceRecords
  <2> USE <1>35 DEF ChoiceRecords
  <2>1. EngineTraced'
    BY Sets DEF EngineTraced, BaselineWasShared, Parked, ChoiceTraced, DataType, EngineType,
       Conflict, NoConflict, ChoiceType, ChoiceState, ChoiceStep, NoChoice
  <2>2. ChoiceTraced'
    BY Sets DEF ChoiceTraced, EngineTraced, BaselineWasShared, Parked, DataType, ChoiceType,
       ChoiceState, ChoiceStep, NoChoice
  <2> QED BY <2>1, <2>2, TracedKept DEF pluginVars, wireVars, fileVars, editorVars
<1>36. CASE CommitEdit
  <2>1. QueueTraced' BY <1>36, Sets DEF CommitEdit, QueueTraced, EditorTraced
  <2> QED BY <1>36, <2>1, TracedKept DEF CommitEdit, engineVars, wireVars, fileVars
<1>37. CASE FlushPush
  <2> USE <1>37 DEF FlushPush
  <2>1. QueueTraced' BY Sets DEF QueueTraced, WireTraced
  <2>2. WireTraced' BY Sets DEF WireTraced, QueueTraced
  <2> QED BY <2>1, <2>2, TracedKept DEF engineVars, editorVars, fileVars
<1>38. CASE ApplyOp
  <2>1. EditorTraced' BY <1>38, Sets DEF ApplyOp, EditorTraced, QueueTraced, WireTraced
  <2> QED BY <1>38, <2>1, TracedKept DEF ApplyOp, engineVars, fileVars
<1>39. CASE WriteScript
  <2>1. EditorTraced' BY <1>39, Sets DEF WriteScript, EditorChanged, EditorTraced
  <2> QED BY <1>39, <2>1, TracedKept DEF WriteScript, engineVars, wireVars, fileVars
<1>40. CASE AckOp
  <2>1. WireTraced'
    BY <1>40, Sets DEF AckOp, WireTraced, EditorTraced, DataType, WorkerType, WorkerState
  <2> QED BY <1>40, <2>1, TracedKept DEF AckOp, engineVars, editorVars, fileVars
<1>41. CASE Disconnect
  <2>1. QueueTraced' BY <1>41, Sets DEF Disconnect, QueueTraced
  <2> QED BY <1>41, <2>1, TracedKept DEF Disconnect, engineVars, fileVars
<1>42. CASE Reconcile
  <2>1. FileTraced'
    BY <1>42, <1>0, Sets DEF Reconcile, FileTraced, EditorTraced, WireTraced, BridgeTraced,
       PushTraced, PushBusy, ChoiceTraced
  <2>2. EditorTraced'
    BY <1>42, <1>0, Sets DEF Reconcile, EditorTraced, FileTraced, WireTraced, BridgeTraced,
       PushTraced, PushBusy, ChoiceTraced
  <2>3. QueueTraced'
    <3>1. outgoing' = <<>> BY <1>42 DEF Reconcile
    <3> QED BY <3>1 DEF QueueTraced
  <2>4. EngineTraced'
    BY <1>42, <1>0, Sets DEF Reconcile, EngineTraced, BaselineWasShared, Parked, FileTraced,
       EditorTraced, WireTraced, BridgeTraced, PushTraced, PushBusy, ChoiceTraced, DataType,
       EngineType, Conflict, NoConflict
  <2> QED BY <1>42, <1>0, <2>1, <2>2, <2>3, <2>4, TracedKept DEF Reconcile,
     wireVars
<1>43. CASE UNCHANGED vars
  BY <1>43, TracedKept DEF vars, fileVars, engineVars, wireVars, editorVars, pluginVars
<1> QED BY <1>1, <1>2, <1>3, <1>4, <1>5, <1>6, <1>7, <1>8, <1>9, <1>10, <1>11,
   <1>12, <1>13, <1>14, <1>15, <1>16, <1>17, <1>18, <1>19, <1>20, <1>21,
   <1>22, <1>23, <1>24, <1>25, <1>26, <1>27, <1>28, <1>29, <1>30, <1>31,
   <1>32, <1>33, <1>34, <1>35, <1>36, <1>37, <1>38, <1>39, <1>40, <1>41,
   <1>42, <1>43 DEF Next, User, Bridge, PushHandler, Choice, Plugin

(* Whatever the threads of the daemon do at the same time, a text becomes the baseline only
   if the file and the script have both had it. *)
THEOREM BaselineShared == Spec => []BaselineWasShared
<1>1. Init => Traced
  <2> SUFFICES ASSUME Init PROVE Traced OBVIOUS
  <2>1. QueueTraced /\ WireTraced BY DEF Init, QueueTraced, WireTraced
  <2>2. FileTraced /\ EditorTraced /\ EngineTraced
    BY DEF Init, FileTraced, EditorTraced, EngineTraced, BaselineWasShared, Parked
  <2>3. BridgeTraced /\ PushTraced /\ ChoiceTraced
    BY DEF Init, BridgeTraced, PushTraced, PushBusy, ChoiceTraced, Idle, NoPush, NoChoice
  <2> QED BY <2>1, <2>2, <2>3 DEF Traced
<1>2. Traced => BaselineWasShared BY DEF Traced, EngineTraced
<1> QED BY <1>1, <1>2, TypeCorrect, TracedStep, PTL DEF Spec

(* What the order of the threads is about. *)
LEMMA OrderKept ==
    UNCHANGED <<disk, event, quiet, conflict, pending, bridge, push, choice>>
    => /\ TurnsTaken => TurnsTaken'
       /\ DeletionSeen => DeletionSeen'
       /\ FileFollowed => FileFollowed'
BY DEF TurnsTaken, DeletionSeen, FileFollowed, BridgeBusy, PushBusy, Parked

(* The threads of the daemon take turns and follow the file, as long as no race but a
   crossing is left open and nothing has been resolved. *)
LEMMA OrderlyStep == TypeOK /\ Orderly /\ [Next]_vars => Orderly'
<1> SUFFICES ASSUME DataType, Orderly, [Next]_vars, Undisturbed'
             PROVE  TurnsTaken' /\ DeletionSeen' /\ FileFollowed'
  BY DEF TypeOK, Orderly
<1>1. Undisturbed /\ ~Resolve
  <2>1. Races' = Races BY DEF Next, vars, Races
  <2>2. ~Resolve
    <3> SUFFICES ASSUME Resolve PROVE FALSE OBVIOUS
    <3>1. budget'.choices = budget.choices + 1 /\ budget.choices \in Nat
      BY DEF Resolve, DataType, CountType, Counters
    <3> QED BY <3>1 DEF Undisturbed
  <2>3. budget'.choices = budget.choices
    BY <2>2 DEF DataType, CountType, Counters, Next, vars, User, Save, DeleteFile,
       FileChange, Type, QuietEnds, Bridge, ReceiveOp, CheckParked, CheckAction,
       CheckBaseline, BridgeRecords, BeginDelete, AttachDelete, FinishDelete, DecideDelete,
       EmitOp, BridgeForgets, PushHandler, ReceivePush, LookAtTarget, ReadTarget,
       CheckPending, CheckClean, ParkDelete, Decide, ApplyPush, PushRecords, ParkPush,
       Choice, SendLocal, AwaitAck, ParkAgain, SendDelete, ChoiceForgets, WriteChoice,
       WriteChoiceFails, RestoreFile, ChoiceRecords, Plugin, CommitEdit, FlushPush, ApplyOp,
       WriteScript, AckOp, Disconnect, Reconcile
  <2> QED BY <2>1, <2>2, <2>3 DEF Undisturbed
<1>2. TurnsTaken /\ DeletionSeen /\ FileFollowed BY <1>1 DEF Orderly
<1>3. MayEnter => ~BridgeBusy /\ ~PushBusy BY <1>1 DEF Undisturbed, MayEnter
<1>4. choice.at = "none" /\ ~Choice
  BY <1>2 DEF TurnsTaken, NoChoice, Choice, SendLocal, AwaitAck, ParkAgain, SendDelete,
     ChoiceForgets, WriteChoice, WriteChoiceFails, RestoreFile, ChoiceRecords
<1> USE <1>2, <1>1, <1>3, <1>4 DEF fileVars, engineVars, TurnsTaken, BridgeBusy, PushBusy,
    DataType, EngineType, Conflict
<1>5. CASE \/ Plugin /\ ~Reconcile
           \/ \E text \in StudioTexts \cup {Base} : Type(text)
  BY <1>5, OrderKept DEF Type, Plugin, CommitEdit, FlushPush, ApplyOp, WriteScript, AckOp,
     Disconnect
<1>6. CASE (\E text \in DiskTexts \cup {Base} : Save(text)) \/ DeleteFile
  <2> USE <1>6 DEF Save, DeleteFile
  <2>1. TurnsTaken' BY DEF FileChange, Undisturbed
  <2>2. DeletionSeen' BY DEF FileChange, Undisturbed, DeletionSeen, Parked
  <2>3. FileFollowed'
    <3>1. event' /\ quiet' = quiet /\ UNCHANGED <<conflict, push, bridge>> BY DEF FileChange
    <3>2. disk' = None => ~quiet BY Sets DEF Undisturbed
    <3> QED BY <3>1, <3>2 DEF FileFollowed, Parked
  <2> QED BY <2>1, <2>2, <2>3
<1>7. CASE QuietEnds
  <2> USE <1>7 DEF QuietEnds
  <2>1. TurnsTaken' OBVIOUS
  <2>2. DeletionSeen' BY DEF DeletionSeen, Parked
  <2>3. FileFollowed' BY DEF DeletionSeen, FileFollowed, Parked
  <2> QED BY <2>1, <2>2, <2>3
<1>8. CASE Reconcile
  <2> USE <1>8 DEF Reconcile, Idle, NoPush
  <2>1. TurnsTaken' OBVIOUS
  <2>2. DeletionSeen' BY DEF DeletionSeen, Parked
  <2>3. FileFollowed' BY DEF DeletionSeen, FileFollowed, Parked
  <2> QED BY <2>1, <2>2, <2>3
<1>9. CASE ReceiveOp
  <2> USE <1>9 DEF ReceiveOp, BridgeType, BridgeState
  <2>1. TurnsTaken' OBVIOUS
  <2>2. DeletionSeen' BY DEF DeletionSeen, Parked
  <2>3. FileFollowed' BY DEF DeletionSeen, FileFollowed, Parked
  <2> QED BY <2>1, <2>2, <2>3
<1>10. CASE CheckParked
  <2> USE <1>10 DEF CheckParked, BridgeStep, Idle, BridgeType, BridgeState
  <2>1. TurnsTaken' OBVIOUS
  <2>2. DeletionSeen' BY DEF DeletionSeen, Parked
  <2>3. FileFollowed' BY DEF DeletionSeen, FileFollowed, Parked
  <2> QED BY <2>1, <2>2, <2>3
<1>11. CASE CheckAction
  <2> USE <1>11 DEF CheckAction, Idle, BridgeType, BridgeState
  <2>1. TurnsTaken' OBVIOUS
  <2>2. DeletionSeen' BY DEF DeletionSeen, Parked
  <2>3. FileFollowed' BY DEF DeletionSeen, FileFollowed, Parked
  <2> QED BY <2>1, <2>2, <2>3
<1>12. CASE CheckBaseline
  <2> USE <1>12 DEF CheckBaseline, BridgeStep, Idle, BridgeType, BridgeState
  <2>1. TurnsTaken' OBVIOUS
  <2>2. DeletionSeen' BY DEF DeletionSeen, Parked
  <2>3. FileFollowed' BY DEF DeletionSeen, FileFollowed, Parked
  <2> QED BY <2>1, <2>2, <2>3
<1>13. CASE BridgeRecords
  <2> USE <1>13 DEF BridgeRecords, BridgeStep, Idle, BridgeType, BridgeState
  <2>1. TurnsTaken' OBVIOUS
  <2>2. DeletionSeen' BY DEF DeletionSeen, Parked
  <2>3. FileFollowed' BY DEF DeletionSeen, FileFollowed, Parked
  <2> QED BY <2>1, <2>2, <2>3
<1>14. CASE BeginDelete
  <2> USE <1>14 DEF BeginDelete, BridgeStep, Idle, BridgeType, BridgeState
  <2>1. TurnsTaken' OBVIOUS
  <2>2. DeletionSeen' BY DEF DeletionSeen, Parked
  <2>3. FileFollowed' BY DEF DeletionSeen, FileFollowed, Parked
  <2> QED BY <2>1, <2>2, <2>3
<1>15. CASE AttachDelete
  <2> USE <1>15 DEF AttachDelete, BridgeStep, Idle, BridgeType, BridgeState
  <2>1. TurnsTaken' OBVIOUS
  <2>2. DeletionSeen' BY DEF DeletionSeen, Parked
  <2>3. FileFollowed' BY DEF DeletionSeen, FileFollowed, Parked
  <2> QED BY <2>1, <2>2, <2>3
<1>16. CASE FinishDelete
  <2> USE <1>16 DEF FinishDelete, BridgeStep, BridgeType, BridgeState
  <2>1. TurnsTaken' OBVIOUS
  <2>2. DeletionSeen' BY DEF DeletionSeen, Parked
  <2>3. FileFollowed' BY DEF DeletionSeen, FileFollowed, Parked
  <2> QED BY <2>1, <2>2, <2>3
<1>17. CASE DecideDelete
  <2> USE <1>17 DEF DecideDelete, Idle, BridgeType, BridgeState
  <2>1. TurnsTaken' OBVIOUS
  <2>2. DeletionSeen' BY DEF DeletionSeen, Parked
  <2>3. FileFollowed' BY DEF DeletionSeen, FileFollowed, Parked
  <2> QED BY <2>1, <2>2, <2>3
<1>18. CASE EmitOp
  <2> USE <1>18 DEF EmitOp, Broadcast, Idle, BridgeType, BridgeState
  <2>1. TurnsTaken' OBVIOUS
  <2>2. DeletionSeen' BY DEF DeletionSeen, Parked
  <2>3. FileFollowed' BY DEF DeletionSeen, FileFollowed, Parked
  <2> QED BY <2>1, <2>2, <2>3
<1>19. CASE BridgeForgets
  <2> USE <1>19 DEF BridgeForgets, BridgeStep, Idle, BridgeType, BridgeState
  <2>1. TurnsTaken' OBVIOUS
  <2>2. DeletionSeen' BY DEF DeletionSeen, Parked
  <2>3. FileFollowed' BY DEF DeletionSeen, FileFollowed, Parked
  <2> QED BY <2>1, <2>2, <2>3
<1>20. CASE ReceivePush
  <2> USE <1>20 DEF ReceivePush, PushType, PushState
  <2>1. TurnsTaken' OBVIOUS
  <2>2. DeletionSeen' BY DEF DeletionSeen, Parked
  <2>3. FileFollowed' BY DEF DeletionSeen, FileFollowed, Parked
  <2> QED BY <2>1, <2>2, <2>3
<1>21. CASE LookAtTarget
  <2> USE <1>21 DEF LookAtTarget, PushStep, PushEnds, NoPush, PushType, PushState
  <2>1. TurnsTaken' OBVIOUS
  <2>2. DeletionSeen' BY DEF DeletionSeen, Parked
  <2>3. FileFollowed' BY DEF DeletionSeen, FileFollowed, Parked
  <2> QED BY <2>1, <2>2, <2>3
<1>22. CASE ReadTarget
  <2> USE <1>22 DEF ReadTarget, PushType, PushState
  <2>1. TurnsTaken' OBVIOUS
  <2>2. DeletionSeen' BY DEF DeletionSeen, Parked
  <2>3. FileFollowed' BY DEF DeletionSeen, FileFollowed, Parked
  <2> QED BY <2>1, <2>2, <2>3
<1>23. CASE CheckPending
  <2> USE <1>23 DEF CheckPending, PushStep, PushEnds, NoPush, PushType, PushState,
      DeletionSeen
  <2>1. TurnsTaken' OBVIOUS
  <2>2. DeletionSeen' BY DEF Parked
  <2>3. FileFollowed' BY DEF FileFollowed, Parked
  <2> QED BY <2>1, <2>2, <2>3
<1>24. CASE CheckClean
  <2> USE <1>24 DEF CheckClean, PushStep, PushEnds, NoPush, PushType, PushState
  <2>1. TurnsTaken' OBVIOUS
  <2>2. DeletionSeen' BY DEF DeletionSeen, Parked
  <2>3. FileFollowed' BY DEF DeletionSeen, FileFollowed, Parked
  <2> QED BY <2>1, <2>2, <2>3
<1>25. CASE ParkDelete
  <2> USE <1>25 DEF ParkDelete, PushStep, PushEnds, NoPush, PushType, PushState
  <2>1. TurnsTaken' OBVIOUS
  <2>2. DeletionSeen' BY DEF DeletionSeen, Parked
  <2>3. FileFollowed' BY DEF DeletionSeen, FileFollowed, Parked
  <2> QED BY <2>1, <2>2, <2>3
<1>26. CASE Decide
  <2> USE <1>26 DEF Decide, PushStep, PushEnds, NoPush, PushType, PushState
  <2>1. TurnsTaken' OBVIOUS
  <2>2. DeletionSeen' BY DEF DeletionSeen, Parked
  <2>3. FileFollowed' BY DEF DeletionSeen, FileFollowed, Parked
  <2> QED BY <2>1, <2>2, <2>3
<1>27. CASE ApplyPush
  <2> USE <1>27 DEF ApplyPush, PushStep, WriteFile, PushType, PushState
  <2>1. TurnsTaken' OBVIOUS
  <2>2. DeletionSeen' BY DEF DeletionSeen, Parked
  <2>3. FileFollowed' BY DEF DeletionSeen, FileFollowed, Parked
  <2> QED BY <2>1, <2>2, <2>3
<1>28. CASE PushRecords
  <2> USE <1>28 DEF PushRecords, PushStep, PushEnds, NoPush, PushType, PushState
  <2>1. TurnsTaken' OBVIOUS
  <2>2. DeletionSeen' BY DEF DeletionSeen, Parked
  <2>3. FileFollowed' BY DEF DeletionSeen, FileFollowed, Parked
  <2> QED BY <2>1, <2>2, <2>3
<1>29. CASE ParkPush
  <2> USE <1>29 DEF ParkPush, PushStep, PushEnds, NoPush, PushType, PushState
  <2>1. TurnsTaken' OBVIOUS
  <2>2. DeletionSeen' BY DEF DeletionSeen, Parked
  <2>3. FileFollowed' BY DEF DeletionSeen, FileFollowed, Parked
  <2> QED BY <2>1, <2>2, <2>3
<1>30. CASE UNCHANGED vars BY <1>30, OrderKept DEF vars
<1> QED BY <1>5, <1>6, <1>7, <1>8, <1>9, <1>10, <1>11, <1>12, <1>13, <1>14, <1>15, <1>16,
       <1>17, <1>18, <1>19, <1>20, <1>21, <1>22, <1>23, <1>24, <1>25, <1>26, <1>27, <1>28,
       <1>29, <1>30 DEF Next, User, Bridge, PushHandler, Plugin

(* A user who has not resolved anything yet, whose threads in the daemon take turns: what is
   known of the daemon when they do. *)
LEMMA OrderHolds == Spec => []Orderly
<1>1. Init => Orderly
  BY DEF Init, Orderly, TurnsTaken, DeletionSeen, FileFollowed, BridgeBusy, PushBusy,
     Parked, Idle, NoPush
<1> QED BY <1>1, TypeCorrect, OrderlyStep, PTL DEF Spec

(* Once the daemon has seen every change of the file, the conflict it has parked
   (ConflictEngine.on_fs_change) shows the text that is on disk. *)
THEOREM ParkedStaysCurrent == Spec => []ParkedIsCurrent
<1>1. Orderly => ParkedIsCurrent
  BY DEF Orderly, FileFollowed, ParkedIsCurrent, ConflictIsCurrent, Idle
<1> QED BY <1>1, OrderHolds, PTL

(* A deletion is not sent to Studio while a Studio text for the file is parked:
   begin_fs_destructive and finish_fs_destructive have seen it. *)
THEOREM DeletionsWait == Spec => []DeleteWaits
<1>1. Orderly => DeleteWaits BY DEF Orderly, DeletionSeen, DeleteWaits, DeleteIsPreflighted
<1> QED BY <1>1, OrderHolds, PTL


(* The last and the first of what is on its way, when something joins or leaves. *)
LEMMA Queues ==
    ASSUME NEW S, NEW queue \in Seq(S)
    PROVE  /\ \A x \in S : /\ Append(queue, x) # <<>>
                           /\ Latest(Append(queue, x)) = x
           /\ queue # <<>> =>
                 /\ Tail(queue) # <<>> => Latest(Tail(queue)) = Latest(queue)
                 /\ Tail(queue) = <<>> => Latest(queue) = Head(queue)
                 /\ \A q \in Seq(S) : /\ q \o queue # <<>>
                                      /\ Latest(q \o queue) = Latest(queue)
<1>1. ASSUME NEW x \in S
      PROVE  Append(queue, x) # <<>> /\ Latest(Append(queue, x)) = x
  <2>1. /\ Len(Append(queue, x)) = Len(queue) + 1
        /\ Append(queue, x)[Len(queue) + 1] = x
    OBVIOUS
  <2>2. Len(queue) + 1 # 0 OBVIOUS
  <2> QED BY <2>1, <2>2 DEF Latest
<1>2. ASSUME queue # <<>>
      PROVE  /\ Tail(queue) # <<>> => Latest(Tail(queue)) = Latest(queue)
             /\ Tail(queue) = <<>> => Latest(queue) = Head(queue)
  <2>1. /\ Len(Tail(queue)) = Len(queue) - 1 /\ Len(queue) \in Nat \ {0}
        /\ Tail(queue) \in Seq(S)
    BY <1>2
  <2>2. Tail(queue) # <<>> => Len(queue) > 1 BY <2>1
  <2>3. Tail(queue) = <<>> => Len(queue) = 1
    <3> SUFFICES ASSUME Tail(queue) = <<>> PROVE Len(queue) = 1 OBVIOUS
    <3>1. Len(<<>>) = 0 OBVIOUS
    <3>2. Len(Tail(queue)) = 0 BY <3>1, Zenon
    <3>3. \A k \in Nat \ {0} : \A j : j = k - 1 /\ j = 0 => k = 1 OBVIOUS
    <3> QED BY <2>1, <3>2, <3>3, Zenon
  <2>4. ASSUME Len(queue) > 1
        PROVE  Tail(queue)[Len(queue) - 1] = queue[Len(queue)]
    BY <2>1, <2>4
  <2> QED BY <2>1, <2>2, <2>3, <2>4 DEF Latest
<1>3. ASSUME queue # <<>>, NEW q \in Seq(S)
      PROVE  q \o queue # <<>> /\ Latest(q \o queue) = Latest(queue)
  <2>1. /\ Len(q \o queue) = Len(q) + Len(queue)
        /\ Len(queue) \in Nat \ {0} /\ Len(q) \in Nat
    BY <1>3
  <2>2. (q \o queue)[Len(q) + Len(queue)] = queue[Len(queue)] BY <2>1
  <2> QED BY <2>1, <2>2 DEF Latest
<1> QED BY <1>1, <1>2, <1>3

(* What an action leaves alone is followed as before. *)
LEMMA FollowedKept ==
    /\ NothingParked /\ UNCHANGED <<choice, conflict>> => NothingParked'
    /\ BridgeFollows /\ UNCHANGED <<baseline, bridge, disk, event, push>> =>
         BridgeFollows'
    /\ PushFollows /\ UNCHANGED <<baseline, bridge, disk, event, push>> =>
         PushFollows'
    /\ QuietFollows /\ UNCHANGED <<baseline, bridge, disk, push, quiet>> =>
         QuietFollows'
    /\ FileIsHeard /\ UNCHANGED <<baseline, bridge, disk, editing, event,
         outgoing, push, script, toDaemon, toStudio, worker>> => FileIsHeard'
    /\ ScriptIsHeard /\ UNCHANGED <<baseline, bridge, editing, outgoing, push,
         script, toDaemon, toStudio, worker>> => ScriptIsHeard'
    /\ LastIsScript /\ UNCHANGED <<editing, outgoing, script, toDaemon>> =>
         LastIsScript'
    /\ ExpectedFollows /\ UNCHANGED <<editing, expected, outgoing, script,
         toDaemon, worker>> => ExpectedFollows'
    /\ WorkerFollows /\ UNCHANGED <<expected, worker>> => WorkerFollows'
    /\ DeletionFollows /\ UNCHANGED <<baseline, bridge, disk, editing, event,
         outgoing, push, script, toDaemon, toStudio, worker>>
         => DeletionFollows'
BY DEF BridgeBusy, BridgeFollows, Carrying, Coming, DeletionComing, DeletionFollows,
   ExpectedFollows, FileIsHeard, LastIsScript, LastWord, NothingParked, PushBusy,
   PushFollows, QuietFollows, ScriptIsHeard, WorkerFollows

(* While the plugin trusts its connection, every step leaves a text that one side has and
   the other has not on its way. *)
LEMMA TrustedStep ==
    ASSUME DataType, Followed, Next, ~Reconcile, Trusted'
    PROVE  /\ NothingParked' /\ BridgeFollows' /\ PushFollows'
           /\ QuietFollows' /\ FileIsHeard' /\ ScriptIsHeard'
           /\ LastIsScript' /\ ExpectedFollows' /\ WorkerFollows'
           /\ DeletionFollows'
<1>1. Trusted /\ ~Disconnect
  <2>1. Races' = Races BY DEF Next, Races
  <2>2. \/ linked' = linked /\ (refused => refused')
        \/ Disconnect
    BY DEF Next, User, Save, DeleteFile, FileChange, Type, Resolve, QuietEnds, Bridge,
       ReceiveOp, CheckParked, CheckAction, CheckBaseline, BridgeRecords, BeginDelete,
       AttachDelete, FinishDelete, DecideDelete, EmitOp, Broadcast, BridgeForgets,
       PushHandler, ReceivePush, LookAtTarget, ReadTarget, CheckPending, CheckClean,
       ParkDelete, Decide, ApplyPush, PushEnds, PushRecords, ParkPush, Choice, SendLocal,
       AwaitAck, ParkAgain, SendDelete, ChoiceForgets, WriteChoice, WriteChoiceFails,
       RestoreFile, ChoiceRecords, Plugin, CommitEdit, FlushPush, ApplyOp, WriteScript,
       AckOp, wireVars, pluginVars, WireType, DataType
  <2>3. ~Disconnect BY DEF Disconnect, Trusted
  <2> QED BY <2>1, <2>2, <2>3 DEF Trusted, DataType, WireType
<1>2. /\ NothingParked /\ BridgeFollows /\ PushFollows /\ QuietFollows
      /\ FileIsHeard /\ ScriptIsHeard /\ LastIsScript /\ ExpectedFollows
      /\ WorkerFollows /\ DeletionFollows
      /\ pending => bridge.at \in {"attach", "finish"}
  BY <1>1 DEF Followed
<1>3. /\ ~Parked /\ choice.at = "none" /\ linked /\ ~refused' /\ Races = {}
      /\ MayEnter => ~BridgeBusy /\ ~PushBusy
  BY <1>1, <1>2 DEF NothingParked, NoChoice, Parked, MayEnter, Trusted
<1> USE <1>3, <1>2, Sets DEF BridgeFollows, BridgeBusy, PushBusy, PushFollows, fileVars,
    engineVars, DataType
<1>4. ~Resolve /\ ~Choice /\ ~ParkDelete /\ ~ParkPush
  BY DEF Resolve, Choice, SendLocal, AwaitAck, ParkAgain, SendDelete, ChoiceForgets,
     WriteChoice, WriteChoiceFails, RestoreFile, ChoiceRecords, ParkDelete, ParkPush,
     PushEnds
<1>5. ASSUME NEW text \in DiskTexts \cup {Base}, Save(text)
       PROVE  /\ NothingParked' /\ BridgeFollows' /\ PushFollows'
              /\ QuietFollows' /\ FileIsHeard' /\ ScriptIsHeard'
              /\ LastIsScript' /\ ExpectedFollows' /\ WorkerFollows'
              /\ DeletionFollows'
  <2>1. BridgeFollows' BY <1>5 DEF Save, FileChange
  <2> USE <1>5 DEF Save, FileChange, QuietFollows, wireVars, editorVars, pluginVars
  <2>2. PushFollows' OBVIOUS
  <2>3. QuietFollows' OBVIOUS
  <2>4. FileIsHeard' BY DEF FileIsHeard, Carrying, Coming
  <2>5. DeletionFollows' BY DEF DeletionFollows, Carrying, DeletionComing
  <2> QED BY <2>1, <2>2, <2>3, <2>4, <2>5, FollowedKept
<1>6. CASE DeleteFile
  <2>1. BridgeFollows' BY <1>6 DEF DeleteFile, FileChange
  <2> USE <1>6 DEF DeleteFile, FileChange, QuietFollows, wireVars, editorVars, pluginVars
  <2>2. PushFollows' OBVIOUS
  <2>3. QuietFollows' OBVIOUS
  <2>4. FileIsHeard' BY DEF FileIsHeard, Carrying, Coming
  <2>5. DeletionFollows' BY DEF DeletionFollows, Carrying, DeletionComing
  <2> QED BY <2>1, <2>2, <2>3, <2>4, <2>5, FollowedKept
<1>7. CASE QuietEnds
  <2>1. QuietFollows' BY <1>7 DEF QuietEnds, QuietFollows
  <2> QED BY <1>7, <2>1, FollowedKept DEF QuietEnds, wireVars, editorVars, pluginVars
<1>8. CASE ReceiveOp
  <2>1. BridgeFollows' BY <1>8 DEF ReceiveOp, BridgeType, BridgeState
  <2> USE <1>8 DEF ReceiveOp, BridgeType, BridgeState, wireVars, editorVars, pluginVars
  <2>2. PushFollows' OBVIOUS
  <2>3. QuietFollows' BY DEF QuietFollows
  <2>4. FileIsHeard' BY DEF FileIsHeard, Carrying, Coming, QuietFollows
  <2>5. ScriptIsHeard' BY DEF ScriptIsHeard, LastWord
  <2>6. DeletionFollows' BY DEF DeletionFollows, Carrying, DeletionComing, QuietFollows
  <2> QED BY <2>1, <2>2, <2>3, <2>4, <2>5, <2>6, FollowedKept
<1>9. CASE CheckParked
  <2>1. NothingParked' BY <1>9 DEF CheckParked, BridgeStep, Idle, NothingParked, Parked
  <2>2. BridgeFollows' BY <1>9 DEF CheckParked, BridgeStep, Idle, BridgeType, BridgeState
  <2> USE <1>9 DEF CheckParked, BridgeStep, Idle, BridgeType, BridgeState, wireVars,
      editorVars, pluginVars
  <2>3. PushFollows' OBVIOUS
  <2>4. QuietFollows' BY DEF QuietFollows
  <2>5. FileIsHeard' BY DEF FileIsHeard, Carrying, Coming, QuietFollows
  <2>6. ScriptIsHeard' BY DEF ScriptIsHeard, LastWord
  <2>7. DeletionFollows' BY DEF DeletionFollows, Carrying, DeletionComing, QuietFollows
  <2> QED BY <2>1, <2>2, <2>3, <2>4, <2>5, <2>6, <2>7, FollowedKept
<1>10. CASE CheckAction
  <2>1. BridgeFollows' BY <1>10 DEF CheckAction, BridgeStep, Idle, BridgeType, BridgeState
  <2> USE <1>10 DEF CheckAction, BridgeStep, Idle, BridgeType, BridgeState, wireVars,
      editorVars, pluginVars
  <2>2. PushFollows' OBVIOUS
  <2>3. QuietFollows' BY DEF QuietFollows
  <2>4. FileIsHeard' BY DEF FileIsHeard, Carrying, Coming, QuietFollows
  <2>5. ScriptIsHeard' BY DEF ScriptIsHeard, LastWord
  <2>6. DeletionFollows' BY DEF DeletionFollows, Carrying, DeletionComing, QuietFollows
  <2> QED BY <2>1, <2>2, <2>3, <2>4, <2>5, <2>6, FollowedKept
<1>11. CASE CheckBaseline
  <2>1. BridgeFollows' BY <1>11 DEF CheckBaseline, BridgeStep, BridgeType, BridgeState
  <2> USE <1>11 DEF CheckBaseline, BridgeStep, BridgeType, BridgeState, wireVars,
      editorVars, pluginVars
  <2>2. PushFollows' OBVIOUS
  <2>3. QuietFollows' BY DEF QuietFollows
  <2>4. FileIsHeard' BY DEF FileIsHeard, Carrying, Coming, QuietFollows
  <2>5. ScriptIsHeard' BY DEF ScriptIsHeard, LastWord
  <2>6. DeletionFollows' BY DEF DeletionFollows, Carrying, DeletionComing, QuietFollows
  <2> QED BY <2>1, <2>2, <2>3, <2>4, <2>5, <2>6, FollowedKept
<1>12. CASE BridgeRecords
  <2> USE <1>12 DEF BridgeRecords, BridgeStep, Idle, BridgeType, BridgeState
  <2>1. NothingParked' BY DEF NothingParked, Parked
  <2>2. BridgeFollows' OBVIOUS
  <2>3. PushFollows' OBVIOUS
  <2>4. QuietFollows' BY DEF QuietFollows
  <2>5. FileIsHeard'
    BY DEF FileIsHeard, Carrying, Coming, QuietFollows, wireVars, editorVars, pluginVars
  <2>6. ScriptIsHeard' BY DEF ScriptIsHeard, LastWord, wireVars, editorVars, pluginVars
  <2>7. DeletionFollows'
    BY DEF DeletionFollows, Carrying, DeletionComing, QuietFollows, wireVars, editorVars,
       pluginVars
  <2> QED BY <2>1, <2>2, <2>3, <2>4, <2>5, <2>6, <2>7, FollowedKept DEF wireVars,
     editorVars, pluginVars
<1>13. CASE BeginDelete
  <2>1. BridgeFollows' BY <1>13 DEF BeginDelete, BridgeStep, BridgeType, BridgeState
  <2> USE <1>13 DEF BeginDelete, BridgeStep, BridgeType, BridgeState, wireVars, editorVars,
      pluginVars
  <2>2. PushFollows' OBVIOUS
  <2>3. QuietFollows' BY DEF QuietFollows
  <2>4. FileIsHeard' BY DEF FileIsHeard, Carrying, Coming, QuietFollows
  <2>5. ScriptIsHeard' BY DEF ScriptIsHeard, LastWord
  <2>6. DeletionFollows' BY DEF DeletionFollows, Carrying, DeletionComing, QuietFollows
  <2> QED BY <2>1, <2>2, <2>3, <2>4, <2>5, <2>6, FollowedKept
<1>14. CASE AttachDelete
  <2>1. NothingParked' BY <1>14 DEF AttachDelete, BridgeStep, NothingParked, Parked
  <2>2. BridgeFollows' BY <1>14 DEF AttachDelete, BridgeStep, BridgeType, BridgeState
  <2> USE <1>14 DEF AttachDelete, BridgeStep, BridgeType, BridgeState, wireVars, editorVars,
      pluginVars
  <2>3. PushFollows' OBVIOUS
  <2>4. QuietFollows' BY DEF QuietFollows
  <2>5. FileIsHeard' BY DEF FileIsHeard, Carrying, Coming, QuietFollows
  <2>6. ScriptIsHeard' BY DEF ScriptIsHeard, LastWord
  <2>7. DeletionFollows' BY DEF DeletionFollows, Carrying, DeletionComing, QuietFollows
  <2> QED BY <2>1, <2>2, <2>3, <2>4, <2>5, <2>6, <2>7, FollowedKept
<1>15. CASE FinishDelete
  <2>1. BridgeFollows' BY <1>15 DEF FinishDelete, BridgeStep, BridgeType, BridgeState
  <2> USE <1>15 DEF FinishDelete, BridgeStep, BridgeType, BridgeState, wireVars, editorVars,
      pluginVars
  <2>2. PushFollows' OBVIOUS
  <2>3. QuietFollows' BY DEF QuietFollows
  <2>4. FileIsHeard' BY DEF FileIsHeard, Carrying, Coming, QuietFollows
  <2>5. ScriptIsHeard' BY DEF ScriptIsHeard, LastWord
  <2>6. DeletionFollows' BY DEF DeletionFollows, Carrying, DeletionComing, QuietFollows
  <2> QED BY <2>1, <2>2, <2>3, <2>4, <2>5, <2>6, FollowedKept
<1>16. CASE DecideDelete
  <2>1. BridgeFollows' BY <1>16 DEF DecideDelete, Idle, BridgeType, BridgeState
  <2> USE <1>16 DEF DecideDelete, Idle, BridgeType, BridgeState, wireVars, editorVars,
      pluginVars
  <2>2. PushFollows' OBVIOUS
  <2>3. QuietFollows' BY DEF QuietFollows
  <2>4. FileIsHeard' BY DEF FileIsHeard, Carrying, Coming, QuietFollows
  <2>5. ScriptIsHeard' BY DEF ScriptIsHeard, LastWord
  <2>6. DeletionFollows' BY DEF DeletionFollows, Carrying, DeletionComing, QuietFollows
  <2> QED BY <2>1, <2>2, <2>3, <2>4, <2>5, <2>6, FollowedKept
<1>17. CASE EmitOp
  <2>0. /\ toStudio' # <<>> /\ Latest(toStudio') = bridge.text
        /\ DeletionComing' => DeletionComing \/ bridge.text = None
    <3>1. toStudio' = Append(toStudio, bridge.text) /\ bridge.text \in Content
      BY <1>17 DEF EmitOp, Broadcast, BridgeType, BridgeState
    <3>2. toStudio \in Seq(Content) BY DEF WireType
    <3>3. toStudio' # <<>> /\ Latest(toStudio') = bridge.text BY <3>1, <3>2, Queues
    <3>4. DeletionComing' => DeletionComing \/ bridge.text = None
      BY <3>1, <3>2 DEF DeletionComing
    <3> QED BY <3>3, <3>4
  <2>1. BridgeFollows' BY <1>17, <2>0 DEF EmitOp, Broadcast, Idle, BridgeType, BridgeState
  <2> USE <1>17, <2>0 DEF EmitOp, Broadcast, Idle, BridgeType, BridgeState, wireVars,
      editorVars, pluginVars
  <2>2. PushFollows' OBVIOUS
  <2>3. QuietFollows' BY DEF QuietFollows
  <2>4. FileIsHeard' BY DEF FileIsHeard, Carrying, Coming, QuietFollows
  <2>5. ScriptIsHeard' BY DEF ScriptIsHeard, LastWord
  <2>6. DeletionFollows' BY DEF DeletionFollows, Carrying, DeletionComing, QuietFollows
  <2> QED BY <2>1, <2>2, <2>3, <2>4, <2>5, <2>6, FollowedKept
<1>18. CASE BridgeForgets
  <2> USE <1>18 DEF BridgeForgets, BridgeStep, Idle, BridgeType, BridgeState
  <2>1. NothingParked' BY DEF NothingParked, Parked
  <2>2. BridgeFollows' OBVIOUS
  <2>3. PushFollows' OBVIOUS
  <2>4. QuietFollows' BY DEF QuietFollows
  <2>5. FileIsHeard'
    BY DEF FileIsHeard, Carrying, Coming, QuietFollows, wireVars, editorVars, pluginVars
  <2>6. ScriptIsHeard'
    BY DEF ScriptIsHeard, LastWord, DeletionFollows, wireVars, editorVars, pluginVars
  <2>7. DeletionFollows'
    BY DEF DeletionFollows, Carrying, DeletionComing, QuietFollows, wireVars, editorVars,
       pluginVars
  <2> QED BY <2>1, <2>2, <2>3, <2>4, <2>5, <2>6, <2>7, FollowedKept DEF wireVars,
     editorVars, pluginVars
<1>19. CASE ReceivePush
  <2>0. /\ toDaemon # <<>> /\ push'.text = Head(toDaemon)
        /\ toDaemon' = <<>> => Latest(toDaemon) = push'.text
        /\ toDaemon' # <<>> => Latest(toDaemon') = Latest(toDaemon)
    <3>1. toDaemon \in Seq(Texts) /\ toDaemon # <<>> BY <1>19 DEF ReceivePush, WireType
    <3>2. toDaemon' = Tail(toDaemon) /\ push'.text = Head(toDaemon) BY <1>19 DEF ReceivePush
    <3> QED BY <3>1, <3>2, Queues
  <2> USE <1>19, <2>0 DEF ReceivePush, PushType, PushState, wireVars, editorVars, pluginVars
  <2>1. BridgeFollows' OBVIOUS
  <2>2. PushFollows' OBVIOUS
  <2>3. QuietFollows' BY DEF QuietFollows
  <2>4. FileIsHeard' BY DEF FileIsHeard, Carrying, Coming, QuietFollows
  <2>5. ScriptIsHeard' BY DEF ScriptIsHeard, LastWord
  <2>6. LastIsScript' BY DEF LastIsScript
  <2>7. ExpectedFollows' BY DEF ExpectedFollows
  <2>8. DeletionFollows' BY DEF DeletionFollows, Carrying, DeletionComing, QuietFollows
  <2> QED BY <2>1, <2>2, <2>3, <2>4, <2>5, <2>6, <2>7, <2>8, FollowedKept
<1>20. CASE LookAtTarget
  <2>1. BridgeFollows'
    BY <1>20 DEF LookAtTarget, PushStep, PushEnds, NoPush, PushType, PushState
  <2> USE <1>20 DEF LookAtTarget, PushStep, PushEnds, NoPush, PushType, PushState, wireVars,
      editorVars, pluginVars
  <2>2. PushFollows' OBVIOUS
  <2>3. QuietFollows' BY DEF QuietFollows
  <2>4. FileIsHeard' BY DEF FileIsHeard, Carrying, Coming, QuietFollows
  <2>5. ScriptIsHeard' BY DEF ScriptIsHeard, LastWord
  <2>6. DeletionFollows' BY DEF DeletionFollows, Carrying, DeletionComing, QuietFollows
  <2> QED BY <2>1, <2>2, <2>3, <2>4, <2>5, <2>6, FollowedKept
<1>21. CASE ReadTarget
  <2>1. BridgeFollows' BY <1>21 DEF ReadTarget, PushType, PushState
  <2> USE <1>21 DEF ReadTarget, PushType, PushState, wireVars, editorVars, pluginVars
  <2>2. PushFollows' OBVIOUS
  <2>3. QuietFollows' BY DEF QuietFollows
  <2>4. FileIsHeard' BY DEF FileIsHeard, Carrying, Coming, QuietFollows
  <2>5. ScriptIsHeard' BY DEF ScriptIsHeard, LastWord
  <2>6. DeletionFollows' BY DEF DeletionFollows, Carrying, DeletionComing, QuietFollows
  <2> QED BY <2>1, <2>2, <2>3, <2>4, <2>5, <2>6, FollowedKept
<1>22. CASE CheckPending
  <2>1. BridgeFollows' BY <1>22 DEF CheckPending, PushStep, PushType, PushState
  <2> USE <1>22 DEF CheckPending, PushStep, PushType, PushState, wireVars, editorVars,
      pluginVars
  <2>2. PushFollows' OBVIOUS
  <2>3. QuietFollows' BY DEF QuietFollows
  <2>4. FileIsHeard' BY DEF FileIsHeard, Carrying, Coming, QuietFollows
  <2>5. ScriptIsHeard' BY DEF ScriptIsHeard, LastWord
  <2>6. DeletionFollows' BY DEF DeletionFollows, Carrying, DeletionComing, QuietFollows
  <2> QED BY <2>1, <2>2, <2>3, <2>4, <2>5, <2>6, FollowedKept
<1>23. CASE CheckClean
  <2>1. BridgeFollows'
    BY <1>23 DEF CheckClean, PushStep, PushEnds, NoPush, PushType, PushState
  <2> USE <1>23 DEF CheckClean, PushStep, PushEnds, NoPush, PushType, PushState, wireVars,
      editorVars, pluginVars
  <2>2. PushFollows' OBVIOUS
  <2>3. QuietFollows' BY DEF QuietFollows
  <2>4. FileIsHeard' BY DEF FileIsHeard, Carrying, Coming, QuietFollows
  <2>5. ScriptIsHeard' BY DEF ScriptIsHeard, LastWord
  <2>6. DeletionFollows' BY DEF DeletionFollows, Carrying, DeletionComing, QuietFollows
  <2> QED BY <2>1, <2>2, <2>3, <2>4, <2>5, <2>6, FollowedKept
<1>24. CASE Decide
  <2>1. BridgeFollows' BY <1>24 DEF Decide, PushStep, PushType, PushState
  <2> USE <1>24 DEF Decide, PushStep, PushType, PushState, wireVars, editorVars, pluginVars
  <2>2. PushFollows' OBVIOUS
  <2>3. QuietFollows' BY DEF QuietFollows
  <2>4. FileIsHeard' BY DEF FileIsHeard, Carrying, Coming, QuietFollows
  <2>5. ScriptIsHeard' BY DEF ScriptIsHeard, LastWord
  <2>6. DeletionFollows' BY DEF DeletionFollows, Carrying, DeletionComing, QuietFollows
  <2> QED BY <2>1, <2>2, <2>3, <2>4, <2>5, <2>6, FollowedKept
<1>25. CASE ApplyPush
  <2>1. BridgeFollows' BY <1>25 DEF ApplyPush, PushStep, WriteFile, PushType, PushState
  <2> USE <1>25 DEF ApplyPush, PushStep, WriteFile, PushType, PushState, wireVars,
      editorVars, pluginVars
  <2>2. PushFollows' OBVIOUS
  <2>3. QuietFollows' BY DEF QuietFollows
  <2>4. FileIsHeard' BY DEF FileIsHeard, Carrying, Coming, QuietFollows
  <2>5. ScriptIsHeard' BY DEF ScriptIsHeard, LastWord
  <2>6. DeletionFollows' BY DEF DeletionFollows, Carrying, DeletionComing, QuietFollows
  <2> QED BY <2>1, <2>2, <2>3, <2>4, <2>5, <2>6, FollowedKept
<1>26. CASE PushRecords
  <2>0. toStudio # <<>> => Latest(toStudio) # None
    <3>1. ~DeletionComing BY <1>26 DEF PushRecords, DeletionFollows
    <3>2. toStudio \in Seq(Content) BY DEF WireType
    <3>3. toStudio # <<>> => Len(toStudio) \in DOMAIN toStudio BY <3>2
    <3> QED BY <3>1, <3>3 DEF DeletionComing, Latest
  <2> USE <1>26 DEF PushRecords, PushStep, PushEnds, NoPush, PushType, PushState
  <2>1. NothingParked' BY <2>0 DEF NothingParked, Parked
  <2>2. BridgeFollows' BY <2>0
  <2>3. PushFollows' BY <2>0
  <2>4. QuietFollows' BY <2>0 DEF QuietFollows
  <2>5. FileIsHeard'
    BY <2>0 DEF FileIsHeard, Carrying, Coming, QuietFollows, wireVars, editorVars,
       pluginVars
  <2>6. ScriptIsHeard'
    <3>1. PushBusy /\ UNCHANGED <<toStudio, toDaemon, outgoing, editing>>
          /\ UNCHANGED <<worker, script, bridge>> /\ bridge.at # "forget"
      BY DEF wireVars, pluginVars, editorVars
    <3>2. PushBusy' => push'.text = push.text OBVIOUS
    <3>3. ~PushBusy' => baseline' = push.text OBVIOUS
    <3> QED BY <3>1, <3>2, <3>3 DEF ScriptIsHeard, LastWord
  <2>7. DeletionFollows'
    BY <2>0 DEF DeletionFollows, Carrying, DeletionComing, QuietFollows, wireVars,
       editorVars, pluginVars
  <2> QED BY <2>1, <2>2, <2>3, <2>4, <2>5, <2>6, <2>7, FollowedKept DEF wireVars,
     editorVars, pluginVars
<1>27. ASSUME NEW text \in StudioTexts \cup {Base}, Type(text)
       PROVE  /\ NothingParked' /\ BridgeFollows' /\ PushFollows'
              /\ QuietFollows' /\ FileIsHeard' /\ ScriptIsHeard'
              /\ LastIsScript' /\ ExpectedFollows' /\ WorkerFollows'
              /\ DeletionFollows'
  <2> USE <1>27 DEF Type, EditorChanged, wireVars, editorVars, pluginVars
  <2>1. FileIsHeard'
    BY DEF FileIsHeard, Carrying, Coming, QuietFollows, ExpectedFollows, WorkerFollows
  <2>2. ScriptIsHeard' BY DEF ScriptIsHeard, LastWord, ExpectedFollows, WorkerFollows
  <2>3. LastIsScript' BY DEF LastIsScript, ExpectedFollows
  <2>4. ExpectedFollows' BY DEF ExpectedFollows
  <2>5. WorkerFollows' BY DEF WorkerFollows
  <2>6. DeletionFollows' BY DEF DeletionFollows, Carrying, DeletionComing, QuietFollows
  <2> QED BY <2>1, <2>2, <2>3, <2>4, <2>5, <2>6, FollowedKept
<1>28. CASE CommitEdit
  <2>0. /\ expected = None /\ expected' = None /\ editing' = FALSE
        /\ outgoing' # <<>> /\ Latest(outgoing') = script
    <3> USE <1>28 DEF CommitEdit
    <3>1. editing /\ expected = None /\ script # None /\ script \in Texts
      BY DEF ExpectedFollows, DeletionFollows, EditorType
    <3>2. outgoing' = Append(outgoing, script) /\ expected' = None BY <3>1
    <3>3. outgoing \in Seq(Texts) BY DEF QueueType
    <3>4. outgoing' # <<>> /\ Latest(outgoing') = script BY <3>1, <3>2, <3>3, Queues
    <3> QED BY <3>1, <3>2, <3>4
  <2> USE <1>28, <2>0 DEF CommitEdit, wireVars, editorVars, pluginVars
  <2>1. FileIsHeard' BY DEF FileIsHeard, Carrying, Coming, QuietFollows
  <2>2. ScriptIsHeard' BY DEF ScriptIsHeard, LastWord
  <2>3. LastIsScript' BY DEF LastIsScript
  <2>4. ExpectedFollows' BY DEF ExpectedFollows
  <2>5. WorkerFollows' BY DEF WorkerFollows
  <2>6. DeletionFollows' BY DEF DeletionFollows, Carrying, DeletionComing, QuietFollows
  <2> QED BY <2>1, <2>2, <2>3, <2>4, <2>5, <2>6, FollowedKept
<1>29. CASE FlushPush
  <2>0. /\ toDaemon' # <<>> /\ Latest(toDaemon') = Latest(outgoing)
        /\ outgoing # <<>> /\ outgoing' = <<>>
    <3>1. outgoing \in Seq(Texts) /\ toDaemon \in Seq(Texts) BY DEF QueueType, WireType
    <3> QED BY <1>29, <3>1, Queues DEF FlushPush
  <2> USE <1>29, <2>0 DEF FlushPush, wireVars, editorVars, pluginVars
  <2>1. FileIsHeard' BY DEF FileIsHeard, Carrying, Coming, QuietFollows
  <2>2. ScriptIsHeard' BY DEF ScriptIsHeard, LastWord
  <2>3. LastIsScript' BY DEF LastIsScript
  <2>4. ExpectedFollows' BY DEF ExpectedFollows
  <2>5. DeletionFollows' BY DEF DeletionFollows, Carrying, DeletionComing, QuietFollows
  <2> QED BY <2>1, <2>2, <2>3, <2>4, <2>5, FollowedKept
<1>30. CASE ApplyOp
  <2>0. /\ toStudio # <<>> /\ outgoing = <<>> /\ toDaemon = <<>>
        /\ toStudio' = <<>> => Latest(toStudio) = Head(toStudio)
        /\ toStudio' # <<>> => Latest(toStudio') = Latest(toStudio)
        /\ Head(toStudio) = None => DeletionComing
        /\ DeletionComing' => DeletionComing
    <3>1. toStudio \in Seq(Content) /\ toStudio # <<>> BY <1>30 DEF ApplyOp, WireType
    <3>2. toStudio' = Tail(toStudio) /\ outgoing = <<>> /\ toDaemon = <<>>
      BY <1>30 DEF ApplyOp
    <3>3. Head(toStudio) = None => DeletionComing BY <3>1 DEF DeletionComing
    <3>4. DeletionComing' => DeletionComing BY <3>1, <3>2 DEF DeletionComing
    <3> QED BY <3>1, <3>2, <3>3, <3>4, Queues
  <2> USE <1>30, <2>0 DEF ApplyOp, WorkerType, WorkerState, wireVars, editorVars, pluginVars
  <2>1. FileIsHeard' BY DEF FileIsHeard, Carrying, Coming, QuietFollows, DeletionFollows
  <2>2. ScriptIsHeard' BY DEF ScriptIsHeard, LastWord, DeletionFollows, DeletionComing
  <2>3. LastIsScript' BY DEF LastIsScript
  <2>4. ExpectedFollows' BY DEF ExpectedFollows
  <2>5. WorkerFollows' BY DEF WorkerFollows
  <2>6. DeletionFollows' BY DEF DeletionFollows, Carrying, DeletionComing, QuietFollows
  <2> QED BY <2>1, <2>2, <2>3, <2>4, <2>5, <2>6, FollowedKept
<1>31. CASE WriteScript
  <2> USE <1>31 DEF WriteScript, EditorChanged, WorkerType, WorkerState, wireVars,
      editorVars, pluginVars
  <2>1. FileIsHeard' BY DEF FileIsHeard, Carrying, Coming, QuietFollows
  <2>2. ScriptIsHeard' BY DEF ScriptIsHeard, LastWord
  <2>3. LastIsScript' BY DEF LastIsScript, ExpectedFollows, WorkerFollows
  <2>4. ExpectedFollows' BY DEF ExpectedFollows
  <2>5. WorkerFollows' BY DEF WorkerFollows
  <2>6. DeletionFollows'
    BY DEF DeletionFollows, Carrying, DeletionComing, QuietFollows, EditorType
  <2> QED BY <2>1, <2>2, <2>3, <2>4, <2>5, <2>6, FollowedKept
<1>32. CASE AckOp
  <2> USE <1>32 DEF AckOp, WorkerType, WorkerState, NoJob, wireVars, editorVars, pluginVars
  <2>0. IF script = worker.text
        THEN toDaemon' # <<>> /\ Latest(toDaemon') = script
        ELSE toDaemon' = toDaemon
    <3>1. toDaemon \in Seq(Texts) /\ worker.text \in Texts BY DEF WireType
    <3> QED BY <3>1, Queues
  <2>1. FileIsHeard' BY <2>0 DEF FileIsHeard, Carrying, Coming, QuietFollows
  <2>2. ScriptIsHeard' BY <2>0 DEF ScriptIsHeard, LastWord, LastIsScript
  <2>3. LastIsScript' BY <2>0 DEF LastIsScript
  <2>4. ExpectedFollows' BY <2>0 DEF ExpectedFollows
  <2>5. WorkerFollows' BY <2>0 DEF WorkerFollows
  <2>6. DeletionFollows' BY <2>0 DEF DeletionFollows, Carrying, DeletionComing, QuietFollows
  <2> QED BY <2>1, <2>2, <2>3, <2>4, <2>5, <2>6, FollowedKept
<1> QED BY <1>1, <1>4, <1>5, <1>6, <1>7, <1>8, <1>9, <1>10, <1>11, <1>12, <1>13, <1>14,
       <1>15, <1>16, <1>17, <1>18, <1>19, <1>20, <1>21, <1>22, <1>23, <1>24, <1>25, <1>26,
       <1>27, <1>28, <1>29, <1>30, <1>31, <1>32 DEF Next, User, Bridge, PushHandler, Plugin

(* A comparison ends with the same text everywhere and nothing on its way. *)
LEMMA ReconciledIsFollowed ==
    ASSUME DataType, Followed, Reconcile, setting' = setting, Trusted'
    PROVE  /\ NothingParked' /\ BridgeFollows' /\ PushFollows'
           /\ QuietFollows' /\ FileIsHeard' /\ ScriptIsHeard'
           /\ LastIsScript' /\ ExpectedFollows' /\ WorkerFollows'
           /\ DeletionFollows'
<1>1. /\ choice = NoChoice /\ bridge' = Idle /\ push' = NoPush
      /\ toStudio' = <<>> /\ toDaemon' = <<>> /\ outgoing' = <<>>
      /\ worker' = NoJob /\ expected' = None /\ ~editing'
      /\ disk' = baseline' /\ script' = baseline' /\ choice' = choice
      /\ conflict' = NoConflict
  BY DEF Reconcile, Followed, Cut, Trusted, Races, wireVars
<1>2. /\ bridge'.at = "recv" /\ push'.at = "recv" /\ worker'.at = "idle"
      /\ ~DeletionComing'
  BY <1>1 DEF Idle, NoPush, NoJob, DeletionComing
<1> QED BY <1>1, <1>2 DEF NothingParked, BridgeFollows, BridgeBusy, PushBusy, PushFollows,
   QuietFollows, FileIsHeard, ScriptIsHeard, LastWord, LastIsScript, ExpectedFollows,
   WorkerFollows, DeletionFollows

(* A connection that is cut stays empty until both sides are compared. *)
LEMMA CutStep ==
    ASSUME DataType, Followed, [Next]_vars
    PROVE  Cut' /\ (pending' => bridge'.at \in {"attach", "finish"})
<1>1. pending' => bridge'.at \in {"attach", "finish"}
  BY DEF Followed, vars, Next, User, Save, DeleteFile, FileChange, Type, Resolve, QuietEnds,
     Bridge, ReceiveOp, CheckParked, CheckAction, CheckBaseline, BridgeRecords, BeginDelete,
     AttachDelete, FinishDelete, DecideDelete, EmitOp, Broadcast, BridgeForgets,
     PushHandler, ReceivePush, LookAtTarget, ReadTarget, CheckPending, CheckClean,
     ParkDelete, Decide, ApplyPush, PushEnds, PushRecords, ParkPush, Choice, SendLocal,
     AwaitAck, ParkAgain, SendDelete, ChoiceForgets, WriteChoice, WriteChoiceFails,
     RestoreFile, ChoiceRecords, Plugin, CommitEdit, FlushPush, ApplyOp, WriteScript, AckOp,
     wireVars, pluginVars, Disconnect, Reconcile, BridgeStep, Idle, DataType, BridgeType,
     BridgeState, engineVars, WriteFile
<1>2. Cut'
  <2>1. CASE linked' BY <2>1 DEF Cut
  <2>2. CASE linked /\ ~linked'
    BY <2>2 DEF Cut, vars, Next, User, Save, DeleteFile, FileChange, Type, Resolve,
       QuietEnds, Bridge, ReceiveOp, CheckParked, CheckAction, CheckBaseline, BridgeRecords,
       BeginDelete, AttachDelete, FinishDelete, DecideDelete, EmitOp, Broadcast,
       BridgeForgets, PushHandler, ReceivePush, LookAtTarget, ReadTarget, CheckPending,
       CheckClean, ParkDelete, Decide, ApplyPush, PushEnds, PushRecords, ParkPush, Choice,
       SendLocal, AwaitAck, ParkAgain, SendDelete, ChoiceForgets, WriteChoice,
       WriteChoiceFails, RestoreFile, ChoiceRecords, Plugin, CommitEdit, FlushPush, ApplyOp,
       WriteScript, AckOp, wireVars, pluginVars, Disconnect, Reconcile
  <2>3. CASE ~linked /\ ~linked'
    <3>1. ~refused /\ toStudio = <<>> /\ worker = NoJob /\ expected = None
      BY <2>3 DEF Followed, Cut
    <3>2. worker.at = "idle" BY <3>1 DEF NoJob
    <3> QED BY <2>3, <3>1, <3>2 DEF Cut, vars, Next, User, Save, DeleteFile,
       FileChange, Type, Resolve, QuietEnds, Bridge, ReceiveOp, CheckParked,
       CheckAction, CheckBaseline, BridgeRecords, BeginDelete, AttachDelete,
       FinishDelete, DecideDelete, EmitOp, Broadcast, BridgeForgets,
       PushHandler, ReceivePush, LookAtTarget, ReadTarget, CheckPending,
       CheckClean, ParkDelete, Decide, ApplyPush, PushEnds, PushRecords,
       ParkPush, Choice, SendLocal, AwaitAck, ParkAgain, SendDelete,
       ChoiceForgets, WriteChoice, WriteChoiceFails, RestoreFile,
       ChoiceRecords, Plugin, CommitEdit, FlushPush, ApplyOp, WriteScript,
       AckOp, wireVars, pluginVars, Disconnect, Reconcile, EditorChanged,
       editorVars, WriteFile, PushStep, NoJob
  <2> QED BY <2>1, <2>2, <2>3
<1> QED BY <1>1, <1>2

(* Every step follows. *)
LEMMA FollowedStep == TypeOK /\ Followed /\ [Next]_vars => Followed'
<1> SUFFICES ASSUME DataType, Followed, [Next]_vars PROVE Followed' BY DEF TypeOK
<1>1. Cut' /\ (pending' => bridge'.at \in {"attach", "finish"}) BY CutStep
<1>2. ASSUME Trusted'
      PROVE  /\ NothingParked' /\ BridgeFollows' /\ PushFollows'
             /\ QuietFollows' /\ FileIsHeard' /\ ScriptIsHeard'
             /\ LastIsScript' /\ ExpectedFollows' /\ WorkerFollows'
             /\ DeletionFollows'
  <2>1. CASE UNCHANGED vars
    <3>1. Trusted BY <1>2, <2>1 DEF vars, pluginVars, wireVars, Trusted, Races
    <3> QED BY <2>1, <3>1, FollowedKept DEF Followed, vars, fileVars,
       engineVars, wireVars, editorVars, pluginVars
  <2>2. CASE Reconcile /\ Next BY <1>2, <2>2, ReconciledIsFollowed DEF Next
  <2>3. CASE ~Reconcile /\ Next BY <1>2, <2>3, TrustedStep
  <2> QED BY <2>1, <2>2, <2>3
<1> QED BY <1>1, <1>2 DEF Followed

(* Threads that take turns, and edits that do not cross events, end with the same text on
   both sides or with a conflict the user sees. *)
THEOREM BothSidesAgree == Spec => []TurnsAgree
<1>1. Init => Followed
  BY DEF Init, Followed, Cut, NothingParked, BridgeFollows, BridgeBusy, PushBusy,
     PushFollows, QuietFollows, FileIsHeard, ScriptIsHeard, LastWord, LastIsScript,
     ExpectedFollows, WorkerFollows, DeletionFollows, DeletionComing, Idle, NoPush, NoJob
<1>2. Followed => TurnsAgree
  BY DEF Followed, TurnsAgree, Agreement, Settled, Trusted, FileIsHeard, Carrying, Coming,
     ScriptIsHeard, LastWord, PushBusy, Idle, NoPush, NoJob
<1> QED BY <1>1, <1>2, TypeCorrect, FollowedStep, PTL DEF Spec

-------------------------------------------------------------------------------
(* Trees: what is kept. *)

Numbers == Nat \ {0}
Live  == Ops!Held(trees["src"]) \cup Ops!Held(trees["dst"])
Saved == backup \cup vouched \cup waived

IsHandler(h) ==
    /\ h = [op |-> h.op, at |-> h.at, dir |-> h.dir, script |-> h.script, plan |-> h.plan,
            fence |-> h.fence, fenced |-> h.fenced, todo |-> h.todo, temp |-> h.temp,
            stage |-> h.stage, text |-> h.text]
    /\ h.dir \in BOOLEAN /\ h.fence \in Ops!Trees \cup {NoTree}
         /\ h.todo \subseteq Ops!Names
    /\ h.text \in Nat

TreeTypes ==
    /\ trees \in [Ops!Places -> Ops!Trees \cup {NoTree}]
    /\ fresh \in Numbers /\ IsHandler(handler)
    /\ base \in [Ops!Paths -> Nat] /\ \A q \in Ops!Paths : base[q] \in vouched \cup {0}

(* What a renaming has looked at does not change before it acts on it, and its temporary
   name is its own. *)
RenameHolds ==
    handler.op = "rename" =>
        /\ handler.at \in {"capture", "plan", "outer"} => trees["dst"] = NoTree
        /\ handler.at \in {"outer", "moved", "aside", "look", "final"} =>
             handler.temp \in Ops!Temps
        /\ handler.at \in {"outer", "moved", "aside"} =>
              \A p \in Ops!Places : ~ Ops!Has(trees[p], handler.temp)
        /\ handler.at = "final" => ~ Ops!Has(trees["dst"], "new")
        /\ handler.at \in {"undo", "init"} => handler.stage \in Ops!Temps \cup Ops!Inits
        /\ handler.at = "init" => handler.stage # "old"
        /\ handler.at = "back" => trees["src"] = NoTree

(* What is to be removed is Studio's, or was given up, or has a backup. *)
RemoveHolds ==
    /\ handler.op \in {"delete", "transition"} /\ handler.at \in {"write", "files", "fence"} =>
          Ops!Held(trees["src"]) \subseteq vouched
    /\ handler.op = "remove" /\ handler.at = "fence" =>
         Ops!Held(trees["src"]) \subseteq waived
    /\ handler.op \in Ops!Removing /\ handler.at = "entries" =>
          /\ handler.fence # NoTree /\ handler.todo \subseteq DOMAIN handler.fence.files
          /\ Ops!Held(handler.fence) \subseteq Saved

ReplaceHolds ==
    handler.op = "replace" =>
        /\ handler.at = "copy" =>
              /\ handler.fence # NoTree
              /\ \A n \in DOMAIN handler.fence.files \ handler.todo :
                   handler.fence.files[n] \in backup
        /\ handler.at = "fence" =>
              handler.fenced /\ handler.fence # NoTree
                /\ Ops!Held(handler.fence) \subseteq backup
        /\ handler.at \in {"write", "files"} => Ops!Held(trees["src"]) \subseteq waived

RestoreHolds ==
    handler.op = "restore" =>
        /\ handler.at \in {"check", "capture"} => Ops!Script(trees["dst"]) \subseteq waived
        /\ handler.at \in {"outer", "moved", "install", "undo"} =>
              handler.fence # NoTree /\ Ops!Script(handler.fence) \subseteq waived
        /\ handler.at \in {"capture", "outer"} => trees["src"] = NoTree
        /\ handler.at = "install" => trees["src"] = handler.fence

(* What an operation writes is not the user's. *)
TextHolds ==
    /\ handler.at # "idle" => handler.text \in waived /\ handler.text # 0
    /\ handler.at = "files" =>
          handler.todo \subseteq IF handler.dir THEN {"old", "child"} ELSE {"self"}

HandlerHolds == RenameHolds /\ RemoveHolds /\ ReplaceHolds /\ RestoreHolds /\ TextHolds

TreeInv ==
  Ops!TreesAssumption /\ ~ LateEdits /\ TreeTypes /\ HandlerHolds /\ Ops!UserKept

-------------------------------------------------------------------------------
(* Trees. *)

LEMMA NamesAre ==
    /\ Ops!Places = {"src", "dst"} /\ Ops!Inits = {"old", "new"}
    /\ Ops!Temps = {"temp 1", "temp 2"}
    /\ Ops!Names = {"old", "new", "temp 1", "temp 2", "child", "self"}
    /\ Ops!Paths = Ops!Places \X Ops!Names
BY DEF Ops!Places, Ops!Inits, Ops!Temps, Ops!Names, Ops!Paths

LEMMA TreesAre ==
    Ops!Trees = [dir : {FALSE}, files : [{"self"} -> Nat \ {0}]]
           \cup [dir : {TRUE},
                 files : UNION {[S -> Nat \ {0}] : S \in SUBSET (Ops!Names \ {"self"})}]
<1> DEFINE Files == [dir : {FALSE}, files : [{"self"} -> Nat \ {0}]]
           Dirs == [dir : {TRUE},
                    files : UNION {[S -> Nat \ {0}] : S \in SUBSET (Ops!Names \ {"self"})}]
<1>1. ASSUME NEW t \in Ops!Trees PROVE t \in Files \cup Dirs
  <2>1. PICK S \in Ops!Shapes : t \in Ops!TreesOver(S) BY DEF Ops!Trees
  <2>2. CASE S = {"self"} BY <2>1, <2>2 DEF Ops!TreesOver
  <2>3. CASE S \in SUBSET (Ops!Names \ {"self"})
    <3>1. S # {"self"} /\ t \in [dir : {TRUE}, files : [S -> Nat \ {0}]]
      BY <2>1, <2>3 DEF Ops!TreesOver
    <3>2. [S -> Nat \ {0}] \subseteq UNION {[T -> Nat \ {0}] :
                                            T \in SUBSET (Ops!Names \ {"self"})}
      BY <2>3
    <3> QED BY <3>1, <3>2
  <2> QED BY <2>1, <2>2, <2>3 DEF Ops!Shapes
<1>2. ASSUME NEW t \in Files PROVE t \in Ops!Trees
  <2>1. {"self"} \in Ops!Shapes /\ t \in Ops!TreesOver({"self"})
    BY <1>2 DEF Ops!Shapes, Ops!TreesOver
  <2> QED BY <2>1 DEF Ops!Trees
<1>3. ASSUME NEW t \in Dirs PROVE t \in Ops!Trees
  <2>1. PICK S \in SUBSET (Ops!Names \ {"self"}) : t.files \in [S -> Nat \ {0}] BY <1>3
  <2>2. S \in Ops!Shapes BY DEF Ops!Shapes
  <2>3. (S # {"self"}) = TRUE BY <2>1
  <2>4. t = [dir |-> TRUE, files |-> t.files] BY <1>3
  <2>5. t \in Ops!TreesOver(S) BY <2>1, <2>3, <2>4 DEF Ops!TreesOver
  <2> QED BY <2>2, <2>5 DEF Ops!Trees
<1> QED
  <2> HIDE DEF Files, Dirs
  <2>1. \A t : t \in Ops!Trees <=> t \in Files \cup Dirs BY <1>1, <1>2, <1>3
  <2>2. Ops!Trees = Files \cup Dirs BY <2>1
  <2> QED BY <2>2 DEF Files, Dirs

LEMMA TreeCounted == \A S : Ops!Cardinality(S) = Cardinality(S)
BY DEF Ops!Cardinality, Cardinality

LEMMA StartsAre ==
    ASSUME Ops!TreesAssumption
    PROVE  /\ NoTree \notin Ops!Trees
           /\ \A t \in AtStart : /\ t \in Ops!Trees
                                 /\ Ops!Held(t) = 1..Cardinality(Ops!Held(t))
<1>1. \A t : t \in Ops!Trees <=> \E S \in Ops!Shapes : t \in Ops!TreesOver(S)
  BY DEF Ops!Trees
<1>2. NoTree \notin Ops!Trees BY <1>1 DEF Ops!TreesAssumption
<1>3. \A t \in AtStart : t \in Ops!Trees BY <1>1 DEF Ops!TreesAssumption
<1>4. \A t \in AtStart : Ops!Held(t) = 1..Cardinality(Ops!Held(t))
  BY TreeCounted DEF Ops!TreesAssumption
<1> QED BY <1>2, <1>3, <1>4

LEMMA TreeIs ==
    ASSUME Ops!TreesAssumption, NEW t \in Ops!Trees
    PROVE  /\ t # NoTree /\ t.dir \in BOOLEAN /\ DOMAIN t.files \subseteq Ops!Names
           /\ \A n \in DOMAIN t.files : t.files[n] \in Numbers
           /\ ~ t.dir => DOMAIN t.files = {"self"}
           /\ t.dir => "self" \notin DOMAIN t.files
           /\ \A n : Ops!Has(t, n) <=> n \in DOMAIN t.files
           /\ Ops!Held(t) = {t.files[n] : n \in DOMAIN t.files}
           /\ t = [dir |-> t.dir, files |-> t.files]
<1>1. t # NoTree BY StartsAre
<1>2. CASE t \in [dir : {FALSE}, files : [{"self"} -> Nat \ {0}]]
  BY <1>1, <1>2, NamesAre DEF Ops!Has, Ops!Held, Numbers
<1>3. CASE t \in [dir : {TRUE},
                  files : UNION {[S -> Nat \ {0}] : S \in SUBSET (Ops!Names \ {"self"})}]
  <2>1. PICK S \in SUBSET (Ops!Names \ {"self"}) : t.files \in [S -> Nat \ {0}] BY <1>3
  <2> QED BY <1>1, <1>3, <2>1 DEF Ops!Has, Ops!Held, Numbers
<1> QED BY <1>2, <1>3, TreesAre

LEMMA IsTree ==
    ASSUME NEW f, NEW S \in SUBSET Ops!Names, f \in [S -> Numbers], NEW d \in BOOLEAN,
           IF d THEN "self" \notin S ELSE S = {"self"}
    PROVE  [dir |-> d, files |-> f] \in Ops!Trees
<1>1. CASE d
  <2>1. S \in SUBSET (Ops!Names \ {"self"}) BY <1>1
  <2>2. f \in UNION {[T -> Nat \ {0}] : T \in SUBSET (Ops!Names \ {"self"})}
    BY <2>1 DEF Numbers
  <2> QED BY <1>1, <2>2, TreesAre
<1>2. CASE ~ d BY <1>2, TreesAre DEF Numbers
<1> QED BY <1>1, <1>2

LEMMA Refiled ==
    ASSUME Ops!TreesAssumption, NEW t \in Ops!Trees, NEW g
    PROVE  [t EXCEPT !.files = g] = [dir |-> t.dir, files |-> g]
<1>1. t = [dir |-> t.dir, files |-> t.files] BY TreeIs
<1> QED BY <1>1

LEMMA WithIs ==
    ASSUME Ops!TreesAssumption, NEW t \in Ops!Trees, NEW c \in Numbers,
           NEW n \in Ops!Names,
           IF t.dir THEN n # "self" ELSE n = "self"
    PROVE  /\ Ops!With(t, n, c) \in Ops!Trees /\ Ops!With(t, n, c).dir = t.dir
           /\ DOMAIN Ops!With(t, n, c).files = DOMAIN t.files \cup {n}
           /\ Ops!With(t, n, c).files[n] = c
           /\ \A m \in DOMAIN t.files \ {n} : Ops!With(t, n, c).files[m] = t.files[m]
           /\ c \in Ops!Held(Ops!With(t, n, c))
           /\ Ops!Held(Ops!With(t, n, c)) \subseteq Ops!Held(t) \cup {c}
           /\ Ops!Held(t) \subseteq Ops!Held(Ops!With(t, n, c))
                \cup (IF Ops!Has(t, n) THEN {t.files[n]} ELSE {})
<1> DEFINE f == [m \in DOMAIN t.files \cup {n} |-> IF m = n THEN c ELSE t.files[m]]
           w == Ops!With(t, n, c)
<1>1. w = [dir |-> t.dir, files |-> f] BY Refiled DEF Ops!With
<1>2. f \in [DOMAIN t.files \cup {n} -> Numbers] BY TreeIs
<1>3. w \in Ops!Trees
  <2>1. IF t.dir THEN "self" \notin DOMAIN t.files \cup {n}
          ELSE DOMAIN t.files \cup {n} = {"self"}
    BY TreeIs
  <2>2. DOMAIN t.files \cup {n} \in SUBSET Ops!Names /\ t.dir \in BOOLEAN BY TreeIs
  <2> HIDE DEF f, w
  <2> QED BY <1>1, <1>2, <2>1, <2>2, IsTree
<1>4. /\ w.dir = t.dir /\ DOMAIN w.files = DOMAIN t.files \cup {n} /\ w.files[n] = c
      /\ \A m \in DOMAIN t.files \ {n} : w.files[m] = t.files[m]
  BY <1>1
<1> HIDE DEF f, w
<1>5. /\ Ops!Held(w) = {w.files[m] : m \in DOMAIN w.files}
      /\ Ops!Held(t) = {t.files[m] : m \in DOMAIN t.files}
      /\ (Ops!Has(t, n) <=> n \in DOMAIN t.files)
  BY <1>3, TreeIs
<1>6. c \in Ops!Held(w) BY <1>4, <1>5
<1>7. Ops!Held(w) \subseteq Ops!Held(t) \cup {c} BY <1>4, <1>5
<1>8. Ops!Held(t) \subseteq Ops!Held(w) \cup (IF Ops!Has(t, n)
                                                      THEN {t.files[n]} ELSE {})
  <2> SUFFICES ASSUME NEW m \in DOMAIN t.files, m # n
               PROVE  t.files[m] \in Ops!Held(w)
    BY <1>5
  <2> QED BY <1>4, <1>5
<1> QED BY <1>3, <1>4, <1>6, <1>7, <1>8 DEF w

LEMMA WithoutIs ==
    ASSUME Ops!TreesAssumption, NEW t \in Ops!Trees, t.dir, NEW n
    PROVE  /\ Ops!Without(t, n) \in Ops!Trees /\ Ops!Without(t, n).dir
           /\ DOMAIN Ops!Without(t, n).files = DOMAIN t.files \ {n}
           /\ \A m \in DOMAIN t.files \ {n} : Ops!Without(t, n).files[m] = t.files[m]
           /\ Ops!Held(Ops!Without(t, n)) \subseteq Ops!Held(t)
           /\ Ops!Held(t) \subseteq Ops!Held(Ops!Without(t, n))
                \cup (IF Ops!Has(t, n) THEN {t.files[n]} ELSE {})
<1> DEFINE f == [m \in DOMAIN t.files \ {n} |-> t.files[m]]
           w == Ops!Without(t, n)
<1>1. w = [dir |-> t.dir, files |-> f] BY Refiled DEF Ops!Without
<1>2. f \in [DOMAIN t.files \ {n} -> Numbers] BY TreeIs
<1>3. w \in Ops!Trees
  <2>1. IF t.dir THEN "self" \notin DOMAIN t.files \ {n} ELSE DOMAIN t.files \ {n} = {"self"}
    BY TreeIs
  <2>2. DOMAIN t.files \ {n} \in SUBSET Ops!Names /\ t.dir \in BOOLEAN BY TreeIs
  <2> HIDE DEF f, w
  <2> QED BY <1>1, <1>2, <2>1, <2>2, IsTree
<1>4. /\ w.dir = t.dir /\ DOMAIN w.files = DOMAIN t.files \ {n}
      /\ \A m \in DOMAIN t.files \ {n} : w.files[m] = t.files[m]
  BY <1>1
<1> HIDE DEF f, w
<1>5. /\ Ops!Held(w) = {w.files[m] : m \in DOMAIN w.files}
      /\ Ops!Held(t) = {t.files[m] : m \in DOMAIN t.files}
      /\ (Ops!Has(t, n) <=> n \in DOMAIN t.files)
  BY <1>3, TreeIs
<1>6. Ops!Held(w) \subseteq Ops!Held(t) BY <1>4, <1>5
<1>7. Ops!Held(t) \subseteq Ops!Held(w) \cup (IF Ops!Has(t, n)
                                                      THEN {t.files[n]} ELSE {})
  <2> SUFFICES ASSUME NEW m \in DOMAIN t.files, m # n
               PROVE  t.files[m] \in Ops!Held(w)
    BY <1>5
  <2> QED BY <1>4, <1>5
<1> QED BY <1>3, <1>4, <1>6, <1>7 DEF w

LEMMA RenamedIs ==
    ASSUME Ops!TreesAssumption, NEW t \in Ops!Trees, NEW a, NEW b \in Ops!Names,
           Ops!Has(t, a), a # "self", b # "self", a # b
    PROVE  /\ t.dir /\ Ops!Renamed(t, a, b) \in Ops!Trees
           /\ DOMAIN Ops!Renamed(t, a, b).files = (DOMAIN t.files \ {a}) \cup {b}
           /\ ~ Ops!Has(t, b) =>
                Ops!Held(t) \subseteq Ops!Held(Ops!Renamed(t, a, b))
<1> DEFINE v == Ops!Without(t, a)
           w == Ops!With(v, b, t.files[a])
<1>1. t.dir /\ a \in DOMAIN t.files /\ t.files[a] \in Numbers BY TreeIs
<1>2. /\ v \in Ops!Trees /\ v.dir /\ DOMAIN v.files = DOMAIN t.files \ {a}
      /\ Ops!Held(t) \subseteq Ops!Held(v) \cup {t.files[a]}
  BY <1>1, WithoutIs
<1> HIDE DEF v
<1>3. /\ w \in Ops!Trees /\ DOMAIN w.files = DOMAIN v.files \cup {b}
      /\ t.files[a] \in Ops!Held(w)
      /\ Ops!Held(v) \subseteq Ops!Held(w) \cup (IF Ops!Has(v, b)
                                                         THEN {v.files[b]} ELSE {})
  BY <1>1, <1>2, WithIs
<1>4. ~ Ops!Has(t, b) => ~ Ops!Has(v, b) BY <1>2, TreeIs
<1>5. Ops!Renamed(t, a, b) = w BY DEF Ops!Renamed, v
<1> HIDE DEF w
<1> QED BY <1>1, <1>2, <1>3, <1>4, <1>5

LEMMA NewTrees ==
    /\ Ops!Dir(Ops!Empty) \in Ops!Trees
         /\ Ops!Held(Ops!Dir(Ops!Empty)) \subseteq {}
    /\ \A c \in Numbers : /\ Ops!Leaf(c) \in Ops!Trees /\ Ops!Held(Ops!Leaf(c)) \subseteq {c}
                          /\ DOMAIN Ops!Leaf(c).files = {"self"} /\ ~ Ops!Leaf(c).dir
<1>1. Ops!Dir(Ops!Empty) \in Ops!Trees
  <2>1. Ops!Empty \in [{} -> Numbers] BY DEF Ops!Empty
  <2> QED BY <2>1, IsTree DEF Ops!Dir
<1>2. Ops!Held(Ops!Dir(Ops!Empty)) \subseteq {} BY DEF Ops!Held, Ops!Dir, Ops!Empty
<1>3. ASSUME NEW c \in Numbers
      PROVE  /\ Ops!Leaf(c) \in Ops!Trees /\ Ops!Held(Ops!Leaf(c)) \subseteq {c}
             /\ DOMAIN Ops!Leaf(c).files = {"self"} /\ ~ Ops!Leaf(c).dir
  <2>1. [n \in {"self"} |-> c] \in [{"self"} -> Numbers] /\ {"self"} \in SUBSET Ops!Names
    BY NamesAre
  <2>2. Ops!Leaf(c) \in Ops!Trees BY <2>1, IsTree DEF Ops!Leaf
  <2> QED BY <2>2 DEF Ops!Held, Ops!Leaf
<1> QED BY <1>1, <1>2, <1>3

LEMMA NoneIs == Ops!Held(NoTree) = {} /\ \A n : ~ Ops!Has(NoTree, n)
BY DEF Ops!Held, Ops!Has

-------------------------------------------------------------------------------
(* Steps. *)

Quiet == UNCHANGED <<trees, base, backup, vouched, waived, fresh>>
Keeps ==
    /\ Live \cup Saved \subseteq (Live \cup Saved)'
    /\ fresh' # fresh => fresh' = fresh + 1 /\ fresh \in (Live \cup Saved)'

LEMMA GoesIs ==
    ASSUME IsHandler(handler), NEW place, Ops!Go(place)
    PROVE  /\ IsHandler(handler)' /\ handler'.at = place /\ handler'.op = handler.op
           /\ handler'.dir = handler.dir /\ handler'.fence = handler.fence
           /\ handler'.script = handler.script /\ handler'.plan = handler.plan
           /\ handler'.fenced = handler.fenced /\ handler'.todo = handler.todo
           /\ handler'.temp = handler.temp /\ handler'.stage = handler.stage
           /\ handler'.text = handler.text
BY DEF IsHandler, Ops!Go

LEMMA Preserved ==
    ASSUME TreeInv, TreeTypes', HandlerHolds', Keeps
    PROVE  TreeInv'
<1>1. Ops!UserKept'
  <2>1. 1..(fresh - 1) \subseteq Live \cup Saved BY DEF TreeInv, Ops!UserKept, Live, Saved
  <2>2. fresh \in Nat /\ (fresh' = fresh \/ fresh' = fresh + 1)
    BY DEF Keeps, TreeInv, TreeTypes, Numbers
  <2>3. \A i \in 1..(fresh' - 1) : i \in 1..(fresh - 1) \/ (i = fresh /\ fresh' # fresh)
    BY <2>2
  <2>4. 1..(fresh' - 1) \subseteq (Live \cup Saved)' BY <2>1, <2>2, <2>3 DEF Keeps
  <2> QED BY <2>4 DEF Ops!UserKept, Live, Saved
<1> QED BY <1>1, StartsAre DEF TreeInv

LEMMA EndsHolds ==
    ASSUME TreeInv, handler' = Ops!Idle
    PROVE  HandlerHolds' /\ IsHandler(handler)'
<1>1. handler'.op = "none" /\ handler'.at = "idle" BY DEF Ops!Idle
<1>2. IsHandler(handler)' BY DEF Ops!Idle, IsHandler
<1> QED BY <1>1, <1>2 DEF HandlerHolds, RenameHolds, RemoveHolds, ReplaceHolds,
   RestoreHolds, TextHolds, Ops!Removing

LEMMA Stays ==
    ASSUME TreeInv, Quiet, HandlerHolds', IsHandler(handler)'
    PROVE  TreeInv'
<1>1. TreeTypes' BY DEF TreeInv, TreeTypes, Quiet
<1>2. Keeps BY DEF Keeps, Quiet, Live, Saved
<1> QED BY <1>1, <1>2, Preserved

LEMMA Ending ==
    ASSUME TreeInv, Quiet, NEW result, Ops!Ends(result)
    PROVE  TreeInv'
BY EndsHolds, Stays DEF Ops!Ends

LEMMA Looking ==
    /\ Ops!Looks => Quiet
    /\ \A result : Ops!Stops(result) => Quiet /\ Ops!Ends(result)
    /\ \A result : Ops!Reparked(result) => Quiet /\ Ops!Ends(result)
BY DEF Ops!Looks, Ops!Stops, Ops!Reparked, Ops!rest, Quiet

LEMMA Writing == Ops!Writes => UNCHANGED <<base, backup, vouched, waived, fresh>>
BY DEF Ops!Writes, Ops!rest

-------------------------------------------------------------------------------
(* Renaming: the steps that look. *)

LEMMA RenameGoes ==
    ASSUME TreeInv, handler.op = "rename", handler.at # "idle", waived \subseteq waived',
           handler'.op = "rename", handler'.text = handler.text, handler'.at # "files",
           RenameHolds'
    PROVE  HandlerHolds'
BY DEF TreeInv, HandlerHolds, RemoveHolds, ReplaceHolds, RestoreHolds, TextHolds,
   Ops!Removing

LEMMA RenameStays ==
    ASSUME TreeInv, handler.op = "rename", handler.at # "idle", Quiet, IsHandler(handler)',
           handler'.op = "rename", handler'.text = handler.text, handler'.at # "files",
           RenameHolds'
    PROVE  TreeInv'
<1>1. HandlerHolds' BY RenameGoes DEF Quiet
<1> QED BY <1>1, Stays

LEMMA RenameRollsBack ==
    ASSUME TreeInv, handler.op = "rename", handler.at # "idle", Quiet,
           NEW stage \in Ops!Temps \cup Ops!Inits, Ops!RollBack(stage)
    PROVE  TreeInv'
<1>1. /\ IsHandler(handler)' /\ handler'.op = "rename" /\ handler'.text = handler.text
      /\ handler'.at = "undo" /\ handler'.stage = stage
  BY DEF Ops!RollBack, IsHandler, TreeInv, TreeTypes
<1>2. RenameHolds' BY <1>1 DEF RenameHolds
<1> QED BY <1>1, <1>2, RenameStays

LEMMA RenameStarts ==
    ASSUME TreeInv, Ops!CheckRename \/ Ops!CaptureRename \/ Ops!PlanRename
    PROVE  TreeInv'
<1> USE DEF Ops!At
<1>1. CASE Ops!CheckRename
  <2>1. /\ Quiet /\ handler.op = "rename" /\ handler.at = "check"
    BY <1>1, Looking DEF Ops!CheckRename
  <2>2. CASE \E r : Ops!Ends(r) BY <2>1, <2>2, Ending
  <2>3. CASE /\ trees["dst"] = NoTree
             /\ handler' = [handler EXCEPT !.at = "capture",
                            !.script = Ops!InitsOf(trees["src"]) # {}]
    <3>1. /\ IsHandler(handler)' /\ handler'.op = "rename" /\ handler'.text = handler.text
          /\ handler'.at = "capture"
      BY <2>1, <2>3 DEF IsHandler, TreeInv, TreeTypes
    <3>2. RenameHolds' BY <2>1, <2>3, <3>1 DEF RenameHolds, Quiet
    <3> QED BY <2>1, <3>1, <3>2, RenameStays
  <2> QED BY <1>1, <2>2, <2>3 DEF Ops!CheckRename
<1>2. CASE Ops!CaptureRename
  <2>1. /\ Quiet /\ handler.op = "rename" /\ handler.at = "capture"
    BY <1>2, Looking DEF Ops!CaptureRename
  <2>2. CASE \E r : Ops!Ends(r) BY <2>1, <2>2, Ending
  <2>3. CASE handler' = [handler EXCEPT !.at = "plan", !.fence = trees["src"]]
    <3>1. /\ IsHandler(handler)' /\ handler'.op = "rename" /\ handler'.text = handler.text
          /\ handler'.at = "plan"
      BY <2>1, <2>3, NamesAre DEF IsHandler, TreeInv, TreeTypes
    <3>2. RenameHolds' BY <2>1, <3>1 DEF RenameHolds, Quiet, TreeInv, HandlerHolds
    <3> QED BY <2>1, <3>1, <3>2, RenameStays
  <2> QED BY <1>2, <2>2, <2>3 DEF Ops!CaptureRename
<1>3. CASE Ops!PlanRename
  <2>1. /\ Quiet /\ handler.op = "rename" /\ handler.at = "plan"
    BY <1>3, Looking DEF Ops!PlanRename
  <2>2. CASE \E r : Ops!Ends(r) BY <2>1, <2>2, Ending
  <2>3. CASE \E n \in Ops!Temps : /\ Ops!Missing(trees["src"], n)
               /\ handler' = [handler EXCEPT !.at = "outer", !.temp = n,
                    !.plan = handler.script /\ Ops!InitsOf(trees["src"]) = {"old"}]
    <3>1. PICK n \in Ops!Temps : /\ Ops!Missing(trees["src"], n)
               /\ handler' = [handler EXCEPT !.at = "outer", !.temp = n,
                    !.plan = handler.script /\ Ops!InitsOf(trees["src"]) = {"old"}]
      BY <2>3
    <3>2. /\ IsHandler(handler)' /\ handler'.op = "rename" /\ handler'.text = handler.text
          /\ handler'.at = "outer" /\ handler'.temp = n
      BY <2>1, <3>1 DEF IsHandler, TreeInv, TreeTypes
    <3>3. trees["dst"] = NoTree /\ ~ Ops!Has(trees["src"], n)
            /\ ~ Ops!Has(trees["dst"], n)
      BY <2>1, <3>1, NoneIs DEF TreeInv, HandlerHolds, RenameHolds, Ops!Missing
    <3>4. RenameHolds' BY <2>1, <3>1, <3>2, <3>3, NamesAre DEF RenameHolds, Quiet
    <3> QED BY SMTT(60), <2>1, <3>2, <3>4, RenameStays
  <2> QED BY <1>3, <2>2, <2>3 DEF Ops!PlanRename
<1> QED BY <1>1, <1>2, <1>3

LEMMA RenameLooks ==
    ASSUME TreeInv, Ops!VerifyMoved \/ Ops!InitDestination \/ Ops!FinalVerify
                    \/ Ops!UndoVerify \/ Ops!UndoVerifyAgain \/ Ops!UndoChecked
    PROVE  TreeInv'
<1>1. /\ Quiet /\ handler.op = "rename"
      /\ handler.at \in {"moved", "look", "verify", "undo", "again", "undone"}
  BY Looking DEF Ops!VerifyMoved, Ops!InitDestination, Ops!FinalVerify, Ops!UndoVerify,
     Ops!UndoVerifyAgain, Ops!UndoChecked, Ops!At
<1> USE <1>1
<1>2. IsHandler(handler) BY DEF TreeInv, TreeTypes
<1>3. CASE \E r : Ops!Ends(r) BY <1>3, Ending
<1>4. CASE \E stage \in Ops!Temps \cup Ops!Inits : Ops!RollBack(stage)
  BY <1>4, RenameRollsBack
<1>5. CASE handler.at = "moved" /\ (Ops!Go("aside") \/ Ops!Go("forget"))
  <2>1. /\ IsHandler(handler)' /\ handler'.op = "rename" /\ handler'.text = handler.text
        /\ handler'.at \in {"aside", "forget"} /\ handler'.temp = handler.temp
    BY <1>2, <1>5, GoesIs
  <2>2. RenameHolds' BY <1>5, <2>1 DEF RenameHolds, Quiet, TreeInv, HandlerHolds
  <2> QED BY <2>1, <2>2, RenameStays
<1>6. CASE handler.at = "look" /\ ~ Ops!Has(trees["dst"], "new") /\ Ops!Go("final")
  <2>1. /\ IsHandler(handler)' /\ handler'.op = "rename" /\ handler'.text = handler.text
        /\ handler'.at = "final" /\ handler'.temp = handler.temp
    BY <1>2, <1>6, GoesIs
  <2>2. RenameHolds' BY <1>6, <2>1 DEF RenameHolds, Quiet, TreeInv, HandlerHolds
  <2> QED BY <2>1, <2>2, RenameStays
<1>7. CASE Ops!Go("forget") \/ Ops!Go("again")
  <2>1. /\ IsHandler(handler)' /\ handler'.op = "rename" /\ handler'.text = handler.text
        /\ handler'.at \in {"forget", "again"}
    BY <1>2, <1>7, GoesIs
  <2>2. RenameHolds' BY <2>1 DEF RenameHolds
  <2> QED BY <2>1, <2>2, RenameStays
<1>8. CASE handler.at = "undo" /\ handler.stage # "old" /\ Ops!Go("init")
  <2>1. /\ IsHandler(handler)' /\ handler'.op = "rename" /\ handler'.text = handler.text
        /\ handler'.at = "init" /\ handler'.stage = handler.stage
    BY <1>2, <1>8, GoesIs
  <2>2. RenameHolds' BY <1>8, <2>1 DEF RenameHolds, TreeInv, HandlerHolds
  <2> QED BY <2>1, <2>2, RenameStays
<1>9. CASE trees["src"] = NoTree /\ Ops!Go("back")
  <2>1. /\ IsHandler(handler)' /\ handler'.op = "rename" /\ handler'.text = handler.text
        /\ handler'.at = "back"
    BY <1>2, <1>9, GoesIs
  <2>2. RenameHolds' BY <1>9, <2>1 DEF RenameHolds, Quiet
  <2> QED BY <2>1, <2>2, RenameStays
<1>10. \A stage \in {"old", "new", handler.temp} :
          handler.at \in {"moved", "look", "verify"}
            /\ (stage = handler.temp => handler.at = "look")
             => stage \in Ops!Temps \cup Ops!Inits
  BY NamesAre DEF TreeInv, HandlerHolds, RenameHolds
<1>11. CASE Ops!VerifyMoved
  <2>1. \/ Ops!RollBack("old") \/ Ops!Go(IF handler.plan THEN "aside" ELSE "forget")
    BY <1>11 DEF Ops!VerifyMoved
  <2> QED BY <1>11, <2>1, <1>4, <1>5, NamesAre DEF Ops!VerifyMoved, Ops!At
<1>12. CASE Ops!InitDestination
  BY <1>12, <1>4, <1>6, <1>10 DEF Ops!InitDestination, Ops!At, Ops!Missing
<1>13. CASE Ops!FinalVerify BY <1>13, <1>4, <1>7, NamesAre DEF Ops!FinalVerify
<1>14. CASE Ops!UndoVerify
  <2>1. (\E r : Ops!Ends(r))
          \/ Ops!Go(IF handler.stage = "old" THEN "again" ELSE "init")
    BY <1>14 DEF Ops!UndoVerify
  <2> QED BY <1>14, <2>1, <1>3, <1>7, <1>8 DEF Ops!UndoVerify, Ops!At
<1>15. CASE Ops!UndoVerifyAgain BY <1>15, <1>3, <1>9 DEF Ops!UndoVerifyAgain, Ops!Unchanged
<1>16. CASE Ops!UndoChecked BY <1>16, <1>3 DEF Ops!UndoChecked
<1> QED BY <1>11, <1>12, <1>13, <1>14, <1>15, <1>16

LEMMA RenameRebases ==
    ASSUME TreeInv, Ops!Rebase \/ Ops!Seed
    PROVE  TreeInv'
<1>1. /\ UNCHANGED <<trees, backup, waived, fresh>> /\ vouched \subseteq vouched'
      /\ handler.op = "rename" /\ handler.at # "idle"
  BY Looking DEF Ops!Rebase, Ops!Seed, Ops!At, Ops!rest, Quiet, Ops!Record
<1>2. HandlerHolds' /\ IsHandler(handler)'
  <2>1. CASE Ops!Rebase
    <3>1. /\ IsHandler(handler)' /\ handler'.op = "rename" /\ handler'.text = handler.text
          /\ handler'.at = "seed"
      BY <1>1, <2>1, GoesIs DEF Ops!Rebase, TreeInv, TreeTypes
    <3>2. RenameHolds' BY <3>1 DEF RenameHolds
    <3> QED BY <1>1, <3>1, <3>2, RenameGoes
  <2>2. CASE Ops!Seed BY <2>2, EndsHolds DEF Ops!Seed, Ops!Ends
  <2> QED BY <2>1, <2>2
<1>3. base' \in [Ops!Paths -> Nat]
        /\ \A q \in Ops!Paths : base'[q] \in vouched' \cup {0}
  <2>1. CASE Ops!Rebase BY <2>1, <1>1 DEF Ops!Rebase, Ops!Forget, TreeInv, TreeTypes
  <2>2. CASE Ops!Seed /\ base' = base BY <2>2, <1>1 DEF TreeInv, TreeTypes
  <2>3. CASE trees["dst"] # NoTree
          /\ Ops!Record("dst", DOMAIN trees["dst"].files, trees["dst"].files)
    <3>1. trees["dst"] \in Ops!Trees BY <2>3, NamesAre DEF TreeInv, TreeTypes
    <3>2. \A n \in DOMAIN trees["dst"].files : trees["dst"].files[n] \in Nat
      BY <3>1, TreeIs DEF TreeInv, Numbers
    <3> QED BY <2>3, <3>2 DEF Ops!Record, TreeInv, TreeTypes
  <2> QED BY <2>1, <2>2, <2>3 DEF Ops!Seed, Ops!Looks
<1>4. TreeTypes' BY <1>1, <1>2, <1>3 DEF TreeInv, TreeTypes
<1>5. Keeps BY <1>1 DEF Keeps, Live, Saved
<1> QED BY <1>2, <1>4, <1>5, Preserved

-------------------------------------------------------------------------------
(* Renaming: the steps that move. *)

LEMMA Acts ==
    ASSUME TreeInv, Ops!Writes, trees' \in [Ops!Places -> Ops!Trees \cup {NoTree}],
           Live \subseteq (Live \cup Saved)', IsHandler(handler)', HandlerHolds'
    PROVE  TreeInv'
<1>1. UNCHANGED <<base, backup, vouched, waived, fresh>> BY Writing
<1>2. TreeTypes' BY <1>1 DEF TreeInv, TreeTypes
<1>3. Keeps BY <1>1 DEF Keeps, Saved
<1> QED BY <1>2, <1>3, Preserved

LEMMA MoveIs ==
    ASSUME TreeInv, NEW p \in Ops!Places, NEW q \in Ops!Places, p # q,
           trees[q] = NoTree,
           Ops!Move(p, q)
    PROVE  /\ trees' \in [Ops!Places -> Ops!Trees \cup {NoTree}] /\ Live' = Live
           /\ trees'[q] = trees[p] /\ trees'[p] = NoTree
<1>1. trees \in [Ops!Places -> Ops!Trees \cup {NoTree}] BY DEF TreeInv, TreeTypes
<1>2. /\ trees' \in [Ops!Places -> Ops!Trees \cup {NoTree}]
      /\ trees'[q] = trees[p] /\ trees'[p] = NoTree
  BY <1>1 DEF Ops!Move
<1>3. Live' = Live
  <2>1. Ops!Held(trees[q]) = {} /\ Ops!Held(trees'[p]) = {} BY <1>2, NoneIs
  <2>2. /\ Live = Ops!Held(trees[p]) \cup Ops!Held(trees[q])
        /\ Live' = Ops!Held(trees'[p]) \cup Ops!Held(trees'[q])
    <3>1. (p = "src" /\ q = "dst") \/ (p = "dst" /\ q = "src") BY NamesAre
    <3> QED BY <3>1 DEF Live
  <2> QED BY <1>2, <2>2
<1> QED BY <1>2, <1>3

LEMMA MoveInitIs ==
    ASSUME TreeInv, NEW a, NEW b \in Ops!Names, a # "self", b # "self", a # b,
           Ops!Has(trees["dst"], a), ~ Ops!Has(trees["dst"], b), Ops!MoveInit(a, b)
    PROVE  /\ trees' \in [Ops!Places -> Ops!Trees \cup {NoTree}] /\ Live \subseteq Live'
           /\ trees'["src"] = trees["src"]
<1>1. /\ trees \in [Ops!Places -> Ops!Trees \cup {NoTree}] /\ trees["dst"] \in Ops!Trees
      /\ Ops!TreesAssumption
  BY NamesAre DEF TreeInv, TreeTypes, Ops!Has
<1> DEFINE w == Ops!Renamed(trees["dst"], a, b)
<1>2. w \in Ops!Trees /\ Ops!Held(trees["dst"]) \subseteq Ops!Held(w) BY <1>1, RenamedIs
<1>3. trees' = [trees EXCEPT !["dst"] = w] BY DEF Ops!MoveInit
<1> HIDE DEF w
<1>4. /\ trees' \in [Ops!Places -> Ops!Trees \cup {NoTree}]
      /\ trees'["src"] = trees["src"] /\ trees'["dst"] = w
  BY <1>1, <1>2, <1>3, NamesAre
<1> QED BY <1>2, <1>4 DEF Live

LEMMA RenameMoves ==
    ASSUME TreeInv, Ops!Outer \/ Ops!UndoOuter
    PROVE  TreeInv'
<1>1. CASE Ops!Outer
  <2>1. handler.op = "rename" /\ handler.at = "outer" BY <1>1 DEF Ops!Outer, Ops!At
  <2>2. CASE Ops!Looks /\ Ops!Ends("refused") BY <2>2, Looking, Ending
  <2>3. CASE Ops!Move("src", "dst") /\ Ops!Writes /\ Ops!Go("moved")
    <3>1. /\ trees["dst"] = NoTree /\ handler.temp \in Ops!Temps
          /\ \A p \in Ops!Places : ~ Ops!Has(trees[p], handler.temp)
      BY <2>1 DEF TreeInv, HandlerHolds, RenameHolds
    <3>2. /\ trees' \in [Ops!Places -> Ops!Trees \cup {NoTree}] /\ Live' = Live
          /\ trees'["dst"] = trees["src"] /\ trees'["src"] = NoTree
      BY <2>3, <3>1, NamesAre, MoveIs
    <3>3. /\ IsHandler(handler)' /\ handler'.op = "rename" /\ handler'.text = handler.text
          /\ handler'.at = "moved" /\ handler'.temp = handler.temp
      BY <2>1, <2>3, GoesIs DEF TreeInv, TreeTypes
    <3>4. RenameHolds' BY <3>1, <3>2, <3>3, NamesAre, NoneIs DEF RenameHolds
    <3>5. HandlerHolds' BY <2>1, <2>3, <3>3, <3>4, Writing, RenameGoes
    <3> QED BY <2>3, <3>2, <3>3, <3>5, Acts
  <2> QED BY <1>1, <2>2, <2>3 DEF Ops!Outer
<1>2. CASE Ops!UndoOuter
  <2>1. handler.op = "rename" /\ handler.at = "back" BY <1>2 DEF Ops!UndoOuter, Ops!At
  <2>2. CASE Ops!Looks /\ Ops!Ends("left") BY <2>2, Looking, Ending
  <2>3. CASE Ops!Move("dst", "src") /\ Ops!Writes /\ Ops!Go("undone")
    <3>1. trees["src"] = NoTree BY <2>1 DEF TreeInv, HandlerHolds, RenameHolds
    <3>2. trees' \in [Ops!Places -> Ops!Trees \cup {NoTree}] /\ Live' = Live
      BY <2>3, <3>1, NamesAre, MoveIs
    <3>3. /\ IsHandler(handler)' /\ handler'.op = "rename" /\ handler'.text = handler.text
          /\ handler'.at = "undone"
      BY <2>1, <2>3, GoesIs DEF TreeInv, TreeTypes
    <3>4. RenameHolds' BY <3>3 DEF RenameHolds
    <3>5. HandlerHolds' BY <2>1, <2>3, <3>3, <3>4, Writing, RenameGoes
    <3> QED BY <2>3, <3>2, <3>3, <3>5, Acts
  <2> QED BY <1>2, <2>2, <2>3 DEF Ops!UndoOuter
<1> QED BY <1>1, <1>2

LEMMA RenameInits ==
    ASSUME TreeInv, Ops!InitAside \/ Ops!InitFinal \/ Ops!UndoInit
    PROVE  TreeInv'
<1>1. ASSUME NEW a, NEW b, NEW place \in {"look", "verify", "again"},
             handler.op = "rename", handler.at # "idle",
             place = "look" => handler.temp \in Ops!Temps,
             a \in Ops!Temps \cup Ops!Inits,
             b \in Ops!Temps \cup Ops!Inits, a # b,
             Ops!Has(trees["dst"], a), ~ Ops!Has(trees["dst"], b),
             Ops!MoveInit(a, b), Ops!Writes, Ops!Go(place)
      PROVE  TreeInv'
  <2>1. trees' \in [Ops!Places -> Ops!Trees \cup {NoTree}] /\ Live \subseteq Live'
    BY <1>1, NamesAre, MoveInitIs
  <2>2. /\ IsHandler(handler)' /\ handler'.op = "rename" /\ handler'.text = handler.text
        /\ handler'.at = place /\ handler'.temp = handler.temp
    BY <1>1, GoesIs DEF TreeInv, TreeTypes
  <2>3. RenameHolds' BY <1>1, <2>2 DEF RenameHolds
  <2>4. HandlerHolds' BY <1>1, <2>2, <2>3, Writing, RenameGoes
  <2> QED BY <1>1, <2>1, <2>2, <2>4, Acts
<1>2. CASE Ops!InitAside
  <2>1. handler.op = "rename" /\ handler.at = "aside" BY <1>2 DEF Ops!InitAside, Ops!At
  <2>2. /\ handler.temp \in Ops!Temps /\ ~ Ops!Has(trees["dst"], handler.temp)
    BY <2>1, NamesAre DEF TreeInv, HandlerHolds, RenameHolds
  <2>3. CASE Ops!Looks /\ Ops!RollBack("old")
    BY <2>1, <2>3, Looking, NamesAre, RenameRollsBack
  <2>4. CASE /\ Ops!Has(trees["dst"], "old") /\ Ops!MoveInit("old", handler.temp)
             /\ Ops!Writes /\ Ops!Go("look")
    BY <2>1, <2>2, <2>4, <1>1, NamesAre
  <2> QED BY <1>2, <2>3, <2>4 DEF Ops!InitAside
<1>3. CASE Ops!InitFinal
  <2>1. handler.op = "rename" /\ handler.at = "final" BY <1>3 DEF Ops!InitFinal, Ops!At
  <2>2. /\ handler.temp \in Ops!Temps /\ ~ Ops!Has(trees["dst"], "new")
    BY <2>1, NamesAre DEF TreeInv, HandlerHolds, RenameHolds
  <2>3. CASE Ops!Looks /\ Ops!RollBack(handler.temp)
    BY <2>1, <2>2, <2>3, Looking, RenameRollsBack
  <2>4. CASE /\ Ops!Has(trees["dst"], handler.temp) /\ Ops!MoveInit(handler.temp, "new")
             /\ Ops!Writes /\ Ops!Go("verify")
    BY <2>1, <2>2, <2>4, <1>1, NamesAre
  <2> QED BY <1>3, <2>3, <2>4 DEF Ops!InitFinal
<1>4. CASE Ops!UndoInit
  <2>1. handler.op = "rename" /\ handler.at = "init" BY <1>4 DEF Ops!UndoInit, Ops!At
  <2>2. handler.stage \in Ops!Temps \cup Ops!Inits /\ handler.stage # "old"
    BY <2>1 DEF TreeInv, HandlerHolds, RenameHolds
  <2>3. CASE Ops!Looks /\ Ops!Ends("left") BY <2>3, Looking, Ending
  <2>4. CASE /\ Ops!Has(trees["dst"], handler.stage) /\ ~ Ops!Has(trees["dst"], "old")
             /\ Ops!MoveInit(handler.stage, "old") /\ Ops!Writes /\ Ops!Go("again")
    BY <2>1, <2>2, <2>4, <1>1, NamesAre
  <2> QED BY <1>4, <2>3, <2>4 DEF Ops!UndoInit, Ops!Missing
<1> QED BY <1>2, <1>3, <1>4

-------------------------------------------------------------------------------
(* Removing: the steps that look. *)

LEMMA RemoveGoes ==
    ASSUME TreeInv, handler.op \in Ops!Removing, handler.at # "idle",
           waived \subseteq waived',
           handler'.op = handler.op, handler'.text = handler.text, handler'.at # "files",
           RemoveHolds', ReplaceHolds'
    PROVE  HandlerHolds'
BY DEF TreeInv, HandlerHolds, RenameHolds, RestoreHolds, TextHolds, Ops!Removing

LEMMA RemoveStays ==
    ASSUME TreeInv, handler.op \in Ops!Removing, handler.at # "idle", Quiet,
           IsHandler(handler)', handler'.op = handler.op, handler'.text = handler.text,
           handler'.at # "files", RemoveHolds', ReplaceHolds'
    PROVE  TreeInv'
<1>1. HandlerHolds' BY RemoveGoes DEF Quiet
<1> QED BY <1>1, Stays

(* What matches its baselines was a baseline. *)
LEMMA MatchesIs ==
    ASSUME TreeInv, Ops!Matches
    PROVE  Ops!Held(trees["src"]) \subseteq vouched
<1>1. trees["src"] \in Ops!Trees BY NamesAre DEF Ops!Matches, TreeInv, TreeTypes
<1>2. SUFFICES ASSUME NEW n \in DOMAIN trees["src"].files
               PROVE  trees["src"].files[n] \in vouched
  BY <1>1, TreeIs DEF TreeInv
<1>3. trees["src"].files[n] \in Numbers /\ n \in Ops!Names BY <1>1, <1>2, TreeIs DEF TreeInv
<1>4. trees["src"].files[n] = base[<<"src", n>>] /\ <<"src", n>> \in Ops!Paths
  BY <1>2, <1>3, NamesAre DEF Ops!Matches
<1> QED BY <1>3, <1>4 DEF TreeInv, TreeTypes, Numbers

LEMMA RemoveChecks ==
    ASSUME TreeInv, \/ Ops!CheckDelete \/ Ops!CheckTransition \/ Ops!CheckReplace
                    \/ Ops!MatchBaselines
    PROVE  TreeInv'
<1>1. IsHandler(handler) BY DEF TreeInv, TreeTypes
<1>2. CASE \E r : Quiet /\ Ops!Ends(r) BY <1>2, Ending
<1>3. ASSUME handler.op \in Ops!Removing, handler.at # "idle", Quiet,
             NEW place, Ops!Go(place),
             place \in {"match", "backup"}
             \/ (handler.op = "replace" /\ place = "write" /\ trees["src"] = NoTree)
             \/ (handler.op \in {"delete", "transition"} /\ place \in {"write", "fence"}
                   /\ Ops!Held(trees["src"]) \subseteq vouched)
      PROVE  TreeInv'
  <2>1. /\ IsHandler(handler)' /\ handler'.op = handler.op /\ handler'.text = handler.text
        /\ handler'.at = place
    BY <1>1, <1>3, GoesIs
  <2>2. trees["src"] = NoTree => Ops!Held(trees["src"]) \subseteq {} BY NoneIs
  <2>3. RemoveHolds' BY <1>3, <2>1 DEF RemoveHolds, Quiet
  <2>4. ReplaceHolds' BY <1>3, <2>1, <2>2 DEF ReplaceHolds, Quiet
  <2> QED BY <1>3, <2>1, <2>3, <2>4, RemoveStays
<1>4. CASE Ops!CheckDelete
  <2>1. handler.op = "delete" /\ handler.at = "check" /\ Quiet
    BY <1>4, Looking DEF Ops!CheckDelete, Ops!At
  <2>2. (\E r : Ops!Ends(r)) \/ Ops!Go("match") BY <1>4 DEF Ops!CheckDelete
  <2> QED BY <2>1, <2>2, <1>2, <1>3 DEF Ops!Removing
<1>5. CASE Ops!CheckTransition
  <2>1. handler.op = "transition" /\ handler.at = "check" /\ Quiet
    BY <1>5, Looking DEF Ops!CheckTransition, Ops!At
  <2>2. (\E r : Ops!Ends(r)) \/ (trees["src"] = NoTree /\ Ops!Go("write"))
          \/ Ops!Go("match")
    BY <1>5 DEF Ops!CheckTransition
  <2>3. trees["src"] = NoTree => Ops!Held(trees["src"]) \subseteq vouched BY NoneIs
  <2> QED BY <2>1, <2>2, <2>3, <1>2, <1>3 DEF Ops!Removing
<1>6. CASE Ops!CheckReplace
  <2>1. handler.op = "replace" /\ handler.at = "check" /\ Quiet
    BY <1>6, Looking DEF Ops!CheckReplace, Ops!At
  <2>2. (\E r : Ops!Ends(r)) \/ (trees["src"] = NoTree /\ Ops!Go("write"))
          \/ Ops!Go("backup")
    BY <1>6 DEF Ops!CheckReplace
  <2> QED BY <2>1, <2>2, <1>2, <1>3 DEF Ops!Removing
<1>7. CASE Ops!MatchBaselines
  <2>1. handler.op \in {"delete", "transition"} /\ handler.at = "match" /\ Quiet
    BY <1>7, Looking DEF Ops!MatchBaselines, Ops!At, Quiet, Ops!rest
  <2>2. \/ \E r : Ops!Ends(r)
        \/ Ops!Matches /\ Ops!Go(IF handler.op = "delete" THEN "fence" ELSE "write")
    BY <1>7 DEF Ops!MatchBaselines
  <2> QED BY <2>1, <2>2, MatchesIs, <1>2, <1>3 DEF Ops!Removing
<1> QED BY <1>4, <1>5, <1>6, <1>7

-------------------------------------------------------------------------------
(* The backup of what a forced push removes. *)

LEMMA Backups ==
    ASSUME TreeInv, Ops!BackupCapture \/ Ops!BackupVerify
    PROVE  TreeInv'
<1>1. handler.op = "replace" /\ Quiet /\ handler.at \in {"backup", "copy"}
  BY Looking DEF Ops!BackupCapture, Ops!BackupVerify, Ops!At
<1>2. CASE \E r : Ops!Ends(r) BY <1>1, <1>2, Ending
<1>3. /\ IsHandler(handler) /\ Ops!TreesAssumption
      /\ trees \in [Ops!Places -> Ops!Trees \cup {NoTree}]
  BY DEF TreeInv, TreeTypes
<1>4. CASE /\ trees["src"] # NoTree
           /\ handler' = [handler EXCEPT !.at = "copy", !.fence = trees["src"],
                            !.todo = DOMAIN trees["src"].files]
  <2>1. trees["src"] \in Ops!Trees /\ DOMAIN trees["src"].files \subseteq Ops!Names
    BY <1>3, <1>4, NamesAre, TreeIs
  <2>2. /\ IsHandler(handler)' /\ handler'.op = handler.op /\ handler'.text = handler.text
        /\ handler'.at = "copy" /\ handler'.fence = trees["src"]
        /\ handler'.todo = DOMAIN trees["src"].files
    BY <1>3, <1>4, <2>1 DEF IsHandler
  <2>3. RemoveHolds' BY <1>1, <2>2 DEF RemoveHolds
  <2>4. ReplaceHolds' BY <1>4, <2>2 DEF ReplaceHolds
  <2> QED BY <1>1, <2>2, <2>3, <2>4, RemoveStays DEF Ops!Removing
<1>5. CASE /\ handler.at = "copy" /\ handler.todo = {}
           /\ handler' = [handler EXCEPT !.at = "fence", !.fenced = TRUE]
  <2>1. /\ handler.fence # NoTree
        /\ \A n \in DOMAIN handler.fence.files : handler.fence.files[n] \in backup
    BY <1>1, <1>5 DEF TreeInv, HandlerHolds, ReplaceHolds
  <2>2. Ops!Held(handler.fence) \subseteq backup BY <2>1 DEF Ops!Held
  <2>3. /\ IsHandler(handler)' /\ handler'.op = handler.op /\ handler'.text = handler.text
        /\ handler'.at = "fence" /\ handler'.fence = handler.fence /\ handler'.fenced
    BY <1>3, <1>5 DEF IsHandler
  <2>4. RemoveHolds' BY <1>1, <2>3 DEF RemoveHolds
  <2>5. ReplaceHolds' BY <1>1, <2>1, <2>2, <2>3 DEF ReplaceHolds, Quiet
  <2> QED BY <1>1, <2>3, <2>4, <2>5, RemoveStays DEF Ops!Removing
<1> QED BY <1>2, <1>4, <1>5 DEF Ops!BackupCapture, Ops!BackupVerify, Ops!At

LEMMA BackupCopies ==
    ASSUME TreeInv, Ops!BackupCopy
    PROVE  TreeInv'
<1>1. handler.op = "replace" /\ handler.at = "copy" BY DEF Ops!BackupCopy, Ops!At
<1>2. IsHandler(handler) BY DEF TreeInv, TreeTypes
<1>3. CASE Ops!Looks /\ Ops!Ends("refused") BY <1>3, Looking, Ending
<1>4. ASSUME NEW n \in handler.todo,
             trees["src"].files[n] = handler.fence.files[n],
             backup' = backup \cup {trees["src"].files[n]},
             handler' = [handler EXCEPT !.todo = handler.todo \ {n}],
             UNCHANGED <<trees, base, vouched, Ops!rest>>
      PROVE  TreeInv'
  <2>1. /\ IsHandler(handler)' /\ handler'.op = handler.op /\ handler'.text = handler.text
        /\ handler'.at = "copy" /\ handler'.fence = handler.fence
        /\ handler'.todo = handler.todo \ {n}
    BY <1>1, <1>2, <1>4 DEF IsHandler
  <2>2. UNCHANGED <<trees, base, vouched, waived, fresh>> BY <1>4 DEF Ops!rest
  <2>3. RemoveHolds' BY <1>1, <2>1 DEF RemoveHolds
  <2>4. ReplaceHolds'
    <3>1. /\ handler.fence # NoTree
          /\ \A m \in DOMAIN handler.fence.files \ handler.todo :
               handler.fence.files[m] \in backup
      BY <1>1 DEF TreeInv, HandlerHolds, ReplaceHolds
    <3>2. \A m \in DOMAIN handler.fence.files \ handler'.todo :
            handler.fence.files[m] \in backup'
      BY <3>1, <1>4, <2>1
    <3> QED BY <2>1, <3>1, <3>2 DEF ReplaceHolds
  <2>5. HandlerHolds' BY <1>1, <2>1, <2>2, <2>3, <2>4, RemoveGoes DEF Ops!Removing
  <2>6. TreeTypes' BY <2>1, <2>2 DEF TreeInv, TreeTypes
  <2>7. Keeps BY <1>4, <2>2 DEF Keeps, Live, Saved
  <2> QED BY <2>5, <2>6, <2>7, Preserved
<1> QED BY <1>3, <1>4 DEF Ops!BackupCopy

-------------------------------------------------------------------------------
(* Removing: what goes is what was captured. *)

LEMMA SrcIs ==
    ASSUME TreeInv, NEW t \in Ops!Trees \cup {NoTree}, trees' = [trees EXCEPT !["src"] = t],
           Ops!Held(trees["src"]) \subseteq Ops!Held(t) \cup Saved'
    PROVE  /\ trees' \in [Ops!Places -> Ops!Trees \cup {NoTree}] /\ trees'["src"] = t
           /\ trees'["dst"] = trees["dst"] /\ Live \subseteq (Live \cup Saved)'
<1>1. trees \in [Ops!Places -> Ops!Trees \cup {NoTree}] BY DEF TreeInv, TreeTypes
<1>2. /\ trees' \in [Ops!Places -> Ops!Trees \cup {NoTree}] /\ trees'["src"] = t
      /\ trees'["dst"] = trees["dst"]
  BY <1>1, NamesAre
<1> QED BY <1>2 DEF Live

LEMMA RemovedGoes ==
    ASSUME TreeInv, handler.op \in Ops!Removing, handler.at # "idle",
           waived \subseteq waived',
           Ops!Removed, trees'["src"] = NoTree
    PROVE  HandlerHolds' /\ IsHandler(handler)'
<1>1. /\ IsHandler(handler)' /\ handler'.op = handler.op /\ handler'.text = handler.text
      /\ handler'.at = IF handler.op = "replace" THEN "write" ELSE "gone"
  BY GoesIs DEF Ops!Removed, TreeInv, TreeTypes
<1>2. Ops!Held(trees'["src"]) = {} BY NoneIs
<1>3. RemoveHolds' BY <1>1 DEF RemoveHolds
<1>4. ReplaceHolds' BY <1>1, <1>2 DEF ReplaceHolds
<1> QED BY <1>1, <1>3, <1>4, RemoveGoes

LEMMA RemovalFences ==
    ASSUME TreeInv, Ops!RemovalFence
    PROVE  TreeInv'
<1>1. handler.op \in Ops!Removing /\ handler.at = "fence" BY DEF Ops!RemovalFence, Ops!At
<1>2. IsHandler(handler) /\ trees["src"] \in Ops!Trees \cup {NoTree}
        /\ Ops!TreesAssumption
  BY NamesAre DEF TreeInv, TreeTypes
<1>3. CASE \E r : Ops!Stops(r) BY <1>3, Looking, Ending
<1>4. CASE trees["src"] = NoTree /\ Ops!Looks /\ Ops!Removed
  <2>1. Quiet BY <1>4, Looking
  <2>2. HandlerHolds' /\ IsHandler(handler)' BY <1>1, <1>4, <2>1, RemovedGoes DEF Quiet
  <2> QED BY <2>1, <2>2, Stays
<1>5. CASE /\ trees["src"] # NoTree
           /\ ~ (handler.fenced /\ trees["src"] # handler.fence /\ trees["src"] # NoTree)
           /\ Ops!Looks
           /\ handler' = [handler EXCEPT !.at = "entries", !.fence = trees["src"],
                            !.todo = DOMAIN trees["src"].files]
  <2>1. Quiet BY <1>5, Looking
  <2>2. DOMAIN trees["src"].files \subseteq Ops!Names BY <1>2, <1>5, TreeIs
  <2>3. /\ IsHandler(handler)' /\ handler'.op = handler.op /\ handler'.text = handler.text
        /\ handler'.at = "entries" /\ handler'.fence = trees["src"]
        /\ handler'.todo = DOMAIN trees["src"].files
    BY <1>2, <1>5, <2>2 DEF IsHandler
  <2>4. Ops!Held(trees["src"]) \subseteq Saved
    BY <1>1, <1>5 DEF TreeInv, HandlerHolds, RemoveHolds, ReplaceHolds, Saved, Ops!Removing
  <2>5. RemoveHolds' BY <1>5, <2>1, <2>3, <2>4 DEF RemoveHolds, Quiet, Saved
  <2>6. ReplaceHolds' BY <2>3 DEF ReplaceHolds
  <2> QED BY <1>1, <2>1, <2>3, <2>5, <2>6, RemoveStays
<1> QED BY <1>3, <1>4, <1>5 DEF Ops!RemovalFence

LEMMA RemovesFile ==
    ASSUME TreeInv, Ops!RemoveFile
    PROVE  TreeInv'
<1>1. /\ handler.op \in Ops!Removing /\ handler.at = "entries"
      /\ handler.fence # NoTree /\ handler.todo \subseteq DOMAIN handler.fence.files
      /\ Ops!Held(handler.fence) \subseteq Saved
  BY DEF Ops!RemoveFile, Ops!At, TreeInv, HandlerHolds, RemoveHolds
<1>2. IsHandler(handler) /\ trees["src"] \in Ops!Trees \cup {NoTree}
        /\ Ops!TreesAssumption
  BY NamesAre DEF TreeInv, TreeTypes
<1>3. CASE \E r : Ops!Stops(r) BY <1>3, Looking, Ending
<1>4. ASSUME NEW n \in handler.todo, Ops!Has(trees["src"], n),
             trees["src"].files[n] = handler.fence.files[n], Ops!Writes,
             IF trees["src"].dir
             THEN /\ trees' = [trees EXCEPT !["src"] = Ops!Without(trees["src"], n)]
                  /\ handler' = [handler EXCEPT !.todo = handler.todo \ {n}]
             ELSE trees' = [trees EXCEPT !["src"] = NoTree] /\ Ops!Removed
      PROVE  TreeInv'
  <2>1. trees["src"] \in Ops!Trees /\ n \in DOMAIN trees["src"].files
    BY <1>2, <1>4 DEF Ops!Has
  <2>2. trees["src"].files[n] \in Saved BY <1>1, <1>4 DEF Ops!Held
  <2>3. UNCHANGED <<backup, vouched, waived>> /\ Saved' = Saved BY <1>4, Writing DEF Saved
  <2>4. CASE trees["src"].dir
    <3> DEFINE w == Ops!Without(trees["src"], n)
    <3>1. w \in Ops!Trees
            /\ Ops!Held(trees["src"]) \subseteq Ops!Held(w) \cup {trees["src"].files[n]}
      BY <1>2, <1>4, <2>1, <2>4, WithoutIs
    <3>2. trees' = [trees EXCEPT !["src"] = w] BY <1>4, <2>4
    <3> HIDE DEF w
    <3>3. trees' \in [Ops!Places -> Ops!Trees \cup {NoTree}]
            /\ Live \subseteq (Live \cup Saved)'
      BY <2>2, <2>3, <3>1, <3>2, SrcIs
    <3>4. /\ IsHandler(handler)' /\ handler'.op = handler.op /\ handler'.text = handler.text
          /\ handler'.at = "entries" /\ handler'.fence = handler.fence
          /\ handler'.todo \subseteq handler.todo
      BY <1>1, <1>2, <1>4, <2>4 DEF IsHandler
    <3>5. RemoveHolds' BY <1>1, <2>3, <3>4 DEF RemoveHolds
    <3>6. ReplaceHolds' BY <3>4 DEF ReplaceHolds
    <3>7. HandlerHolds' BY <1>1, <2>3, <3>4, <3>5, <3>6, RemoveGoes
    <3> QED BY <1>4, <3>3, <3>4, <3>7, Acts
  <2>5. CASE ~ trees["src"].dir
    <3>1. trees' = [trees EXCEPT !["src"] = NoTree] /\ Ops!Removed BY <1>4, <2>5
    <3>2. Ops!Held(trees["src"]) \subseteq {trees["src"].files[n]}
      BY <1>2, <2>1, <2>5, TreeIs
    <3>3. /\ trees' \in [Ops!Places -> Ops!Trees \cup {NoTree}] /\ trees'["src"] = NoTree
          /\ Live \subseteq (Live \cup Saved)'
      BY <2>2, <2>3, <3>1, <3>2, SrcIs
    <3>4. HandlerHolds' /\ IsHandler(handler)' BY <1>1, <2>3, <3>1, <3>3, RemovedGoes
    <3> QED BY <1>4, <3>3, <3>4, Acts
  <2> QED BY <2>4, <2>5
<1>5. (\E r : Ops!Stops(r)) \/
      \E n \in handler.todo :
         /\ Ops!Has(trees["src"], n) /\ trees["src"].files[n] = handler.fence.files[n]
         /\ Ops!Writes
         /\ IF trees["src"].dir
            THEN /\ trees' = [trees EXCEPT !["src"] = Ops!Without(trees["src"], n)]
                 /\ handler' = [handler EXCEPT !.todo = handler.todo \ {n}]
            ELSE trees' = [trees EXCEPT !["src"] = NoTree] /\ Ops!Removed
  BY DEF Ops!RemoveFile
<1> QED BY <1>3, <1>4, <1>5

LEMMA RemovesRest ==
    ASSUME TreeInv, Ops!RemoveDirectory \/ Ops!ForgetRemoved
    PROVE  TreeInv'
<1>1. CASE \E r : Ops!Stops(r) BY <1>1, Looking, Ending
<1>2. CASE /\ Ops!RemoveDirectory /\ trees["src"].files = Ops!Empty /\ trees["src"] # NoTree
           /\ trees' = [trees EXCEPT !["src"] = NoTree] /\ Ops!Writes /\ Ops!Removed
  <2>1. handler.op \in Ops!Removing /\ handler.at = "entries"
    BY <1>2 DEF Ops!RemoveDirectory, Ops!At
  <2>2. Ops!Held(trees["src"]) \subseteq {} BY <1>2 DEF Ops!Held, Ops!Empty
  <2>3. /\ trees' \in [Ops!Places -> Ops!Trees \cup {NoTree}] /\ trees'["src"] = NoTree
        /\ Live \subseteq (Live \cup Saved)'
    BY <1>2, <2>2, SrcIs
  <2>4. HandlerHolds' /\ IsHandler(handler)' BY <1>2, <2>1, <2>3, Writing, RemovedGoes
  <2> QED BY <1>2, <2>3, <2>4, Acts
<1>3. CASE Ops!ForgetRemoved
  <2>1. /\ UNCHANGED <<trees, backup, vouched, waived, fresh>> /\ Ops!Ends("applied")
        /\ base' = [q \in Ops!Paths |-> IF q[1] = "src" THEN 0 ELSE base[q]]
    BY <1>3 DEF Ops!ForgetRemoved, Ops!rest, Ops!Forget
  <2>2. HandlerHolds' /\ IsHandler(handler)' BY <2>1, EndsHolds DEF Ops!Ends
  <2>3. TreeTypes' BY <2>1, <2>2 DEF TreeInv, TreeTypes
  <2>4. Keeps BY <2>1 DEF Keeps, Live, Saved
  <2> QED BY <2>2, <2>3, <2>4, Preserved
<1> QED BY <1>1, <1>2, <1>3 DEF Ops!RemoveDirectory

-------------------------------------------------------------------------------
(* Writing Studio's tree. *)

LEMMA FirstIs ==
    ASSUME handler.todo # {}
    PROVE  Ops!First \in handler.todo
<1>1. \E n \in handler.todo : n = "child" => handler.todo = {"child"}
  <2>1. PICK n \in handler.todo : TRUE OBVIOUS
  <2>2. CASE \E m \in handler.todo : m # "child" BY <2>2
  <2>3. CASE \A m \in handler.todo : m = "child" BY <2>1, <2>3
  <2> QED BY <2>2, <2>3
<1> QED BY <1>1 DEF Ops!First

LEMMA WantedIs ==
    {Ops!Wanted[i] : i \in DOMAIN Ops!Wanted}
        \subseteq IF handler.dir THEN {"old", "child"} ELSE {"self"}
BY DEF Ops!Wanted

(* A tree that gets a file of Studio's: what is gone was a baseline or was given up. *)
LEMMA PutIs ==
    ASSUME TreeInv, NEW p \in Ops!Places, NEW t \in Ops!Trees \cup {NoTree},
           trees' = [trees EXCEPT ![p] = t], Saved \subseteq Saved',
           Ops!Held(trees[p]) \subseteq Ops!Held(t) \cup Saved'
    PROVE  /\ trees' \in [Ops!Places -> Ops!Trees \cup {NoTree}] /\ trees'[p] = t
           /\ \A q \in Ops!Places \ {p} : trees'[q] = trees[q]
           /\ Live \cup Saved \subseteq (Live \cup Saved)'
<1>1. trees \in [Ops!Places -> Ops!Trees \cup {NoTree}] BY DEF TreeInv, TreeTypes
<1>2. /\ trees' \in [Ops!Places -> Ops!Trees \cup {NoTree}] /\ trees'[p] = t
      /\ \A q \in Ops!Places \ {p} : trees'[q] = trees[q]
  BY <1>1
<1>3. /\ Ops!Held(trees["src"]) \subseteq Ops!Held(trees'["src"]) \cup Saved'
      /\ Ops!Held(trees["dst"]) \subseteq Ops!Held(trees'["dst"]) \cup Saved'
  BY <1>2, NamesAre
<1> QED BY <1>2, <1>3 DEF Live

(* An operation that writes goes on: only what it may overwrite matters. *)
LEMMA WriteGoes ==
    ASSUME TreeInv, handler.op \in {"transition", "replace"}, handler.at \in {"write", "files"},
           waived \subseteq waived', vouched \subseteq vouched',
           handler'.op = handler.op, handler'.text = handler.text, handler'.at = "files",
           handler'.todo \subseteq IF handler'.dir THEN {"old", "child"} ELSE {"self"},
           Ops!Held(trees'["src"]) \subseteq Ops!Held(trees["src"])
              \cup (IF handler.op = "replace" THEN {handler.text} ELSE {})
    PROVE  HandlerHolds'
<1>1. handler.text \in waived /\ handler.text # 0 BY DEF TreeInv, HandlerHolds, TextHolds
<1>2. RemoveHolds' BY DEF RemoveHolds, TreeInv, HandlerHolds
<1>3. ReplaceHolds' BY <1>1 DEF ReplaceHolds, TreeInv, HandlerHolds
<1>4. TextHolds' BY <1>1 DEF TextHolds
<1>5. RenameHolds' /\ RestoreHolds' BY DEF RenameHolds, RestoreHolds
<1> QED BY <1>2, <1>3, <1>4, <1>5 DEF HandlerHolds

LEMMA WritesDirectory ==
    ASSUME TreeInv, Ops!WriteDirectory
    PROVE  TreeInv'
<1>1. /\ handler.op \in {"transition", "replace"} /\ handler.at = "write"
      /\ Ops!Target \in Ops!Places
  BY NamesAre DEF Ops!WriteDirectory, Ops!At, Ops!Target
<1>2. IsHandler(handler) /\ trees \in [Ops!Places -> Ops!Trees \cup {NoTree}]
  BY DEF TreeInv, TreeTypes
<1>3. CASE Ops!Looks /\ Ops!Ends("partial") BY <1>3, Looking, Ending
<1>4. CASE /\ trees' = IF handler.dir /\ trees[Ops!Target] = NoTree
                       THEN [trees EXCEPT ![Ops!Target] = Ops!Dir(Ops!Empty)]
                         ELSE trees
           /\ Ops!Writes
           /\ handler' = [handler EXCEPT !.at = "files",
                            !.todo = {Ops!Wanted[i] : i \in DOMAIN Ops!Wanted}]
  <2> DEFINE todo == {Ops!Wanted[i] : i \in DOMAIN Ops!Wanted}
  <2>1. todo \subseteq IF handler.dir THEN {"old", "child"} ELSE {"self"} BY WantedIs
  <2>2. handler' = [handler EXCEPT !.at = "files", !.todo = todo] BY <1>4
  <2> HIDE DEF todo
  <2>3. /\ IsHandler(handler)' /\ handler'.op = handler.op /\ handler'.text = handler.text
        /\ handler'.at = "files" /\ handler'.dir = handler.dir /\ handler'.todo = todo
    BY <1>2, <2>1, <2>2, NamesAre DEF IsHandler
  <2>4. UNCHANGED <<base, backup, vouched, waived, fresh>> /\ Saved' = Saved
    BY <1>4, Writing DEF Saved
  <2>5. /\ trees' \in [Ops!Places -> Ops!Trees \cup {NoTree}]
        /\ Live \subseteq (Live \cup Saved)'
        /\ Ops!Held(trees'["src"]) \subseteq Ops!Held(trees["src"])
    <3>1. CASE trees' = trees BY <1>2, <3>1 DEF Live
    <3>2. CASE /\ trees[Ops!Target] = NoTree
               /\ trees' = [trees EXCEPT ![Ops!Target] = Ops!Dir(Ops!Empty)]
      <4>1. Ops!Dir(Ops!Empty) \in Ops!Trees
              /\ Ops!Held(Ops!Dir(Ops!Empty)) \subseteq {}
        BY NewTrees
      <4>2. /\ trees' \in [Ops!Places -> Ops!Trees \cup {NoTree}]
            /\ trees'[Ops!Target] = Ops!Dir(Ops!Empty)
            /\ \A q \in Ops!Places \ {Ops!Target} : trees'[q] = trees[q]
            /\ Live \subseteq (Live \cup Saved)'
        BY <1>1, <2>4, <3>2, <4>1, NoneIs, PutIs
      <4> QED BY <4>1, <4>2, NamesAre
    <3> QED BY <1>4, <3>1, <3>2
  <2>6. HandlerHolds' BY <1>1, <2>1, <2>3, <2>4, <2>5, WriteGoes
  <2> QED BY <1>4, <2>3, <2>5, <2>6, Acts
<1> QED BY <1>3, <1>4 DEF Ops!WriteDirectory

LEMMA WritesFile ==
    ASSUME TreeInv, Ops!WriteFile
    PROVE  TreeInv'
<1> DEFINE p == Ops!Target
           t == trees[p]
           n == Ops!First
           fits == ~ (IF handler.dir THEN t = NoTree \/ ~ t.dir ELSE t # NoTree /\ t.dir)
           clash == /\ handler.op = "transition" /\ Ops!Has(t, n)
                         /\ t.files[n] # base[<<p, n>>]
           w == IF handler.dir THEN Ops!With(t, n, handler.text)
             ELSE Ops!Leaf(handler.text)
<1>1. /\ handler.op \in {"transition", "replace"} /\ handler.at = "files" /\ handler.todo # {}
      /\ p \in Ops!Places /\ (p = "src" <=> handler.op = "replace")
  BY NamesAre DEF Ops!WriteFile, Ops!At, Ops!Target
<1>2. /\ IsHandler(handler) /\ trees \in [Ops!Places -> Ops!Trees \cup {NoTree}]
      /\ Ops!TreesAssumption /\ t \in Ops!Trees \cup {NoTree}
  BY <1>1 DEF TreeInv, TreeTypes
<1>3. /\ handler.text \in Numbers /\ handler.text \in waived
      /\ handler.todo \subseteq IF handler.dir THEN {"old", "child"} ELSE {"self"}
      /\ n \in handler.todo /\ n \in Ops!Names
  BY <1>1, <1>2, FirstIs DEF TreeInv, HandlerHolds, TextHolds, IsHandler, Numbers
<1>4. \/ \E r : Ops!Looks /\ Ops!Ends(r)
      \/ /\ \/ handler' = [handler EXCEPT !.todo = {}]
            \/ Ops!Ends("conflict")
         /\ UNCHANGED <<trees, base, backup, vouched, Ops!rest>>
      \/ /\ fits /\ ~ clash
         /\ trees' = [trees EXCEPT ![p] = w]
         /\ Ops!Record(p, {n}, [m \in {n} |-> handler.text])
         /\ handler' = [handler EXCEPT !.todo = handler.todo \ {n}]
         /\ UNCHANGED <<reported, parked, backup, Ops!rest>>
  BY DEF Ops!WriteFile
<1>5. CASE \E r : Ops!Looks /\ Ops!Ends(r) BY <1>5, Looking, Ending
<1>6. CASE /\ \/ handler' = [handler EXCEPT !.todo = {}]
              \/ Ops!Ends("conflict")
           /\ UNCHANGED <<trees, base, backup, vouched, Ops!rest>>
  <2>1. Quiet BY <1>6 DEF Quiet, Ops!rest
  <2>2. CASE handler' = [handler EXCEPT !.todo = {}]
    <3>1. /\ IsHandler(handler)' /\ handler'.op = handler.op /\ handler'.text = handler.text
          /\ handler'.at = "files" /\ handler'.dir = handler.dir /\ handler'.todo = {}
      BY <1>1, <1>2, <2>2 DEF IsHandler
    <3>2. HandlerHolds' BY <1>1, <2>1, <3>1, WriteGoes DEF Quiet
    <3> QED BY <2>1, <3>1, <3>2, Stays
  <2> QED BY <1>6, <2>1, <2>2, Ending
<1>7. CASE /\ fits /\ ~ clash
           /\ trees' = [trees EXCEPT ![p] = w]
           /\ Ops!Record(p, {n}, [m \in {n} |-> handler.text])
           /\ handler' = [handler EXCEPT !.todo = handler.todo \ {n}]
           /\ UNCHANGED <<reported, parked, backup, Ops!rest>>
  <2>1. /\ UNCHANGED <<backup, waived, fresh>> /\ vouched \subseteq vouched'
             /\ Saved \subseteq Saved'
    BY <1>7 DEF Ops!rest, Ops!Record, Saved
  <2>2. /\ w \in Ops!Trees /\ Ops!Held(w) \subseteq Ops!Held(t) \cup {handler.text}
        /\ Ops!Held(t) \subseteq Ops!Held(w) \cup (IF Ops!Has(t, n)
                                                           THEN {t.files[n]} ELSE {})
    <3>1. CASE handler.dir
      <4>1. t \in Ops!Trees /\ t.dir /\ n # "self" BY <1>2, <1>3, <1>7, <3>1
      <4> QED BY <1>2, <1>3, <3>1, <4>1, WithIs
    <3>2. CASE ~ handler.dir
      <4>1. n = "self" /\ (t = NoTree \/ (t \in Ops!Trees /\ ~ t.dir))
        BY <1>2, <1>3, <1>7, <3>2
      <4>2. Ops!Held(t) \subseteq IF Ops!Has(t, n) THEN {t.files[n]} ELSE {}
        BY <1>2, <4>1, TreeIs, NoneIs
      <4>3. /\ Ops!Leaf(handler.text) \in Ops!Trees
            /\ Ops!Held(Ops!Leaf(handler.text)) \subseteq {handler.text}
        BY <1>3, NewTrees
      <4> QED BY <3>2, <4>2, <4>3
    <3> QED BY <3>1, <3>2
  <2>3. Ops!Has(t, n) => t.files[n] \in Saved
    <3>1. CASE handler.op = "transition"
      <4>1. ASSUME Ops!Has(t, n) PROVE t.files[n] \in Numbers
        BY <1>2, <4>1, TreeIs DEF Ops!Has
      <4>2. base[<<p, n>>] \in vouched \cup {0}
        BY <1>1, <1>3, NamesAre DEF TreeInv, TreeTypes
      <4> QED BY <1>7, <3>1, <4>1, <4>2 DEF Numbers, Saved
    <3>2. CASE handler.op = "replace"
      <4>1. Ops!Held(t) \subseteq waived
        BY <1>1, <3>2 DEF TreeInv, HandlerHolds, ReplaceHolds
      <4> QED BY <4>1 DEF Ops!Has, Ops!Held, Saved
    <3> QED BY <1>1, <3>1, <3>2
  <2> HIDE DEF w
  <2>4. /\ trees' \in [Ops!Places -> Ops!Trees \cup {NoTree}] /\ trees'[p] = w
        /\ \A q \in Ops!Places \ {p} : trees'[q] = trees[q]
        /\ Live \cup Saved \subseteq (Live \cup Saved)'
    <3>1. Ops!Held(trees[p]) \subseteq Ops!Held(w) \cup Saved' BY <2>1, <2>2, <2>3
    <3> HIDE DEF p
    <3> QED BY <1>1, <1>7, <2>1, <2>2, <3>1, PutIs
  <2>5. /\ IsHandler(handler)' /\ handler'.op = handler.op /\ handler'.text = handler.text
        /\ handler'.at = "files" /\ handler'.dir = handler.dir
             /\ handler'.todo \subseteq handler.todo
    BY <1>1, <1>2, <1>7 DEF IsHandler
  <2>6. Ops!Held(trees'["src"]) \subseteq Ops!Held(trees["src"])
                 \cup (IF handler.op = "replace" THEN {handler.text} ELSE {})
    BY <1>1, <2>2, <2>4, NamesAre
  <2>7. HandlerHolds' BY <1>1, <1>3, <2>1, <2>5, <2>6, WriteGoes
  <2>8. base' \in [Ops!Paths -> Nat]
          /\ \A q \in Ops!Paths : base'[q] \in vouched' \cup {0}
    BY <1>3, <1>7 DEF Ops!Record, TreeInv, TreeTypes, Numbers
  <2>9. TreeTypes' /\ Keeps BY <2>1, <2>4, <2>5, <2>8 DEF TreeInv, TreeTypes, Keeps
  <2> QED BY <2>7, <2>9, Preserved
<1> QED BY <1>4, <1>5, <1>6, <1>7

LEMMA WriteEnds ==
    ASSUME TreeInv, Ops!Written
    PROVE  TreeInv'
<1>1. /\ handler.op \in {"transition", "replace"} /\ handler.at = "files" /\ Quiet
  BY Looking DEF Ops!Written, Ops!At
<1>2. CASE \E r : Ops!Ends(r) BY <1>1, <1>2, Ending
<1>3. CASE handler.op = "transition" /\ Ops!Go("fence")
  <2>1. /\ IsHandler(handler)' /\ handler'.op = handler.op /\ handler'.text = handler.text
        /\ handler'.at = "fence"
    BY <1>3, GoesIs DEF TreeInv, TreeTypes
  <2>2. RemoveHolds' BY <1>1, <1>3, <2>1 DEF RemoveHolds, TreeInv, HandlerHolds, Quiet
  <2>3. ReplaceHolds' BY <1>3, <2>1 DEF ReplaceHolds
  <2> QED BY <1>1, <2>1, <2>2, <2>3, RemoveStays DEF Ops!Removing
<1> QED BY <1>2, <1>3 DEF Ops!Written

-------------------------------------------------------------------------------
(* Restoring. *)

LEMMA RestoreGoes ==
    ASSUME TreeInv, handler.op = "restore", handler.at # "idle", waived \subseteq waived',
           handler'.op = "restore", handler'.text = handler.text, handler'.at # "files",
           RestoreHolds'
    PROVE  HandlerHolds'
BY DEF TreeInv, HandlerHolds, RenameHolds, RemoveHolds, ReplaceHolds, TextHolds,
   Ops!Removing

LEMMA RestoreMovesIs ==
    ASSUME TreeInv, Ops!RestoreMoves
    PROVE  TreeInv'
<1>1. handler.op = "restore" /\ handler.at = "outer" BY DEF Ops!RestoreMoves, Ops!At
<1>2. /\ handler.fence # NoTree /\ Ops!Script(handler.fence) \subseteq waived
      /\ trees["src"] = NoTree
  BY <1>1 DEF TreeInv, HandlerHolds, RestoreHolds
<1>3. CASE \E r : Ops!Reparked(r) BY <1>3, Looking, Ending
<1>4. CASE Ops!Move("dst", "src") /\ Ops!Writes /\ Ops!Go("moved")
  <2>1. trees' \in [Ops!Places -> Ops!Trees \cup {NoTree}] /\ Live' = Live
    BY <1>2, <1>4, NamesAre, MoveIs
  <2>2. /\ IsHandler(handler)' /\ handler'.op = "restore" /\ handler'.text = handler.text
        /\ handler'.at = "moved" /\ handler'.fence = handler.fence
    BY <1>1, <1>4, GoesIs DEF TreeInv, TreeTypes
  <2>3. UNCHANGED waived BY <1>4, Writing
  <2>4. RestoreHolds' BY <1>2, <2>2, <2>3 DEF RestoreHolds
  <2>5. HandlerHolds' BY <1>1, <2>2, <2>3, <2>4, RestoreGoes
  <2> QED BY <1>4, <2>1, <2>2, <2>5, Acts
<1> QED BY <1>3, <1>4 DEF Ops!RestoreMoves

LEMMA RestoreLooks ==
    ASSUME TreeInv, Ops!CheckRestore \/ Ops!CaptureRestore \/ Ops!RestoreVerifies
    PROVE  TreeInv'
<1>1. handler.op = "restore" /\ handler.at \in {"check", "capture", "moved"}
  BY DEF Ops!CheckRestore, Ops!CaptureRestore, Ops!RestoreVerifies, Ops!At
<1>2. IsHandler(handler) /\ trees["dst"] \in Ops!Trees \cup {NoTree}
  BY NamesAre DEF TreeInv, TreeTypes
<1>3. CASE \E r : Ops!Reparked(r) BY <1>3, Looking, Ending
<1>6. CASE handler.at = "check" /\ trees["src"] = NoTree /\ Ops!Looks /\ Ops!Go("capture")
  <2>1. Quiet BY <1>6, Looking
  <2>2. /\ IsHandler(handler)' /\ handler'.op = "restore" /\ handler'.text = handler.text
        /\ handler'.at = "capture"
    BY <1>1, <1>2, <1>6, GoesIs
  <2>3. RestoreHolds'
    BY <1>1, <1>6, <2>1, <2>2 DEF RestoreHolds, Quiet, TreeInv, HandlerHolds
  <2>4. HandlerHolds' BY <1>1, <2>1, <2>2, <2>3, RestoreGoes DEF Quiet
  <2> QED BY <2>1, <2>2, <2>4, Stays
<1>4. CASE /\ handler.at = "capture" /\ trees["dst"] # NoTree /\ Ops!Looks
           /\ handler' = [handler EXCEPT !.at = "outer", !.fence = trees["dst"]]
  <2>1. Quiet BY <1>4, Looking
  <2>2. /\ IsHandler(handler)' /\ handler'.op = "restore" /\ handler'.text = handler.text
        /\ handler'.at = "outer" /\ handler'.fence = trees["dst"]
    BY <1>1, <1>2, <1>4 DEF IsHandler
  <2>3. Ops!Script(trees["dst"]) \subseteq waived /\ trees["src"] = NoTree
    BY <1>1, <1>4 DEF TreeInv, HandlerHolds, RestoreHolds
  <2>4. RestoreHolds' BY <1>4, <2>1, <2>2, <2>3 DEF RestoreHolds, Quiet
  <2>5. HandlerHolds' BY <1>1, <2>1, <2>2, <2>4, RestoreGoes DEF Quiet
  <2> QED BY <2>1, <2>2, <2>5, Stays
<1>5. CASE handler.at = "moved" /\ trees["src"] = handler.fence /\ Ops!Looks
        /\ Ops!Go("install")
  <2>1. Quiet BY <1>5, Looking
  <2>2. /\ IsHandler(handler)' /\ handler'.op = "restore" /\ handler'.text = handler.text
        /\ handler'.at = "install" /\ handler'.fence = handler.fence
    BY <1>1, <1>2, <1>5, GoesIs
  <2>3. RestoreHolds'
    BY <1>1, <1>5, <2>1, <2>2 DEF RestoreHolds, Quiet, TreeInv, HandlerHolds
  <2>4. HandlerHolds' BY <1>1, <2>1, <2>2, <2>3, RestoreGoes DEF Quiet
  <2> QED BY <2>1, <2>2, <2>4, Stays
<1> QED BY <1>3, <1>4, <1>5, <1>6
  DEF Ops!CheckRestore, Ops!CaptureRestore, Ops!RestoreVerifies, Ops!At

LEMMA RestoreWritesIs ==
    ASSUME TreeInv, Ops!RestoreWrites
    PROVE  TreeInv'
<1>1. handler.op = "restore" /\ handler.at = "install" BY DEF Ops!RestoreWrites, Ops!At
<1>2. /\ handler.fence # NoTree /\ Ops!Script(handler.fence) \subseteq waived
      /\ trees["src"] = handler.fence /\ handler.text \in waived /\ handler.text \in Numbers
  BY <1>1 DEF TreeInv, HandlerHolds, RestoreHolds, TextHolds, TreeTypes, IsHandler, Numbers
<1>3. /\ IsHandler(handler) /\ handler.fence \in Ops!Trees /\ Ops!TreesAssumption
  BY <1>2 DEF TreeInv, TreeTypes, IsHandler
<1> DEFINE w == IF handler.fence.dir THEN Ops!With(handler.fence, "old", handler.text)
                ELSE Ops!Leaf(handler.text)
           n == Ops!Source
<1>4. \/ Ops!Looks /\ Ops!Go("undo")
      \/ /\ trees' = [trees EXCEPT !["src"] = w]
         /\ Ops!Record("src", {n}, [m \in {n} |-> handler.text])
         /\ Ops!Ends("applied") /\ UNCHANGED <<backup, Ops!rest>>
  BY <1>2 DEF Ops!RestoreWrites
<1>5. CASE Ops!Looks /\ Ops!Go("undo")
  <2>1. Quiet BY <1>5, Looking
  <2>2. /\ IsHandler(handler)' /\ handler'.op = "restore" /\ handler'.text = handler.text
        /\ handler'.at = "undo" /\ handler'.fence = handler.fence
    BY <1>1, <1>3, <1>5, GoesIs
  <2>3. RestoreHolds' BY <1>2, <2>1, <2>2 DEF RestoreHolds, Quiet
  <2>4. HandlerHolds' BY <1>1, <2>1, <2>2, <2>3, RestoreGoes DEF Quiet
  <2> QED BY <2>1, <2>2, <2>4, Stays
<1>6. CASE /\ trees' = [trees EXCEPT !["src"] = w]
           /\ Ops!Record("src", {n}, [m \in {n} |-> handler.text])
           /\ Ops!Ends("applied") /\ UNCHANGED <<backup, Ops!rest>>
  <2>1. /\ UNCHANGED <<backup, waived, fresh>> /\ Saved \subseteq Saved' /\ n \in Ops!Names
    BY <1>6, NamesAre DEF Ops!rest, Ops!Record, Saved, Ops!Source
  <2>2. w \in Ops!Trees
    <3>1. CASE handler.fence.dir BY <1>2, <1>3, <3>1, NamesAre, WithIs
    <3>2. CASE ~ handler.fence.dir BY <1>2, <3>2, NewTrees
    <3> QED BY <3>1, <3>2
  <2>3. Ops!Held(trees["src"]) \subseteq Ops!Held(w) \cup Saved'
    <3>1. Ops!Script(handler.fence) \subseteq Saved' BY <1>2, <2>1 DEF Saved
    <3>2. CASE handler.fence.dir
      <4>1. Ops!Held(handler.fence)
              \subseteq Ops!Held(Ops!With(handler.fence, "old", handler.text)) \cup
                (IF Ops!Has(handler.fence, "old") THEN {handler.fence.files["old"]} ELSE {})
        <5>1. "old" \in Ops!Names BY NamesAre
        <5> HIDE DEF w, n
        <5> QED BY <1>2, <1>3, <3>2, <5>1, WithIs, SMTT(60)
      <4>2. Ops!Has(handler.fence, "old")
               => handler.fence.files["old"] \in Ops!Script(handler.fence)
        BY <1>2 DEF Ops!Has, Ops!Script
      <4>3. w = Ops!With(handler.fence, "old", handler.text) BY <3>2
      <4> HIDE DEF w
      <4> QED BY <1>2, <3>1, <4>1, <4>2, <4>3
    <3>3. CASE ~ handler.fence.dir
      <4>1. DOMAIN handler.fence.files = {"self"} BY <1>3, <3>3, TreeIs
      <4>2. Ops!Held(handler.fence) \subseteq Ops!Script(handler.fence)
        BY <1>2, <4>1 DEF Ops!Held, Ops!Script
      <4> QED BY <1>2, <3>1, <4>2
    <3> QED BY <3>2, <3>3
  <2> HIDE DEF w
  <2>4. /\ trees' \in [Ops!Places -> Ops!Trees \cup {NoTree}]
        /\ Live \cup Saved \subseteq (Live \cup Saved)'
    BY <1>6, <2>1, <2>2, <2>3, NamesAre, PutIs
  <2>5. HandlerHolds' /\ IsHandler(handler)' BY <1>6, EndsHolds DEF Ops!Ends
  <2>6. base' \in [Ops!Paths -> Nat]
          /\ \A q \in Ops!Paths : base'[q] \in vouched' \cup {0}
    BY <1>2, <1>6 DEF Ops!Record, TreeInv, TreeTypes, Numbers
  <2>7. TreeTypes' /\ Keeps BY <2>1, <2>4, <2>5, <2>6 DEF TreeInv, TreeTypes, Keeps
  <2> QED BY <2>5, <2>7, Preserved
<1> QED BY <1>4, <1>5, <1>6

LEMMA RestoreUndoesIs ==
    ASSUME TreeInv, Ops!RestoreUndoes
    PROVE  TreeInv'
<1>1. CASE \E r : Ops!Reparked(r) BY <1>1, Looking, Ending
<1>2. CASE /\ trees["dst"] = NoTree /\ Ops!Move("src", "dst") /\ Ops!Ends("restored")
           /\ UNCHANGED <<base, backup, vouched, Ops!rest>>
  <2>1. trees' \in [Ops!Places -> Ops!Trees \cup {NoTree}] /\ Live' = Live
    BY <1>2, NamesAre, MoveIs
  <2>2. UNCHANGED <<base, backup, vouched, waived, fresh>> BY <1>2 DEF Ops!rest
  <2>3. HandlerHolds' /\ IsHandler(handler)' BY <1>2, EndsHolds DEF Ops!Ends
  <2>4. TreeTypes' /\ Keeps BY <2>1, <2>2, <2>3 DEF TreeInv, TreeTypes, Keeps, Saved
  <2> QED BY <2>3, <2>4, Preserved
<1> QED BY <1>1, <1>2 DEF Ops!RestoreUndoes

-------------------------------------------------------------------------------
(* An operation arrives. *)

LEMMA ArrivesIs ==
    ASSUME TreeInv, Ops!Arrives
    PROVE  TreeInv'
<1>1. PICK op \in Ops!Ops, d \in BOOLEAN :
         /\ handler' = [Ops!Idle EXCEPT !.op = op, !.dir = d, !.text = fresh,
                          !.at = IF op = "remove" THEN "fence" ELSE "check"]
         /\ waived' = waived \cup {fresh} \cup
                         (CASE op = "remove"  -> Ops!Held(trees["src"])
                            [] op = "restore" -> Ops!Script(trees["dst"])
                            [] OTHER          -> {})
  BY DEF Ops!Arrives
<1>2. UNCHANGED <<trees, base, backup, vouched>> /\ fresh' = fresh + 1 /\ fresh \in Numbers
  BY DEF Ops!Arrives, TreeInv, TreeTypes
<1>3. /\ IsHandler(handler)' /\ handler'.op = op /\ handler'.text = fresh
      /\ handler'.at = IF op = "remove" THEN "fence" ELSE "check"
  BY <1>1, <1>2 DEF Ops!Idle, IsHandler, Numbers
<1>4. /\ waived \cup {fresh} \subseteq waived'
      /\ op = "remove" => Ops!Held(trees["src"]) \subseteq waived'
      /\ op = "restore" => Ops!Script(trees["dst"]) \subseteq waived'
  BY <1>1
<1>5. HandlerHolds'
  <2>1. RenameHolds' /\ ReplaceHolds' BY <1>3 DEF RenameHolds, ReplaceHolds
  <2>2. RemoveHolds' /\ RestoreHolds' BY <1>2, <1>3, <1>4 DEF RemoveHolds, RestoreHolds
  <2>3. TextHolds' BY <1>2, <1>3, <1>4 DEF TextHolds, Numbers
  <2> QED BY <2>1, <2>2, <2>3 DEF HandlerHolds
<1>6. TreeTypes' BY <1>2, <1>3 DEF TreeInv, TreeTypes, Numbers
<1>7. Keeps BY <1>2, <1>4 DEF Keeps, Live, Saved
<1> QED BY <1>5, <1>6, <1>7, Preserved

-------------------------------------------------------------------------------
(* The editor. *)

LEMMA EndangeredIs ==
    /\ handler.op = "rename" /\ handler.at \in {"capture", "plan", "outer"}
          => Ops!Endangered = Ops!All("dst")
    /\ handler.op = "restore" /\ handler.at = "check" => Ops!Endangered = Ops!All("dst")
    /\ handler.op = "restore" /\ handler.at = "capture"
          => Ops!Endangered = Ops!All("src") \cup Ops!All("dst")
    /\ handler.op = "rename" /\ handler.at = "final" => Ops!Endangered = {<<"dst", "new">>}
    /\ handler.op = "rename" /\ handler.at = "back" => Ops!Endangered = Ops!All("src")
    /\ handler.op = "restore" /\ handler.at \in {"outer", "install"}
          => Ops!Endangered = Ops!All("src")
    /\ handler.op \in {"delete", "transition", "remove"}
         /\ handler.at \in {"write", "files", "fence"}
          => Ops!Endangered = Ops!All("src")
    /\ handler.op = "replace" /\ handler.at \in {"write", "files"}
          => Ops!Endangered = Ops!All("src")
BY DEF Ops!Endangered, Ops!At

(* An edit of some paths leaves alone what the handler relies on. *)
LEMMA EditorHolds ==
    ASSUME TreeInv, UNCHANGED <<handler, backup>>, vouched \subseteq vouched',
           waived \subseteq waived',
           NEW paths, paths \cap Ops!Endangered = {},
           \A p \in Ops!Places : paths \cap Ops!All(p) = {} => trees'[p] = trees[p],
           \A n \in Ops!Temps : (\A p \in Ops!Places : ~ Ops!Has(trees[p], n))
                                      => \A p \in Ops!Places : ~ Ops!Has(trees'[p], n),
           <<"dst", "new">> \notin paths /\ ~ Ops!Has(trees["dst"], "new")
              => ~ Ops!Has(trees'["dst"], "new")
    PROVE  HandlerHolds'
<1> USE DEF TreeInv, HandlerHolds
<1>1. /\ Ops!Endangered = Ops!All("src") => trees'["src"] = trees["src"]
      /\ Ops!Endangered = Ops!All("dst") => trees'["dst"] = trees["dst"]
      /\ Ops!Endangered = {<<"dst", "new">>} => <<"dst", "new">> \notin paths
      /\ Ops!Endangered = Ops!All("src") \cup Ops!All("dst")
           => trees'["src"] = trees["src"] /\ trees'["dst"] = trees["dst"]
  BY NamesAre
<1>2. RenameHolds'
  <2> USE DEF RenameHolds
  <2> SUFFICES ASSUME handler.op = "rename" PROVE RenameHolds' OBVIOUS
  <2>1. /\ handler.at \in {"capture", "plan", "outer"} => trees'["dst"] = NoTree
        /\ handler.at = "final" => ~ Ops!Has(trees'["dst"], "new")
        /\ handler.at = "back" => trees'["src"] = NoTree
    BY <1>1, EndangeredIs
  <2>2. handler.at \in {"outer", "moved", "aside"} =>
           \A p \in Ops!Places : ~ Ops!Has(trees'[p], handler.temp)
    OBVIOUS
  <2> QED BY <2>1, <2>2
<1>3. RemoveHolds' BY <1>1, EndangeredIs DEF RemoveHolds, Saved
<1>4. ReplaceHolds' BY <1>1, EndangeredIs DEF ReplaceHolds
<1>5. RestoreHolds' BY <1>1, EndangeredIs DEF RestoreHolds
<1>6. TextHolds' BY DEF TextHolds
<1> QED BY <1>2, <1>3, <1>4, <1>5, <1>6

LEMMA EditIs ==
    ASSUME TreeInv, NEW p \in Ops!Places, NEW n \in Ops!Names \ Ops!Temps,
           Ops!Edits({<<p, n>>}), NEW t \in Ops!Trees \cup {NoTree},
           trees' = [trees EXCEPT ![p] = t], waived \subseteq waived',
           Ops!Held(trees[p]) \subseteq Ops!Held(t) \cup waived',
           \A m \in Ops!Names \ {n} : Ops!Has(t, m) => Ops!Has(trees[p], m),
           fresh' # fresh => fresh' = fresh + 1 /\ fresh \in Ops!Held(t)
    PROVE  TreeInv'
<1>1. /\ UNCHANGED <<base, backup, handler, vouched>>
      /\ {<<p, n>>} \cap Ops!Endangered = {}
  BY DEF Ops!Edits, TreeInv
<1>2. Saved \subseteq Saved' /\ waived' \subseteq Saved' BY <1>1 DEF Saved
<1>3. /\ trees' \in [Ops!Places -> Ops!Trees \cup {NoTree}] /\ trees'[p] = t
      /\ \A q \in Ops!Places \ {p} : trees'[q] = trees[q]
      /\ Live \cup Saved \subseteq (Live \cup Saved)'
  BY <1>2, PutIs
<1>4. HandlerHolds'
  <2>1. \A q \in Ops!Places : {<<p, n>>} \cap Ops!All(q) = {} => trees'[q] = trees[q]
    <3>1. \A q \in Ops!Places : q = p => <<p, n>> \in Ops!All(q) BY DEF Ops!All
    <3> QED BY <1>3, <3>1
  <2>2. \A m \in Ops!Names \ {n}, q \in Ops!Places :
           Ops!Has(trees'[q], m) => Ops!Has(trees[q], m)
    BY <1>3
  <2>3. \A m \in Ops!Temps : (\A q \in Ops!Places : ~ Ops!Has(trees[q], m))
                                    => \A q \in Ops!Places : ~ Ops!Has(trees'[q], m)
    BY <2>2, NamesAre
  <2>4. <<"dst", "new">> \notin {<<p, n>>} /\ ~ Ops!Has(trees["dst"], "new")
              => ~ Ops!Has(trees'["dst"], "new")
    BY <1>3, <2>2, NamesAre
  <2> DEFINE paths == {<<p, n>>}
  <2>5. /\ paths \cap Ops!Endangered = {}
        /\ \A q \in Ops!Places : paths \cap Ops!All(q) = {} => trees'[q] = trees[q]
        /\ <<"dst", "new">> \notin paths /\ ~ Ops!Has(trees["dst"], "new")
              => ~ Ops!Has(trees'["dst"], "new")
    BY <1>1, <2>1, <2>4
  <2> HIDE DEF paths
  <2> QED BY <1>1, <2>3, <2>5, EditorHolds
<1>5. Ops!Held(t) \subseteq Live' BY <1>3, NamesAre DEF Live
<1>6. Keeps BY <1>3, <1>5 DEF Keeps
<1>7. TreeTypes' BY <1>1, <1>3 DEF TreeInv, TreeTypes, Numbers
<1> QED BY <1>4, <1>6, <1>7, Preserved

LEMMA SavesIs ==
    ASSUME TreeInv, Ops!Saves
    PROVE  TreeInv'
<1>1. PICK p \in Ops!Places, n \in Ops!Names \ Ops!Temps :
        /\ Ops!Has(trees[p], n) /\ Ops!Edits({<<p, n>>})
        /\ trees' = [trees EXCEPT ![p] = Ops!With(trees[p], n, fresh)]
        /\ waived' = waived \cup {trees[p].files[n]} /\ fresh' = fresh + 1
  BY DEF Ops!Saves
<1>2. trees[p] \in Ops!Trees /\ fresh \in Numbers /\ Ops!TreesAssumption
  BY <1>1 DEF TreeInv, TreeTypes, Ops!Has
<1>3. IF trees[p].dir THEN n # "self" ELSE n = "self" BY <1>1, <1>2, TreeIs
<1> DEFINE w == Ops!With(trees[p], n, fresh)
<1>4. /\ w \in Ops!Trees /\ DOMAIN w.files = DOMAIN trees[p].files \cup {n}
      /\ fresh \in Ops!Held(w)
      /\ Ops!Held(trees[p]) \subseteq Ops!Held(w) \cup (IF Ops!Has(trees[p], n)
                                                               THEN {trees[p].files[n]} ELSE {})
  BY <1>2, <1>3, WithIs
<1>5. trees' = [trees EXCEPT ![p] = w] BY <1>1
<1> HIDE DEF w
<1>6. \A m \in Ops!Names \ {n} : Ops!Has(w, m) => Ops!Has(trees[p], m) BY <1>2, <1>4, TreeIs
<1> QED BY <1>1, <1>4, <1>5, <1>6, EditIs

LEMMA CreatesIs ==
    ASSUME TreeInv, Ops!Creates
    PROVE  TreeInv'
<1>1. PICK p \in Ops!Places, n \in Ops!Names \ Ops!Temps :
        /\ Ops!Edits({<<p, n>>}) /\ fresh' = fresh + 1 /\ UNCHANGED waived
        /\ \/ n = "self" /\ trees[p] = NoTree /\ trees' = [trees EXCEPT ![p] = Ops!Leaf(fresh)]
           \/ /\ n # "self" /\ trees[p] # NoTree /\ trees[p].dir
              /\ Ops!Missing(trees[p], n)
              /\ trees' = [trees EXCEPT ![p] = Ops!With(trees[p], n, fresh)]
  BY DEF Ops!Creates
<1>2. trees[p] \in Ops!Trees \cup {NoTree} /\ fresh \in Numbers /\ Ops!TreesAssumption
  BY <1>1 DEF TreeInv, TreeTypes
<1>3. CASE n = "self" /\ trees[p] = NoTree /\ trees' = [trees EXCEPT ![p] = Ops!Leaf(fresh)]
  <2> DEFINE w == Ops!Leaf(fresh)
  <2>1. w \in Ops!Trees /\ DOMAIN w.files = {"self"} /\ fresh \in Ops!Held(w)
    <3>1. w \in Ops!Trees /\ DOMAIN w.files = {"self"} BY <1>2, NewTrees
    <3>2. w.files["self"] = fresh BY DEF Ops!Leaf
    <3> HIDE DEF w
    <3>3. Ops!Held(w) = {w.files[m] : m \in DOMAIN w.files} BY <1>2, <3>1, TreeIs
    <3> QED BY <3>1, <3>2, <3>3
  <2>2. trees' = [trees EXCEPT ![p] = w] BY <1>3
  <2> HIDE DEF w
  <2>3. \A m \in Ops!Names \ {n} : Ops!Has(w, m) => Ops!Has(trees[p], m)
    BY <1>2, <1>3, <2>1, TreeIs
  <2>4. Ops!Held(trees[p]) = {} BY <1>3, NoneIs
  <2> QED BY <1>1, <2>1, <2>2, <2>3, <2>4, EditIs
<1>4. CASE /\ n # "self" /\ trees[p] # NoTree /\ trees[p].dir
           /\ Ops!Missing(trees[p], n)
           /\ trees' = [trees EXCEPT ![p] = Ops!With(trees[p], n, fresh)]
  <2> DEFINE w == Ops!With(trees[p], n, fresh)
  <2>1. /\ w \in Ops!Trees /\ DOMAIN w.files = DOMAIN trees[p].files \cup {n}
        /\ fresh \in Ops!Held(w)
        /\ Ops!Held(trees[p]) \subseteq Ops!Held(w) \cup (IF Ops!Has(trees[p], n)
                                                                 THEN {trees[p].files[n]}
                                                                   ELSE {})
    BY <1>2, <1>4, WithIs
  <2>2. trees' = [trees EXCEPT ![p] = w] /\ ~ Ops!Has(trees[p], n) BY <1>4 DEF Ops!Missing
  <2> HIDE DEF w
  <2>3. \A m \in Ops!Names \ {n} : Ops!Has(w, m) => Ops!Has(trees[p], m)
    BY <1>2, <1>4, <2>1, TreeIs
  <2> QED BY <1>1, <2>1, <2>2, <2>3, EditIs
<1> QED BY <1>1, <1>3, <1>4

LEMMA ErasesIs ==
    ASSUME TreeInv, Ops!Erases
    PROVE  TreeInv'
<1>1. PICK p \in Ops!Places, n \in Ops!Names \ Ops!Temps :
        /\ Ops!Has(trees[p], n) /\ Ops!Edits({<<p, n>>}) /\ UNCHANGED fresh
        /\ trees' = [trees EXCEPT ![p] = IF trees[p].dir THEN Ops!Without(trees[p], n)
                     ELSE NoTree]
        /\ waived' = waived \cup {trees[p].files[n]}
  BY DEF Ops!Erases
<1>2. trees[p] \in Ops!Trees /\ Ops!TreesAssumption BY <1>1 DEF TreeInv, TreeTypes, Ops!Has
<1> DEFINE w == IF trees[p].dir THEN Ops!Without(trees[p], n) ELSE NoTree
<1>3. /\ w \in Ops!Trees \cup {NoTree}
      /\ Ops!Held(trees[p]) \subseteq Ops!Held(w) \cup {trees[p].files[n]}
      /\ \A m \in Ops!Names \ {n} : Ops!Has(w, m) => Ops!Has(trees[p], m)
  <2>1. CASE trees[p].dir
    <3> DEFINE v == Ops!Without(trees[p], n)
    <3>1. /\ v \in Ops!Trees /\ DOMAIN v.files = DOMAIN trees[p].files \ {n}
          /\ Ops!Held(trees[p]) \subseteq Ops!Held(v) \cup {trees[p].files[n]}
      BY <1>1, <1>2, <2>1, WithoutIs
    <3>2. w = v BY <2>1
    <3> HIDE DEF v, w
    <3> QED BY <1>2, <3>1, <3>2, TreeIs
  <2>2. CASE ~ trees[p].dir
    <3>1. Ops!Held(trees[p]) \subseteq {trees[p].files[n]} BY <1>1, <1>2, <2>2, TreeIs
    <3> QED BY <2>2, <3>1, NoneIs
  <2> QED BY <2>1, <2>2
<1>4. trees' = [trees EXCEPT ![p] = w] BY <1>1
<1> HIDE DEF w
<1> QED BY <1>1, <1>3, <1>4, EditIs

LEMMA RenamesIs ==
    ASSUME TreeInv, Ops!Renames
    PROVE  TreeInv'
<1> DEFINE paths == Ops!All("src") \cup Ops!All("dst")
<1>1. PICK p \in Ops!Places, q \in Ops!Places :
        p # q /\ trees[p] # NoTree /\ trees[q] = NoTree /\ Ops!Move(p, q)
  BY DEF Ops!Renames
<1>2. /\ UNCHANGED <<base, backup, handler, vouched, waived, fresh>>
      /\ paths \cap Ops!Endangered = {}
  BY DEF Ops!Renames, Ops!Edits, TreeInv
<1>3. /\ trees' \in [Ops!Places -> Ops!Trees \cup {NoTree}] /\ Live' = Live
      /\ trees'[q] = trees[p] /\ trees'[p] = NoTree
  BY <1>1, MoveIs
<1>4. HandlerHolds'
  <2>1. /\ \A r \in Ops!Places : paths \cap Ops!All(r) # {}
        /\ <<"dst", "new">> \in paths
    <3>1. <<"src", "new">> \in Ops!All("src") /\ <<"dst", "new">> \in Ops!All("dst")
      BY NamesAre DEF Ops!All
    <3> QED BY <3>1, NamesAre
  <2>2. \A m \in Ops!Temps : (\A r \in Ops!Places : ~ Ops!Has(trees[r], m))
                                    => \A r \in Ops!Places : ~ Ops!Has(trees'[r], m)
    BY <1>1, <1>3, NamesAre, NoneIs
  <2> HIDE DEF paths
  <2> QED BY <1>2, <2>1, <2>2, EditorHolds
<1>5. TreeTypes' /\ Keeps BY <1>2, <1>3 DEF TreeInv, TreeTypes, Keeps, Saved
<1> QED BY <1>4, <1>5, Preserved

LEMMA SyncsIs ==
    ASSUME TreeInv, Ops!Syncs
    PROVE  TreeInv'
<1>1. /\ UNCHANGED <<trees, backup, handler, waived, fresh>>
      /\ vouched' = vouched \cup Ops!Held(trees["src"]) \cup Ops!Held(trees["dst"])
      /\ base' = [q \in Ops!Paths |-> IF Ops!Has(trees[q[1]], q[2])
                                          THEN trees[q[1]].files[q[2]] ELSE 0]
  BY DEF Ops!Syncs
<1>2. HandlerHolds'
  <2>1. {} \cap Ops!Endangered = {} OBVIOUS
  <2> QED BY <1>1, <2>1, EditorHolds
<1>3. base' \in [Ops!Paths -> Nat]
        /\ \A q \in Ops!Paths : base'[q] \in vouched' \cup {0}
  <2>1. ASSUME NEW p \in Ops!Places, NEW n, Ops!Has(trees[p], n)
        PROVE  trees[p].files[n] \in Nat /\ trees[p].files[n] \in vouched'
    <3>1. trees[p] \in Ops!Trees /\ Ops!TreesAssumption
      BY <2>1 DEF TreeInv, TreeTypes, Ops!Has
    <3>2. trees[p].files[n] \in Numbers /\ trees[p].files[n] \in Ops!Held(trees[p])
      BY <2>1, <3>1, TreeIs
    <3> QED BY <1>1, <3>2, NamesAre DEF Numbers
  <2>2. \A q \in Ops!Paths : q[1] \in Ops!Places BY DEF Ops!Paths
  <2> QED BY <1>1, <2>1, <2>2
<1>4. TreeTypes' /\ Keeps BY <1>1, <1>2, <1>3 DEF TreeInv, TreeTypes, Keeps, Live, Saved
<1> QED BY <1>2, <1>4, Preserved

-------------------------------------------------------------------------------
LEMMA HeldCounted ==
    ASSUME Ops!TreesAssumption, NEW t \in Ops!Trees
    PROVE  Cardinality(Ops!Held(t)) \in Nat
<1>1. IsFiniteSet({"old"} \cup {"new"} \cup {"temp 1"} \cup {"temp 2"} \cup {"child"} \cup {"self"})
  BY FS_Singleton, FS_Union
<1>2. IsFiniteSet(Ops!Names)
  <2>1. Ops!Names = {"old"} \cup {"new"} \cup {"temp 1"} \cup {"temp 2"} \cup {"child"} \cup {"self"}
    BY NamesAre
  <2> QED BY <1>1, <2>1
<1> DEFINE values == {t.files[n] : n \in DOMAIN t.files}
<1>3. IsFiniteSet(DOMAIN t.files) BY <1>2, TreeIs, FS_Subset
<1>4. IsFiniteSet(values)
  <2> DEFINE read == [n \in DOMAIN t.files |-> t.files[n]]
  <2>1. read \in Surjection(DOMAIN t.files, values) BY DEF Surjection
  <2> HIDE DEF values, read
  <2> QED BY <1>3, <2>1, FS_Surjection
<1>5. Ops!Held(t) = values BY TreeIs
<1> HIDE DEF values
<1> QED BY <1>4, <1>5, FS_CardinalityType

LEMMA TreeStarts ==
    ASSUME Ops!TreesAssumption, ~ LateEdits, Ops!Init
    PROVE  TreeInv
<1>1. PICK t \in AtStart : trees = [p \in Ops!Places |-> IF p = "src" THEN t ELSE NoTree]
  BY DEF Ops!Init
<1>2. t \in Ops!Trees /\ trees["src"] = t BY <1>1, NamesAre, StartsAre
<1> DEFINE k == Cardinality(Ops!Held(t))
<1>3. Ops!Held(t) = 1..k BY TreeCounted, StartsAre
<1>4. k \in Nat BY <1>2, HeldCounted
<1>5. fresh = 1 + k BY <1>2, TreeCounted DEF Ops!Init
<1> HIDE DEF k
<1>6. Ops!UserKept BY <1>2, <1>3, <1>4, <1>5 DEF Ops!UserKept
<1>7. base \in [Ops!Paths -> Nat] /\ \A q \in Ops!Paths : base[q] \in vouched \cup {0}
  <2>1. \A n : Ops!Has(t, n) => t.files[n] \in Nat BY <1>2, TreeIs DEF Numbers
  <2>2. base = [q \in Ops!Paths |->
                  IF q[1] = "src" /\ Ops!Has(t, q[2]) /\ t.files[q[2]] \in vouched
                  THEN t.files[q[2]] ELSE 0]
    BY <1>2 DEF Ops!Init
  <2> QED BY <2>1, <2>2
<1>8. TreeTypes
  <2>1. trees \in [Ops!Places -> Ops!Trees \cup {NoTree}] BY <1>1, <1>2
  <2>2. IsHandler(handler) BY DEF Ops!Init, Ops!Idle, IsHandler
  <2> QED BY <1>4, <1>5, <1>7, <2>1, <2>2 DEF TreeTypes, Numbers
<1>9. HandlerHolds
  <2>1. handler.op = "none" /\ handler.at = "idle" BY DEF Ops!Init, Ops!Idle
  <2> QED BY <2>1 DEF HandlerHolds, RenameHolds, RemoveHolds, ReplaceHolds, RestoreHolds,
     TextHolds, Ops!Removing
<1> QED BY <1>6, <1>8, <1>9 DEF TreeInv

LEMMA TreeStep ==
    ASSUME TreeInv, [Ops!Next]_Ops!vars
    PROVE  TreeInv'
<1>1. CASE Ops!Arrives BY <1>1, ArrivesIs
<1>2. CASE Ops!Rename
  BY <1>2, RenameStarts, RenameLooks, RenameMoves, RenameInits, RenameRebases DEF Ops!Rename
<1>3. CASE Ops!Remove
  BY <1>3, RemoveChecks, Backups, BackupCopies, RemovalFences, RemovesFile, RemovesRest,
     WritesDirectory, WritesFile, WriteEnds DEF Ops!Remove
<1>4. CASE Ops!Restore
  BY <1>4, RestoreLooks, RestoreMovesIs, RestoreWritesIs, RestoreUndoesIs DEF Ops!Restore
<1>5. CASE Ops!Editor
  BY <1>5, SavesIs, CreatesIs, ErasesIs, RenamesIs, SyncsIs DEF Ops!Editor
<1>6. CASE UNCHANGED Ops!vars
  <2>1. Quiet /\ UNCHANGED handler BY <1>6 DEF Ops!vars, Quiet
  <2>2. HandlerHolds' /\ IsHandler(handler)'
    BY <2>1 DEF TreeInv, TreeTypes, HandlerHolds, RenameHolds, RemoveHolds, ReplaceHolds,
       RestoreHolds, TextHolds, Quiet, Saved
  <2> QED BY <2>1, <2>2, Stays
<1> QED BY <1>1, <1>2, <1>3, <1>4, <1>5, <1>6 DEF Ops!Next

(* Whatever an operation on a tree does, and whatever fails, what the user has written is on
   the disk or in a backup, was a baseline, or was given up by the user. *)
THEOREM UserWorkIsKept ==
    Ops!TreesAssumption /\ ~ LateEdits => (Ops!Spec => []Ops!UserKept)
<1> SUFFICES ASSUME Ops!TreesAssumption, ~ LateEdits
    PROVE Ops!Spec => []Ops!UserKept
  OBVIOUS
<1>1. Ops!Init => TreeInv BY TreeStarts
<1>2. TreeInv /\ [Ops!Next]_Ops!vars => TreeInv' BY TreeStep
<1>3. TreeInv => Ops!UserKept BY DEF TreeInv
<1> QED BY <1>1, <1>2, <1>3, PTL DEF Ops!Spec

-------------------------------------------------------------------------------
(* What is true of an operation that no editor has met. *)

Was  == before["src"]
Goal == IF Ops!InitsOf(Was) = {"old"} THEN Ops!Renamed(Was, "old", "new") ELSE Was
MovedTo(t) == trees["src"] = NoTree /\ trees["dst"] = t

RenameKnown ==
    /\ handler.at # "check" =>
          /\ Was # NoTree /\ before["dst"] = NoTree
          /\ handler.script <=> Ops!InitsOf(Was) # {}
    /\ handler.at \notin {"check", "capture"} => handler.fence = Was
    /\ handler.at \notin {"check", "capture", "plan"} =>
          /\ handler.plan <=> Ops!InitsOf(Was) = {"old"}
          /\ handler.temp \in Ops!Temps /\ ~ Ops!Has(Was, handler.temp)

RenameReached ==
    /\ handler.at \in {"check", "capture", "plan", "outer", "undone"} => trees = before
    /\ handler.at \in {"moved", "aside", "again", "back"} => MovedTo(Was)
    /\ handler.at \in {"aside", "look", "final", "verify"} => handler.plan
    /\ handler.at \in {"look", "final"} => MovedTo(Ops!Renamed(Was, "old", handler.temp))
    /\ handler.at = "verify" => MovedTo(Ops!Renamed(Was, "old", "new"))
    /\ handler.at \in {"forget", "seed"} => MovedTo(Goal)
    /\ handler.at = "seed" => Ops!Nobody("src")
    /\ handler.at \in {"undo", "init"} =>
          /\ MovedTo(Ops!Staged(handler.stage))
          /\ handler.stage = "old" \/ (handler.plan /\ handler.stage \in {handler.temp, "new"})
    /\ handler.at \in {"undo", "init", "again", "back", "undone"} => spent > 0

RenameReports == handler.op = "rename" => RenameKnown /\ RenameReached

RemoveReports ==
    handler.op \in Ops!Removing =>
        /\ handler.at \in {"check", "match", "backup", "copy"} => trees = before
        /\ handler.op # "transition" /\ handler.at = "fence" => trees = before
        /\ handler.op = "transition" /\ handler.at = "match" => trees["dst"] = NoTree
        /\ handler.op # "replace" => ~ handler.fenced
        /\ handler.at = "entries" =>
              /\ trees["src"] # NoTree /\ DOMAIN trees["src"].files = handler.todo
              /\ \A n \in handler.todo : trees["src"].files[n] = handler.fence.files[n]
        /\ handler.at = "gone" => trees["src"] = NoTree
        /\ handler.op = "transition" /\ handler.at \in {"fence", "entries", "gone"} =>
              trees["dst"] # NoTree
        /\ handler.op = "replace" /\ handler.at = "copy" => handler.fence = Was
        /\ handler.op = "replace" /\ handler.at \in {"fence", "entries", "write", "files"} =>
              Ops!Held(Was) \subseteq backup

WriteReports ==
    handler.op \in {"transition", "replace"} =>
        /\ handler.op = "transition" /\ handler.at \in {"write", "files"} => trees["src"] = Was
        /\ handler.at = "write" => LET t == trees[Ops!Target] IN
              t = NoTree \/ (handler.op = "transition" /\ t.dir = handler.dir)
        /\ handler.at = "files" => LET t == trees[Ops!Target] IN
              /\ handler.dir => t # NoTree
              /\ t = NoTree => handler.todo = {"self"}
              /\ t # NoTree => t.dir = handler.dir
              /\ handler.op = "replace" /\ t # NoTree => Ops!Based("src")

RestoreReports ==
    handler.op = "restore" =>
        /\ handler.at \in {"check", "capture", "outer"} => trees = before
        /\ handler.at = "capture" => before["src"] = NoTree
        /\ handler.at \notin {"check", "capture"} =>
              before["src"] = NoTree /\ before["dst"] = handler.fence /\ handler.fence # NoTree
        /\ handler.at \in {"moved", "install", "undo"} =>
              trees["src"] = handler.fence /\ trees["dst"] = NoTree
        /\ handler.at = "undo" => spent > 0

(* What an answer says, until the next operation or the next edit. *)
Told(result) ==
    CASE result \in {"nothing", "refused", "restored"} -> trees = before
      [] result = "conflict" -> trees["src"] = before["src"] /\ parked # {}
      [] result = "applied"  ->
           /\ reported.op \in Ops!Ops /\ Ops!Applied
           /\ reported.op = "replace" => trees["src"] # NoTree
      [] result = "left"     -> spent > 1
      [] result \in {"partial", "late"} -> spent > 0
      [] OTHER -> TRUE

ReportInv ==
    /\ before \in [Ops!Places -> Ops!Trees \cup {NoTree}] /\ spent \in Nat
    /\ ~ touched /\ handler.at # "idle" =>
          RenameReports /\ RemoveReports /\ WriteReports /\ RestoreReports
    /\ ~ touched /\ handler.at = "idle" /\ reported # NoTree => Told(reported.result)


-------------------------------------------------------------------------------
(* Trees that are equal. *)

LEMMA PlacesEqual ==
    ASSUME NEW S, NEW f \in [Ops!Places -> S], NEW g \in [Ops!Places -> S],
           f["src"] = g["src"], f["dst"] = g["dst"]
    PROVE  f = g
<1>1. \A p \in Ops!Places : f[p] = g[p] BY NamesAre
<1> QED BY <1>1

LEMMA RenamedAs ==
    ASSUME Ops!TreesAssumption, NEW t \in Ops!Trees, NEW a, NEW b \in Ops!Names,
           Ops!Has(t, a), a # "self", b # "self", a # b
    PROVE  Ops!Renamed(t, a, b) =
             [dir |-> t.dir,
              files |-> [m \in (DOMAIN t.files \ {a}) \cup {b} |->
                           IF m = b THEN t.files[a] ELSE t.files[m]]]
<1> DEFINE v == Ops!Without(t, a)
           g == [m \in (DOMAIN t.files \ {a}) \cup {b} |-> IF m = b THEN t.files[a]
                 ELSE t.files[m]]
<1>1. t.dir /\ a \in DOMAIN t.files BY TreeIs
<1>2. /\ v \in Ops!Trees /\ v.dir = t.dir /\ DOMAIN v.files = DOMAIN t.files \ {a}
      /\ \A m \in DOMAIN t.files \ {a} : v.files[m] = t.files[m]
  BY <1>1, WithoutIs, TreeIs
<1>3. Ops!Renamed(t, a, b) = Ops!With(v, b, t.files[a]) BY DEF Ops!Renamed
<1> HIDE DEF v
<1>4. Ops!With(v, b, t.files[a]) =
        [dir |-> v.dir, files |-> [m \in DOMAIN v.files \cup {b} |->
                                     IF m = b THEN t.files[a] ELSE v.files[m]]]
  BY <1>2, Refiled DEF Ops!With
<1>5. [m \in DOMAIN v.files \cup {b} |-> IF m = b THEN t.files[a] ELSE v.files[m]] = g
  BY <1>2
<1> QED BY <1>2, <1>3, <1>4, <1>5

LEMMA RenamedTwice ==
    ASSUME Ops!TreesAssumption, NEW t \in Ops!Trees, NEW a \in Ops!Names,
           NEW b \in Ops!Names,
           NEW c \in Ops!Names, Ops!Has(t, a), ~ Ops!Has(t, b),
           a # "self", b # "self", c # "self", a # b, b # c
    PROVE  /\ c # a => Ops!Renamed(Ops!Renamed(t, a, b), b, c) = Ops!Renamed(t, a, c)
           /\ c = a => Ops!Renamed(Ops!Renamed(t, a, b), b, c) = t
<1> DEFINE w == Ops!Renamed(t, a, b)
           g == [m \in (DOMAIN t.files \ {a}) \cup {b} |-> IF m = b THEN t.files[a]
                 ELSE t.files[m]]
           h == [m \in (DOMAIN w.files \ {b}) \cup {c} |-> IF m = c THEN w.files[b]
                 ELSE w.files[m]]
           k == [m \in (DOMAIN t.files \ {a}) \cup {c} |-> IF m = c THEN t.files[a]
                 ELSE t.files[m]]
<1>1. w \in Ops!Trees /\ w = [dir |-> t.dir, files |-> g]
  BY ZenonT(60), RenamedIs, RenamedAs
<1>2. a \in DOMAIN t.files /\ b \notin DOMAIN t.files /\ Ops!Has(w, b) BY <1>1, TreeIs
<1>3. w.dir = t.dir /\ w.files = g BY <1>1
<1> HIDE DEF w
<1>4. Ops!Renamed(w, b, c) = [dir |-> t.dir, files |-> h]
  <2>1. Ops!Renamed(w, b, c) = [dir |-> w.dir, files |-> h]
    BY ZenonT(60), <1>1, <1>2, RenamedAs
  <2> QED BY <2>1, <1>3, Zenon
<1>5. h = k BY <1>2, <1>3
<1>6. c # a => Ops!Renamed(t, a, c) = [dir |-> t.dir, files |-> k] BY RenamedAs
<1>7. c = a => k = [m \in DOMAIN t.files |-> t.files[m]] BY <1>2
<1>8. t = [dir |-> t.dir, files |-> t.files] /\ t.files = [m \in DOMAIN t.files |-> t.files[m]]
  <2>1. t.files \in [DOMAIN t.files -> Numbers] BY TreesAre DEF Numbers
  <2> QED BY <2>1, TreeIs
<1> QED BY <1>4, <1>5, <1>6, <1>7, <1>8 DEF w

-------------------------------------------------------------------------------
(* Steps and answers. *)

Observed ==
    /\ UNCHANGED <<before, touched>> /\ spent' \in Nat /\ spent' >= spent
    /\ Ops!Fault => spent' > spent

LEMMA RenameObserves ==
    ASSUME ReportInv, Ops!Rename
    PROVE  Observed
<1>1. UNCHANGED <<before, touched>> /\ (Ops!Fault \/ Ops!NoFault)
  BY DEF Ops!Rename, Ops!CheckRename, Ops!CaptureRename, Ops!PlanRename, Ops!Outer,
     Ops!VerifyMoved, Ops!InitAside, Ops!InitDestination, Ops!InitFinal, Ops!FinalVerify,
     Ops!UndoVerify, Ops!UndoInit, Ops!UndoVerifyAgain, Ops!UndoOuter, Ops!UndoChecked,
     Ops!Rebase, Ops!Seed, Ops!Looks, Ops!Writes, Ops!rest, Ops!Fails
<1> QED BY <1>1 DEF Observed, Ops!Fault, Ops!NoFault, ReportInv

LEMMA RemoveObserves ==
    ASSUME ReportInv, Ops!Remove
    PROVE  Observed
<1>1. UNCHANGED <<before, touched>> /\ (Ops!Fault \/ Ops!NoFault)
  BY DEF Ops!Remove, Ops!CheckDelete, Ops!CheckTransition, Ops!CheckReplace,
     Ops!MatchBaselines, Ops!BackupCapture, Ops!BackupCopy, Ops!BackupVerify,
     Ops!RemovalFence, Ops!RemoveFile, Ops!RemoveDirectory, Ops!ForgetRemoved,
     Ops!WriteDirectory, Ops!WriteFile, Ops!Written, Ops!Stops, Ops!Looks, Ops!Writes,
     Ops!rest, Ops!Fails
<1> QED BY <1>1 DEF Observed, Ops!Fault, Ops!NoFault, ReportInv

LEMMA RestoreObserves ==
    ASSUME ReportInv, Ops!Restore
    PROVE  Observed
<1>1. UNCHANGED <<before, touched>> /\ (Ops!Fault \/ Ops!NoFault)
  BY DEF Ops!Restore, Ops!CheckRestore, Ops!CaptureRestore, Ops!RestoreMoves,
     Ops!RestoreVerifies, Ops!RestoreWrites, Ops!RestoreUndoes, Ops!Reparked, Ops!Looks, Ops!Writes, Ops!rest,
     Ops!Fails
<1> QED BY <1>1 DEF Observed, Ops!Fault, Ops!NoFault, ReportInv

LEMMA ReportEnds ==
    ASSUME ReportInv, Observed, NEW result, Ops!Ends(result), ~ touched => Told(result)'
    PROVE  ReportInv'
<1>1. handler'.at = "idle" /\ reported'.result = result BY DEF Ops!Ends, Ops!Idle
<1>2. ~ touched' => (Told(reported.result))' BY <1>1 DEF Observed, Told
<1> QED BY <1>1, <1>2 DEF ReportInv, Observed

LEMMA ReportRefused ==
    ASSUME ReportInv, Observed, NEW result \in {"nothing", "refused"}, Ops!Ends(result),
           trees' = trees, ~ touched => trees = before
    PROVE  ReportInv'
<1>1. ~ touched => Told(result)' BY DEF Told, Observed
<1> QED BY <1>1, ReportEnds

LEMMA ReportFailed ==
    ASSUME ReportInv, Observed, NEW result \in {"left", "partial", "late"},
           Ops!Ends(result),
           ~ touched => spent' > 0 /\ (result = "left" => spent' > 1)
    PROVE  ReportInv'
<1>1. ~ touched => Told(result)' BY DEF Told
<1> QED BY <1>1, ReportEnds

-------------------------------------------------------------------------------
(* What a renaming answers. *)

LEMMA RenameReported ==
    ASSUME ReportInv, Observed, handler'.op = "rename", handler'.at # "idle",
           ~ touched => RenameReports'
    PROVE  ReportInv'
BY DEF ReportInv, Observed, RemoveReports, WriteReports, RestoreReports, Ops!Removing

LEMMA RenameStartsReport ==
    ASSUME TreeInv, ReportInv, Ops!CheckRename \/ Ops!CaptureRename
             \/ Ops!PlanRename
    PROVE  ReportInv'
<1>1. Observed BY RenameObserves DEF Ops!Rename
<1>2. Quiet /\ handler.op = "rename" /\ handler.at \in {"check", "capture", "plan"}
  BY Looking DEF Ops!CheckRename, Ops!CaptureRename, Ops!PlanRename, Ops!At
<1>3. ~ touched => trees = before /\ RenameReports
  BY <1>2 DEF ReportInv, RenameReports, RenameReached
<1>4. CASE Ops!Ends("refused") \/ Ops!Ends("nothing")
  BY <1>1, <1>2, <1>3, <1>4, ReportRefused DEF Quiet
<1>5. CASE /\ handler.at = "check" /\ trees["src"] # NoTree /\ trees["dst"] = NoTree
           /\ handler' = [handler EXCEPT !.at = "capture",
                          !.script = Ops!InitsOf(trees["src"]) # {}]
  <2>1. /\ handler'.op = "rename" /\ handler'.at = "capture"
        /\ handler'.script = (Ops!InitsOf(trees["src"]) # {})
    BY <1>2, <1>5 DEF IsHandler, TreeInv, TreeTypes
  <2>2. ~ touched => RenameReports'
    BY <1>1, <1>2, <1>3, <1>5, <2>1 DEF RenameReports, RenameKnown, RenameReached, Was,
       Quiet, Observed
  <2> QED BY <1>1, <2>1, <2>2, RenameReported
<1>6. CASE /\ handler.at = "capture"
           /\ handler' = [handler EXCEPT !.at = "plan", !.fence = trees["src"]]
  <2>1. /\ handler'.op = "rename" /\ handler'.at = "plan" /\ handler'.fence = trees["src"]
        /\ handler'.script = handler.script
    BY <1>2, <1>6 DEF IsHandler, TreeInv, TreeTypes
  <2>2. ~ touched => RenameReports'
    BY <1>1, <1>2, <1>3, <1>6, <2>1 DEF RenameReports, RenameKnown, RenameReached, Was,
       Quiet, Observed
  <2> QED BY <1>1, <2>1, <2>2, RenameReported
<1>7. ASSUME NEW n \in Ops!Temps, Ops!Missing(trees["src"], n), handler.at = "plan",
             handler' = [handler EXCEPT !.at = "outer", !.temp = n,
                 !.plan = handler.script /\ Ops!InitsOf(trees["src"]) = {"old"}]
      PROVE  ReportInv'
  <2>1. /\ handler'.op = "rename" /\ handler'.at = "outer" /\ handler'.fence = handler.fence
        /\ handler'.script = handler.script /\ handler'.temp = n
        /\ handler'.plan = (handler.script /\ Ops!InitsOf(trees["src"]) = {"old"})
    BY <1>2, <1>7 DEF IsHandler, TreeInv, TreeTypes
  <2>2. ~ touched => /\ Was # NoTree /\ before["dst"] = NoTree /\ handler.fence = Was
                     /\ (handler.script <=> Ops!InitsOf(Was) # {})
    BY <1>3, <1>2, <1>7 DEF RenameReports, RenameKnown
  <2>3. ~ touched => RenameReports'
    BY <1>1, <1>2, <1>3, <1>7, <2>1, <2>2 DEF RenameReports, RenameKnown, RenameReached,
       Was, Quiet, Observed, Ops!Missing
  <2> QED BY <1>1, <2>1, <2>3, RenameReported
<1>8. CASE Ops!CheckRename BY <1>8, <1>4, <1>5 DEF Ops!CheckRename, Ops!At
<1>9. CASE Ops!CaptureRename BY <1>9, <1>4, <1>6 DEF Ops!CaptureRename, Ops!At
<1>10. CASE Ops!PlanRename BY <1>10, <1>4, <1>7 DEF Ops!PlanRename, Ops!At
<1> QED BY <1>8, <1>9, <1>10

LEMMA RenameGoesOn ==
    ASSUME TreeInv, ReportInv, Observed, handler.op = "rename",
           handler.at \notin {"idle", "check", "capture", "plan"},
           handler'.op = "rename", handler'.at \notin {"idle", "check", "capture", "plan"},
           UNCHANGED <<handler.script, handler.plan, handler.fence, handler.temp>>,
           ~ touched => RenameReached'
    PROVE  ReportInv'
<1>1. ~ touched => RenameKnown BY DEF ReportInv, RenameReports
<1>2. ~ touched => RenameKnown' BY <1>1 DEF RenameKnown, Was, Observed
<1> QED BY <1>2, RenameReported DEF RenameReports

LEMMA RenameIs ==
    ASSUME TreeInv, ReportInv, handler.op = "rename", ~ touched,
           handler.at \notin {"idle", "check", "capture", "plan"}
    PROVE  /\ RenameReached /\ Was \in Ops!Trees /\ before["dst"] = NoTree /\ handler.fence = Was
           /\ handler.plan <=> Ops!InitsOf(Was) = {"old"}
           /\ handler.temp \in Ops!Temps /\ ~ Ops!Has(Was, handler.temp)
           /\ handler.plan => Ops!Has(Was, "old") /\ ~ Ops!Has(Was, "new")
           /\ Ops!Staged("old") = Was
           /\ \A stage : stage # "old" =>
                Ops!Staged(stage) = Ops!Renamed(Was, "old", stage)
<1>1. RenameKnown /\ RenameReached BY DEF ReportInv, RenameReports
<1>2. Was \in Ops!Trees BY <1>1, NamesAre DEF RenameKnown, Was, ReportInv
<1>3. Ops!InitsOf(Was) = {"old"} => Ops!Has(Was, "old") /\ ~ Ops!Has(Was, "new")
  BY ZenonT(60), <1>2, NamesAre, TreeIs DEF TreeInv, Ops!InitsOf
<1> QED BY <1>1, <1>2, <1>3 DEF RenameKnown, Ops!Staged

LEMMA StagedStays ==
    ASSUME UNCHANGED handler.fence
    PROVE  \A stage : Ops!Staged(stage)' = Ops!Staged(stage)
BY DEF Ops!Staged

LEMMA RenameRollsBackReport ==
    ASSUME TreeInv, ReportInv, Observed, Quiet, handler.op = "rename",
           handler.at \notin {"idle", "check", "capture", "plan"},
           NEW stage, Ops!RollBack(stage),
           ~ touched => /\ MovedTo(Ops!Staged(stage)) /\ spent' > 0
                        /\ stage = "old" \/ (handler.plan /\ stage \in {handler.temp, "new"})
    PROVE  ReportInv'
<1>1. /\ handler'.op = "rename" /\ handler'.at = "undo" /\ handler'.stage = stage
      /\ UNCHANGED <<handler.script, handler.plan, handler.fence, handler.temp>>
  BY DEF Ops!RollBack, IsHandler, TreeInv, TreeTypes
<1>2. Ops!Staged(stage)' = Ops!Staged(stage) BY <1>1, StagedStays
<1>3. ~ touched => MovedTo(Ops!Staged(handler.stage))' BY <1>1, <1>2 DEF MovedTo, Quiet
<1>4. ~ touched => RenameReached' BY <1>1, <1>3 DEF RenameReached
<1> QED BY <1>1, <1>4, RenameGoesOn

LEMMA RenameLooksReport ==
    ASSUME TreeInv, ReportInv, Ops!VerifyMoved \/ Ops!InitDestination
             \/ Ops!FinalVerify
    PROVE  ReportInv'
<1>1. Observed BY RenameObserves DEF Ops!Rename
<1>2. Quiet /\ handler.op = "rename" /\ handler.at \in {"moved", "look", "verify"}
  BY Looking DEF Ops!VerifyMoved, Ops!InitDestination, Ops!FinalVerify, Ops!At
<1>3. IsHandler(handler) /\ Ops!TreesAssumption BY DEF TreeInv, TreeTypes
<1>4. ASSUME NEW place \in {"aside", "forget", "final"}, Ops!Go(place), ~ touched =>
        RenameReached'
      PROVE  ReportInv'
  <2>1. /\ handler'.op = "rename" /\ handler'.at = place
        /\ UNCHANGED <<handler.script, handler.plan, handler.fence, handler.temp>>
    BY <1>2, <1>3, <1>4, GoesIs
  <2> QED BY <1>1, <1>2, <1>4, <2>1, RenameGoesOn
<1>5. CASE Ops!VerifyMoved
  <2>1. handler.at = "moved" BY <1>5 DEF Ops!VerifyMoved, Ops!At
  <2>2. ~ touched => MovedTo(Was) /\ Ops!Staged("old") = Was /\ handler.fence = Was
    BY <1>2, <2>1, RenameIs DEF RenameReached
  <2>3. CASE Ops!Fails(trees["dst"] # handler.fence) /\ Ops!RollBack("old")
    <3>1. ~ touched => spent' > 0
      BY <1>1, <2>2, <2>3 DEF Ops!Fails, Observed, ReportInv, MovedTo
    <3> QED BY <1>1, <1>2, <2>2, <2>3, <3>1, RenameRollsBackReport
  <2>4. CASE Ops!Go(IF handler.plan THEN "aside" ELSE "forget")
    <3>1. /\ handler'.at = IF handler.plan THEN "aside" ELSE "forget"
          /\ handler'.plan = handler.plan
      BY <1>3, <2>4, GoesIs
    <3>2. ~ touched => (handler.plan <=> Ops!InitsOf(Was) = {"old"}) BY <1>2, RenameIs
    <3>3. ~ touched => MovedTo(Was)' /\ (~ handler.plan => MovedTo(Goal)')
      BY <1>1, <1>2, <2>2, <3>2 DEF MovedTo, Was, Goal, Quiet, Observed
    <3>4. ~ touched => RenameReached' BY <3>1, <3>3 DEF RenameReached
    <3> QED BY <1>4, <2>4, <3>4
  <2> QED BY <1>5, <2>3, <2>4 DEF Ops!VerifyMoved
<1>6. CASE Ops!InitDestination
  <2>1. handler.at = "look" BY <1>6 DEF Ops!InitDestination, Ops!At
  <2>2. ~ touched => /\ MovedTo(Ops!Renamed(Was, "old", handler.temp)) /\ handler.plan
                     /\ Was \in Ops!Trees /\ handler.temp \in Ops!Temps
                     /\ Ops!Has(Was, "old") /\ ~ Ops!Has(Was, "new")
                     /\ Ops!Staged(handler.temp) = Ops!Renamed(Was, "old", handler.temp)
    BY <1>2, <2>1, RenameIs, NamesAre DEF RenameReached
  <2>3. CASE Ops!Fails(Ops!Has(trees["dst"], "new")) /\ Ops!RollBack(handler.temp)
    <3>1. ~ touched => ~ Ops!Has(trees["dst"], "new")
      <4> SUFFICES ASSUME ~ touched PROVE ~ Ops!Has(trees["dst"], "new") OBVIOUS
      <4> DEFINE w == Ops!Renamed(Was, "old", handler.temp)
      <4>1. w \in Ops!Trees
              /\ DOMAIN w.files = (DOMAIN Was.files \ {"old"}) \cup {handler.temp}
        <5>1. /\ handler.temp \in Ops!Names
              /\ handler.temp # "self" /\ handler.temp # "old"
          BY <2>2, NamesAre
        <5> QED BY <1>3, <2>2, <5>1, RenamedIs
      <4>2. trees["dst"] = w BY <2>2 DEF MovedTo
      <4> HIDE DEF w
      <4>3. "new" \notin DOMAIN Was.files /\ handler.temp # "new"
        BY <1>3, <2>2, NamesAre, TreeIs
      <4> QED BY <1>3, <4>1, <4>2, <4>3, TreeIs
    <3>2. ~ touched => spent' > 0 BY <1>1, <2>3, <3>1 DEF Ops!Fails, Observed, ReportInv
    <3> QED BY <1>1, <1>2, <2>2, <2>3, <3>2, RenameRollsBackReport
  <2>4. CASE Ops!Go("final")
    <3>1. handler'.at = "final" /\ handler'.plan = handler.plan /\ handler'.temp = handler.temp
      BY <1>3, <2>4, GoesIs
    <3>2. ~ touched => MovedTo(Ops!Renamed(Was, "old", handler.temp))'
      BY <1>1, <1>2, <2>2, <3>1 DEF MovedTo, Was, Quiet, Observed
    <3>3. ~ touched => RenameReached' BY <2>2, <3>1, <3>2 DEF RenameReached
    <3> QED BY <1>4, <2>4, <3>3
  <2> QED BY <1>6, <2>3, <2>4 DEF Ops!InitDestination
<1>7. CASE Ops!FinalVerify
  <2>1. handler.at = "verify" BY <1>7 DEF Ops!FinalVerify, Ops!At
  <2>2. ~ touched => /\ MovedTo(Ops!Renamed(Was, "old", "new")) /\ handler.plan
                     /\ Was \in Ops!Trees /\ Ops!InitsOf(Was) = {"old"}
                     /\ Ops!Has(Was, "old")
                     /\ Ops!Staged("new") = Ops!Renamed(Was, "old", "new")
    BY <1>2, <2>1, RenameIs DEF RenameReached
  <2>3. CASE Ops!Fails(trees["dst"] = NoTree) /\ Ops!RollBack("new")
    <3>1. ~ touched => trees["dst"] # NoTree
      <4>1. "new" \in Ops!Names BY NamesAre
      <4>2. ~ touched => Ops!Renamed(Was, "old", "new") \in Ops!Trees
        BY <1>3, <2>2, <4>1, RenamedIs
      <4> QED BY <1>3, <2>2, <4>2, TreeIs DEF MovedTo
    <3>2. ~ touched => spent' > 0 BY <1>1, <2>3, <3>1 DEF Ops!Fails, Observed, ReportInv
    <3> QED BY <1>1, <1>2, <2>2, <2>3, <3>2, RenameRollsBackReport
  <2>4. CASE Ops!Go("forget")
    <3>1. handler'.at = "forget" BY <1>3, <2>4, GoesIs
    <3>2. ~ touched => MovedTo(Goal)'
      BY <1>1, <1>2, <2>2 DEF MovedTo, Was, Goal, Quiet, Observed
    <3>3. ~ touched => RenameReached' BY <3>1, <3>2 DEF RenameReached
    <3> QED BY <1>4, <2>4, <3>3
  <2> QED BY <1>7, <2>3, <2>4 DEF Ops!FinalVerify
<1> QED BY <1>5, <1>6, <1>7

(* The steps that move the tree: out, and back. *)
LEMMA RenameMovesReport ==
    ASSUME TreeInv, ReportInv, Ops!Outer \/ Ops!UndoOuter
    PROVE  ReportInv'
<1>1. Observed BY RenameObserves DEF Ops!Rename
<1>2. /\ handler.op = "rename" /\ handler.at \in {"outer", "back"} /\ IsHandler(handler)
      /\ trees \in [Ops!Places -> Ops!Trees \cup {NoTree}]
  BY DEF Ops!Outer, Ops!UndoOuter, Ops!At, TreeInv, TreeTypes
<1>3. ASSUME NEW place \in {"moved", "undone"}, Ops!Go(place), ~ touched => RenameReached'
      PROVE  ReportInv'
  <2>1. /\ handler'.op = "rename" /\ handler'.at = place
        /\ UNCHANGED <<handler.script, handler.plan, handler.fence, handler.temp>>
    BY <1>2, <1>3, GoesIs
  <2> QED BY <1>1, <1>2, <1>3, <2>1, RenameGoesOn
<1>4. CASE Ops!Outer
  <2>1. handler.at = "outer" BY <1>4 DEF Ops!Outer, Ops!At
  <2>2. ~ touched => trees = before /\ before["dst"] = NoTree
    BY <1>2, <2>1, RenameIs DEF RenameReached
  <2>3. CASE Ops!Looks /\ Ops!Ends("refused")
    BY <1>1, <2>2, <2>3, Looking, ReportRefused DEF Quiet
  <2>4. CASE Ops!Move("src", "dst") /\ Ops!Go("moved")
    <3>1. handler'.at = "moved" BY <1>2, <2>4, GoesIs
    <3>2. ~ touched => MovedTo(Was)'
      BY <1>1, <1>2, <2>2, <2>4, NamesAre DEF MovedTo, Was, Observed, Ops!Move
    <3>3. ~ touched => RenameReached' BY <3>1, <3>2 DEF RenameReached
    <3> QED BY <1>3, <2>4, <3>3
  <2> QED BY <1>4, <2>3, <2>4 DEF Ops!Outer
<1>5. CASE Ops!UndoOuter
  <2>1. handler.at = "back" BY <1>5 DEF Ops!UndoOuter, Ops!At
  <2>2. ~ touched => MovedTo(Was) /\ before["dst"] = NoTree /\ spent > 0
          /\ Was \in Ops!Trees
    BY <1>2, <2>1, RenameIs DEF RenameReached
  <2>3. CASE Ops!Fails(~ Ops!CanMove("dst", "src")) /\ Ops!Ends("left")
    <3>1. ~ touched => Ops!CanMove("dst", "src")
      BY <2>2, StartsAre DEF MovedTo, Ops!CanMove, TreeInv
    <3>2. ~ touched => spent' > 1
      BY <1>1, <2>2, <2>3, <3>1 DEF Ops!Fails, Observed, ReportInv
    <3> QED BY <1>1, <2>3, <3>2, ReportFailed DEF Observed
  <2>4. CASE Ops!Move("dst", "src") /\ Ops!Go("undone")
    <3>1. handler'.at = "undone" BY <1>2, <2>4, GoesIs
    <3>2. ~ touched => trees' = before
      <4> SUFFICES ASSUME ~ touched PROVE trees' = before OBVIOUS
      <4>1. /\ trees' \in [Ops!Places -> Ops!Trees \cup {NoTree}]
            /\ trees'["src"] = Was /\ trees'["dst"] = NoTree
        BY <1>2, <2>2, <2>4, NamesAre DEF MovedTo, Ops!Move
      <4> QED BY <2>2, <4>1, PlacesEqual DEF ReportInv, Was
    <3>3. ~ touched => RenameReached'
      BY <1>1, <2>2, <3>1, <3>2 DEF RenameReached, Observed, ReportInv
    <3> QED BY <1>3, <2>4, <3>3
  <2> QED BY <1>5, <2>3, <2>4 DEF Ops!UndoOuter
<1> QED BY <1>4, <1>5

(* The steps that move the init file. *)
LEMMA RenameInitsReport ==
    ASSUME TreeInv, ReportInv, Ops!InitAside \/ Ops!InitFinal \/ Ops!UndoInit
    PROVE  ReportInv'
<1>1. Observed BY RenameObserves DEF Ops!Rename
<1>2. /\ handler.op = "rename" /\ handler.at \in {"aside", "final", "init"} /\ IsHandler(handler)
      /\ trees \in [Ops!Places -> Ops!Trees \cup {NoTree}] /\ Ops!TreesAssumption
  BY DEF Ops!InitAside, Ops!InitFinal, Ops!UndoInit, Ops!At, TreeInv, TreeTypes
<1>3. ASSUME NEW place \in {"look", "verify", "again"}, Ops!Go(place), ~ touched =>
        RenameReached'
      PROVE  ReportInv'
  <2>1. /\ handler'.op = "rename" /\ handler'.at = place
        /\ UNCHANGED <<handler.script, handler.plan, handler.fence, handler.temp>>
    BY <1>2, <1>3, GoesIs
  <2> QED BY <1>1, <1>2, <1>3, <2>1, RenameGoesOn
<1>4. CASE Ops!InitAside
  <2>1. handler.at = "aside" BY <1>4 DEF Ops!InitAside, Ops!At
  <2>2. ~ touched => /\ MovedTo(Was) /\ handler.plan /\ Ops!Has(Was, "old")
                     /\ Ops!Staged("old") = Was
    BY <1>2, <2>1, RenameIs DEF RenameReached
  <2>3. CASE Ops!Fails(Ops!Missing(trees["dst"], "old")) /\ Ops!Looks
          /\ Ops!RollBack("old")
    <3>1. ~ touched => spent' > 0
      BY <1>1, <2>2, <2>3 DEF Ops!Fails, Observed, ReportInv, MovedTo, Ops!Missing
    <3> QED BY <1>1, <1>2, <2>1, <2>2, <2>3, <3>1, Looking, RenameRollsBackReport
  <2>4. CASE Ops!MoveInit("old", handler.temp) /\ Ops!Go("look")
    <3>1. /\ handler'.at = "look" /\ handler'.plan = handler.plan
               /\ handler'.temp = handler.temp
      BY <1>2, <2>4, GoesIs
    <3>2. ~ touched => MovedTo(Ops!Renamed(Was, "old", handler.temp))'
      BY <1>1, <1>2, <2>2, <2>4, <3>1, NamesAre DEF MovedTo, Ops!MoveInit, Was, Observed
    <3>3. ~ touched => RenameReached' BY <2>2, <3>1, <3>2 DEF RenameReached
    <3> QED BY <1>3, <2>4, <3>3
  <2> QED BY <1>4, <2>3, <2>4 DEF Ops!InitAside
<1>5. CASE Ops!InitFinal
  <2>1. handler.at = "final" BY <1>5 DEF Ops!InitFinal, Ops!At
  <2> DEFINE w == Ops!Renamed(Was, "old", handler.temp)
  <2>2. ~ touched => /\ MovedTo(w) /\ handler.plan /\ Was \in Ops!Trees
                     /\ Ops!Has(Was, "old") /\ ~ Ops!Has(Was, handler.temp)
                     /\ handler.temp \in Ops!Temps /\ Ops!Staged(handler.temp) = w
    BY <1>2, <2>1, RenameIs, NamesAre DEF RenameReached
  <2>3. /\ "old" \in Ops!Names /\ "new" \in Ops!Names
        /\ \A n \in Ops!Temps : n \in Ops!Names /\ n # "self" /\ n # "old" /\ n # "new"
    BY NamesAre
  <2>4. ~ touched => Ops!Has(w, handler.temp) /\ Ops!Renamed(w, handler.temp, "new")
                                                       = Ops!Renamed(Was, "old", "new")
    <3> SUFFICES ASSUME ~ touched
                 PROVE  /\ Ops!Has(w, handler.temp)
                        /\ Ops!Renamed(w, handler.temp, "new") = Ops!Renamed(Was, "old", "new")
      OBVIOUS
    <3>1. w \in Ops!Trees /\ handler.temp \in DOMAIN w.files BY <1>2, <2>2, <2>3, RenamedIs
    <3>2. Ops!Renamed(w, handler.temp, "new") = Ops!Renamed(Was, "old", "new")
      BY <1>2, <2>2, <2>3, RenamedTwice
    <3> HIDE DEF w
    <3> QED BY <1>2, <3>1, <3>2, TreeIs
  <2>5. CASE Ops!Fails(Ops!Missing(trees["dst"], handler.temp)) /\ Ops!Looks
             /\ Ops!RollBack(handler.temp)
    <3>1. ~ touched => spent' > 0
      BY <1>1, <2>2, <2>4, <2>5 DEF Ops!Fails, Observed, ReportInv, MovedTo, Ops!Missing
    <3> QED BY <1>1, <1>2, <2>1, <2>2, <2>5, <3>1, Looking, RenameRollsBackReport
  <2>6. CASE Ops!MoveInit(handler.temp, "new") /\ Ops!Go("verify")
    <3>1. /\ handler'.at = "verify" /\ handler'.plan = handler.plan BY <1>2, <2>6, GoesIs
    <3>2. ~ touched => MovedTo(Ops!Renamed(Was, "old", "new"))'
      BY <1>1, <1>2, <2>2, <2>4, <2>6, NamesAre DEF MovedTo, Ops!MoveInit, Was, Observed
    <3>3. ~ touched => RenameReached' BY <2>2, <3>1, <3>2 DEF RenameReached
    <3> QED BY <1>3, <2>6, <3>3
  <2> QED BY <1>5, <2>5, <2>6 DEF Ops!InitFinal
<1>6. CASE Ops!UndoInit
  <2>1. handler.at = "init" BY <1>6 DEF Ops!UndoInit, Ops!At
  <2> DEFINE w == Ops!Renamed(Was, "old", handler.stage)
  <2>2. ~ touched => /\ Was \in Ops!Trees /\ Ops!Has(Was, "old") /\ spent > 0
                     /\ ~ Ops!Has(Was, handler.stage) /\ MovedTo(w)
                     /\ handler.stage \in Ops!Names \ {"self", "old"}
    <3> SUFFICES ASSUME ~ touched
                 PROVE  /\ Was \in Ops!Trees /\ Ops!Has(Was, "old") /\ spent > 0
                        /\ ~ Ops!Has(Was, handler.stage) /\ MovedTo(w)
                        /\ handler.stage \in Ops!Names \ {"self", "old"}
      OBVIOUS
    <3>1. handler.stage # "old" BY <1>2, <2>1 DEF TreeInv, HandlerHolds, RenameHolds
    <3>2. /\ handler.plan /\ handler.stage \in {handler.temp, "new"} /\ spent > 0
          /\ MovedTo(Ops!Staged(handler.stage))
      BY <1>2, <2>1, <3>1, RenameIs DEF RenameReached
    <3>3. /\ Was \in Ops!Trees /\ Ops!Has(Was, "old") /\ ~ Ops!Has(Was, handler.stage)
          /\ handler.temp \in Ops!Temps /\ Ops!Staged(handler.stage) = w
      BY <1>2, <2>1, <3>1, <3>2, RenameIs
    <3> QED BY <3>1, <3>2, <3>3, NamesAre
  <2>3. "old" \in Ops!Names BY NamesAre
  <2>4. ~ touched => /\ Ops!Has(w, handler.stage) /\ ~ Ops!Has(w, "old")
                     /\ Ops!Renamed(w, handler.stage, "old") = Was
    <3> SUFFICES ASSUME ~ touched
                 PROVE  /\ Ops!Has(w, handler.stage) /\ ~ Ops!Has(w, "old")
                        /\ Ops!Renamed(w, handler.stage, "old") = Was
      OBVIOUS
    <3>1. w \in Ops!Trees
            /\ DOMAIN w.files = (DOMAIN Was.files \ {"old"}) \cup {handler.stage}
      BY <1>2, <2>2, <2>3, RenamedIs
    <3>2. Ops!Renamed(w, handler.stage, "old") = Was BY <1>2, <2>2, <2>3, RenamedTwice
    <3> HIDE DEF w
    <3> QED BY <1>2, <2>2, <3>1, <3>2, TreeIs
  <2>5. CASE Ops!Fails(Ops!Missing(trees["dst"], handler.stage) \/ Ops!Has(trees["dst"], "old"))
             /\ Ops!Ends("left")
    <3>1. ~ touched => spent' > 1
      BY <1>1, <2>2, <2>4, <2>5 DEF Ops!Fails, Observed, ReportInv, MovedTo, Ops!Missing
    <3> QED BY <1>1, <2>5, <3>1, ReportFailed DEF Observed
  <2>6. CASE Ops!MoveInit(handler.stage, "old") /\ Ops!Go("again")
    <3>1. handler'.at = "again" BY <1>2, <2>6, GoesIs
    <3>2. ~ touched => MovedTo(Was)'
      BY <1>1, <1>2, <2>2, <2>4, <2>6, NamesAre DEF MovedTo, Ops!MoveInit, Was, Observed
    <3>3. ~ touched => RenameReached'
      BY <1>1, <2>2, <3>1, <3>2 DEF RenameReached, Observed, ReportInv
    <3> QED BY <1>3, <2>6, <3>3
  <2> QED BY <1>6, <2>5, <2>6 DEF Ops!UndoInit
<1> QED BY <1>4, <1>5, <1>6

LEMMA RenameUndoesReport ==
    ASSUME TreeInv, ReportInv, Ops!UndoVerify \/ Ops!UndoVerifyAgain
             \/ Ops!UndoChecked
    PROVE  ReportInv'
<1>1. Observed BY RenameObserves DEF Ops!Rename
<1>2. Quiet /\ handler.op = "rename" /\ handler.at \in {"undo", "again", "undone"}
  BY Looking DEF Ops!UndoVerify, Ops!UndoVerifyAgain, Ops!UndoChecked, Ops!At
<1>3. IsHandler(handler) BY DEF TreeInv, TreeTypes
<1>4. ~ touched => spent > 0 /\ handler.fence = Was /\ Ops!Staged("old") = Was
  BY <1>2, RenameIs DEF RenameReached
<1>5. ASSUME NEW place \in {"init", "again", "back"}, Ops!Go(place), ~ touched =>
        RenameReached'
      PROVE  ReportInv'
  <2>1. /\ handler'.op = "rename" /\ handler'.at = place
        /\ UNCHANGED <<handler.script, handler.plan, handler.fence, handler.temp>>
    BY <1>2, <1>3, <1>5, GoesIs
  <2> QED BY <1>1, <1>2, <1>5, <2>1, RenameGoesOn
<1>6. CASE Ops!UndoVerify
  <2>1. handler.at = "undo" BY <1>6 DEF Ops!UndoVerify, Ops!At
  <2>2. ~ touched => /\ MovedTo(Ops!Staged(handler.stage))
                     /\ handler.stage = "old"
                          \/ (handler.plan /\ handler.stage \in {handler.temp, "new"})
    BY <1>2, <2>1, RenameIs DEF RenameReached
  <2>3. CASE Ops!Fails(~ Ops!Unchanged(handler.stage)) /\ Ops!Ends("left")
    <3>1. ~ touched => spent' > 1
      BY <1>1, <1>4, <2>2, <2>3 DEF Ops!Fails, Observed, ReportInv, Ops!Unchanged, MovedTo
    <3> QED BY <1>1, <2>3, <3>1, ReportFailed DEF Observed
  <2>4. CASE Ops!Go(IF handler.stage = "old" THEN "again" ELSE "init")
    <3>1. /\ handler'.at = IF handler.stage = "old" THEN "again" ELSE "init"
          /\ UNCHANGED <<handler.stage, handler.temp, handler.plan, handler.fence>>
      BY <1>3, <2>4, GoesIs
    <3>2. Ops!Staged(handler.stage)' = Ops!Staged(handler.stage) BY <3>1 DEF Ops!Staged
    <3>3. ~ touched => MovedTo(Ops!Staged(handler.stage))'
            /\ (handler.stage = "old" => MovedTo(Was)')
      BY <1>1, <1>2, <1>4, <2>2, <3>2 DEF MovedTo, Quiet, Was, Observed
    <3>4. ~ touched => RenameReached'
      BY <1>1, <1>4, <2>2, <3>1, <3>3 DEF RenameReached, Observed, ReportInv
    <3> QED BY <1>5, <2>4, <3>4
  <2> QED BY <1>6, <2>3, <2>4 DEF Ops!UndoVerify
<1>7. CASE Ops!UndoVerifyAgain
  <2>1. handler.at = "again" BY <1>7 DEF Ops!UndoVerifyAgain, Ops!At
  <2>2. ~ touched => MovedTo(Was) BY <1>2, <2>1, RenameIs DEF RenameReached
  <2>3. CASE Ops!Fails(~ Ops!Unchanged("old")) /\ Ops!Ends("left")
    <3>1. ~ touched => spent' > 1
      BY <1>1, <1>4, <2>2, <2>3 DEF Ops!Fails, Observed, ReportInv, Ops!Unchanged, MovedTo
    <3> QED BY <1>1, <2>3, <3>1, ReportFailed DEF Observed
  <2>4. CASE Ops!Go("back")
    <3>1. handler'.at = "back" BY <1>3, <2>4, GoesIs
    <3>2. ~ touched => MovedTo(Was)' BY <1>1, <1>2, <2>2 DEF MovedTo, Quiet, Was, Observed
    <3>3. ~ touched => RenameReached'
      BY <1>1, <1>4, <3>1, <3>2 DEF RenameReached, Observed, ReportInv
    <3> QED BY <1>5, <2>4, <3>3
  <2> QED BY <1>7, <2>3, <2>4 DEF Ops!UndoVerifyAgain
<1>8. CASE Ops!UndoChecked
  <2>1. handler.at = "undone" BY <1>8 DEF Ops!UndoChecked, Ops!At
  <2>2. ~ touched => trees = before BY <1>2, <2>1, RenameIs DEF RenameReached
  <2>3. CASE Ops!Fails(trees["src"] # handler.fence) /\ Ops!Ends("left")
    <3>1. ~ touched => spent' > 1
      BY <1>1, <1>4, <2>2, <2>3 DEF Ops!Fails, Observed, ReportInv, Was
    <3> QED BY <1>1, <2>3, <3>1, ReportFailed DEF Observed
  <2>4. CASE Ops!Ends("restored")
    <3>1. ~ touched => Told("restored")' BY <1>1, <1>2, <2>2 DEF Told, Quiet, Observed
    <3> QED BY <1>1, <2>4, <3>1, ReportEnds
  <2> QED BY <1>8, <2>3, <2>4 DEF Ops!UndoChecked
<1> QED BY <1>6, <1>7, <1>8

(* The baselines go with the tree, and the answer says so. *)
LEMMA RenameRebasesReport ==
    ASSUME TreeInv, ReportInv, Ops!Rebase \/ Ops!Seed
    PROVE  ReportInv'
<1>1. Observed BY RenameObserves DEF Ops!Rename
<1>2. /\ handler.op = "rename" /\ handler.at \in {"forget", "seed"} /\ trees' = trees
      /\ IsHandler(handler) /\ Ops!TreesAssumption
  BY Looking DEF Ops!Rebase, Ops!Seed, Ops!At, TreeInv, TreeTypes, Quiet
<1>3. ~ touched => /\ MovedTo(Goal) /\ Was \in Ops!Trees
                   /\ (Ops!InitsOf(Was) = {"old"} => Ops!Has(Was, "old"))
  BY <1>2, RenameIs DEF RenameReached
<1>4. CASE Ops!Rebase
  <2>1. /\ handler'.op = "rename" /\ handler'.at = "seed"
        /\ UNCHANGED <<handler.script, handler.plan, handler.fence, handler.temp>>
    BY <1>2, <1>4, GoesIs DEF Ops!Rebase
  <2>2. Ops!Nobody("src")'
    BY <1>4, NamesAre DEF Ops!Rebase, Ops!Forget, Ops!Nobody, Ops!Paths
  <2>3. ~ touched => MovedTo(Goal)' BY <1>1, <1>2, <1>3 DEF MovedTo, Goal, Was, Observed
  <2>4. ~ touched => RenameReached' BY <2>1, <2>2, <2>3 DEF RenameReached
  <2> QED BY <1>1, <1>2, <2>1, <2>4, RenameGoesOn
<1>5. CASE Ops!Seed
  <2>1. handler.at = "seed" BY <1>5 DEF Ops!Seed, Ops!At
  <2>2. ~ touched => Ops!Nobody("src") BY <1>2, <2>1, RenameIs DEF RenameReached
  <2>3. ~ touched => Goal \in Ops!Trees
    <3>1. "new" \in Ops!Names BY NamesAre
    <3> QED BY <1>2, <1>3, <3>1, RenamedIs DEF Goal
  <2>4. CASE Ops!Fails(trees["dst"] = NoTree) /\ Ops!Ends("late")
    <3>1. ~ touched => spent' > 0
      BY <1>1, <1>2, <1>3, <2>3, <2>4, TreeIs DEF Ops!Fails, Observed, ReportInv, MovedTo
    <3> QED BY <1>1, <2>4, <3>1, ReportFailed
  <2>5. CASE /\ Ops!Ends("applied")
             /\ Ops!Record("dst", DOMAIN trees["dst"].files, trees["dst"].files)
    <3>1. reported'.op = "rename" BY <1>2, <2>5 DEF Ops!Ends
    <3>2. SUFFICES ASSUME ~ touched PROVE Ops!Applied'
      BY <1>1, <2>5, <3>1, ReportEnds DEF Told, Ops!Ops
    <3>3. Ops!OneShape' BY <1>2, <1>3, <2>3, <3>2, TreeIs DEF Ops!OneShape, MovedTo
    <3>4. Ops!Nobody("src")' BY <2>2, <2>5, <3>2, NamesAre DEF Ops!Nobody, Ops!Record
    <3>5. Ops!Based("dst")'
      <4>1. DOMAIN trees["dst"].files \subseteq Ops!Names
        BY <1>2, <1>3, <2>3, <3>2, TreeIs DEF MovedTo
      <4> QED BY <1>2, <2>5, <4>1, NamesAre DEF Ops!Based, Ops!Record
    <3>6. trees'["dst"] = IF Ops!InitsOf(before'["src"]) = {"old"}
                          THEN Ops!Renamed(before'["src"], "old", "new") ELSE before'["src"]
      BY <1>1, <1>2, <1>3, <3>2 DEF MovedTo, Goal, Was, Observed
    <3> QED BY <3>1, <3>3, <3>4, <3>5, <3>6 DEF Ops!Applied
  <2> QED BY <1>5, <2>4, <2>5 DEF Ops!Seed
<1> QED BY <1>4, <1>5

-------------------------------------------------------------------------------
(* What a removal answers. *)

LEMMA RemoveReported ==
    ASSUME ReportInv, Observed, handler'.op \in Ops!Removing, handler'.at # "idle",
           ~ touched => RemoveReports' /\ WriteReports'
    PROVE  ReportInv'
<1>1. handler'.op # "rename" /\ handler'.op # "restore" BY DEF Ops!Removing
<1> QED BY <1>1 DEF ReportInv, Observed, RenameReports, RestoreReports

(* Before the first change, and before anything is known of the fence. *)
LEMMA RemoveLooksOn ==
    ASSUME ReportInv, Observed, Quiet, handler.op \in Ops!Removing, handler.at # "idle",
           IsHandler(handler), NEW place \in {"match", "backup", "fence"}, Ops!Go(place),
           place = "fence" => handler.op # "transition" /\ handler.op # "replace",
           ~ touched => /\ trees = before /\ RemoveReports
                        /\ handler.op = "transition" => trees["dst"] = NoTree
    PROVE  ReportInv'
<1>1. /\ handler'.op = handler.op /\ handler'.at = place /\ handler'.fenced = handler.fenced
  BY GoesIs
<1>2. ~ touched => trees' = before' BY DEF Quiet, Observed
<1>3. ~ touched => RemoveReports' BY <1>1, <1>2 DEF RemoveReports, Quiet
<1>4. WriteReports' BY <1>1 DEF WriteReports
<1> QED BY <1>1, <1>3, <1>4, RemoveReported

(* The first step of a tree that is written. *)
LEMMA WriteBegins ==
    ASSUME ReportInv, Observed, handler.op \in {"transition", "replace"}, IsHandler(handler),
           Ops!Go("write"),
           ~ touched =>
             /\ RemoveReports /\ backup' = backup
             /\ IF handler.op = "transition"
                THEN /\ trees' = trees /\ trees["src"] = Was
                     /\ trees["dst"] = NoTree \/ trees["dst"].dir = handler.dir
                ELSE trees'["src"] = NoTree /\ Ops!Held(Was) \subseteq backup
    PROVE  ReportInv'
<1>1. /\ handler'.op = handler.op /\ handler'.at = "write" /\ handler'.fenced = handler.fenced
      /\ handler'.dir = handler.dir
  BY GoesIs
<1>2. Ops!Target' = IF handler.op = "replace" THEN "src" ELSE "dst" BY <1>1 DEF Ops!Target
<1>3. ~ touched => RemoveReports' BY <1>1 DEF RemoveReports, Was, Observed
<1>4. ~ touched => WriteReports' BY <1>1, <1>2 DEF WriteReports, Was, Observed
<1> QED BY <1>1, <1>3, <1>4, RemoveReported DEF Ops!Removing

LEMMA RemoveChecksReport ==
    ASSUME TreeInv, ReportInv,
           Ops!CheckDelete \/ Ops!CheckTransition \/ Ops!CheckReplace
             \/ Ops!MatchBaselines
    PROVE  ReportInv'
<1>1. Observed BY RemoveObserves DEF Ops!Remove
<1>2. /\ handler.op \in {"delete", "transition", "replace"} /\ handler.at \in {"check", "match"}
      /\ Quiet /\ IsHandler(handler)
  BY Looking DEF Ops!CheckDelete, Ops!CheckTransition, Ops!CheckReplace, Ops!MatchBaselines,
     Ops!At, TreeInv, TreeTypes, Quiet, Ops!rest
<1> USE <1>2
<1>3. handler.op \in Ops!Removing BY DEF Ops!Removing
<1>4. ~ touched => /\ trees = before /\ RemoveReports
                   /\ (handler.op = "transition" /\ handler.at = "match" =>
                       trees["dst"] = NoTree)
  BY <1>3 DEF ReportInv, RemoveReports
<1>5. CASE Ops!Ends("refused") \/ Ops!Ends("nothing")
  BY <1>1, <1>4, <1>5, ReportRefused DEF Quiet
<1>6. CASE Ops!CheckDelete
  <2>1. CASE Ops!Go("match")
    BY <1>1, <1>3, <1>4, <1>6, <2>1, RemoveLooksOn DEF Ops!CheckDelete, Ops!At
  <2> QED BY <1>5, <1>6, <2>1 DEF Ops!CheckDelete
<1>7. CASE Ops!CheckTransition
  <2>1. handler.op = "transition" /\ backup' = backup
    BY <1>7 DEF Ops!CheckTransition, Ops!At, Quiet
  <2>2. CASE Ops!Go("match") /\ trees["dst"] = NoTree
    BY <1>1, <1>3, <1>4, <2>2, RemoveLooksOn
  <2>3. CASE Ops!Go("write") /\ trees["dst"].dir = handler.dir
    BY <1>1, <1>4, <2>1, <2>3, WriteBegins DEF Quiet, Was
  <2> QED BY <1>5, <1>7, <2>2, <2>3 DEF Ops!CheckTransition
<1>8. CASE Ops!CheckReplace
  <2>1. handler.op = "replace" /\ backup' = backup
    BY <1>8 DEF Ops!CheckReplace, Ops!At, Quiet
  <2>2. CASE Ops!Go("backup") BY <1>1, <1>3, <1>4, <2>1, <2>2, RemoveLooksOn
  <2>3. CASE Ops!Go("write") /\ trees["src"] = NoTree
    BY <1>1, <1>4, <2>1, <2>3, WriteBegins, NoneIs DEF Quiet, Was
  <2>4. CASE Ops!Ends("updated")
    <3>1. (Told("updated"))' BY DEF Told
    <3> QED BY <1>1, <2>4, <3>1, ReportEnds
  <2> QED BY <1>5, <1>8, <2>2, <2>3, <2>4 DEF Ops!CheckReplace
<1>9. CASE Ops!MatchBaselines
  <2>1. handler.at = "match" /\ handler.op \in {"delete", "transition"} /\ backup' = backup
    BY <1>9 DEF Ops!MatchBaselines, Ops!At, Quiet
  <2>2. CASE Ops!Go("fence") /\ handler.op = "delete"
    BY <1>1, <1>3, <1>4, <2>2, RemoveLooksOn
  <2>3. CASE Ops!Go("write") /\ handler.op = "transition"
    BY <1>1, <1>4, <2>1, <2>3, WriteBegins DEF Quiet, Was
  <2>4. CASE Ops!Ends("conflict") /\ parked' # {}
    <3>1. ~ touched => (Told("conflict"))' BY <1>1, <1>4, <2>4 DEF Told, Quiet, Observed
    <3> QED BY <1>1, <2>4, <3>1, ReportEnds
  <2> QED BY <1>5, <1>9, <2>1, <2>2, <2>3, <2>4 DEF Ops!MatchBaselines
<1> QED BY <1>6, <1>7, <1>8, <1>9

LEMMA BackupsReport ==
    ASSUME TreeInv, ReportInv, Ops!BackupCapture \/ Ops!BackupCopy
             \/ Ops!BackupVerify
    PROVE  ReportInv'
<1>1. Observed BY RemoveObserves DEF Ops!Remove
<1>2. /\ handler.op = "replace" /\ handler.at \in {"backup", "copy"} /\ trees' = trees
      /\ IsHandler(handler) /\ handler.op \in Ops!Removing
  BY Looking DEF Ops!BackupCapture, Ops!BackupCopy, Ops!BackupVerify, Ops!At, TreeInv,
     TreeTypes, Quiet, Ops!Removing
<1>3. ~ touched => /\ trees = before /\ (handler.at = "copy" => handler.fence = Was)
  BY <1>2 DEF ReportInv, RemoveReports
<1>4. CASE Ops!Ends("refused") BY <1>1, <1>2, <1>3, <1>4, ReportRefused
<1>5. ASSUME handler'.op = "replace", handler'.at \in {"copy", "fence"},
             ~ touched => IF handler'.at = "copy" THEN handler'.fence = Was
                          ELSE Ops!Held(Was) \subseteq backup'
      PROVE  ReportInv'
  <2>1. ~ touched => RemoveReports'
    BY <1>1, <1>2, <1>3, <1>5 DEF RemoveReports, Was, Observed
  <2>2. WriteReports' BY <1>5 DEF WriteReports
  <2> QED BY <1>1, <1>2, <1>5, <2>1, <2>2, RemoveReported
<1>6. CASE Ops!BackupCapture
  <2>1. CASE handler' = [handler EXCEPT !.at = "copy", !.fence = trees["src"],
                            !.todo = DOMAIN trees["src"].files]
    <3>1. handler'.op = "replace" /\ handler'.at = "copy" /\ handler'.fence = trees["src"]
      BY <1>2, <2>1 DEF IsHandler
    <3> QED BY <1>3, <1>5, <3>1 DEF Was
  <2> QED BY <1>4, <1>6, <2>1 DEF Ops!BackupCapture
<1>7. CASE Ops!BackupCopy
  <2>1. handler.at = "copy" BY <1>7 DEF Ops!BackupCopy, Ops!At
  <2>2. CASE \E n \in handler.todo : handler' = [handler EXCEPT !.todo = handler.todo \ {n}]
    <3>1. handler'.op = "replace" /\ handler'.at = "copy" /\ handler'.fence = handler.fence
      BY <1>2, <2>1, <2>2 DEF IsHandler
    <3> QED BY <1>3, <1>5, <2>1, <3>1
  <2> QED BY <1>4, <1>7, <2>2 DEF Ops!BackupCopy
<1>8. CASE Ops!BackupVerify
  <2>1. handler.at = "copy" /\ handler.todo = {} /\ backup' = backup
    BY <1>8, Looking DEF Ops!BackupVerify, Ops!At, Quiet
  <2>2. CASE handler' = [handler EXCEPT !.at = "fence", !.fenced = TRUE]
    <3>1. handler'.op = "replace" /\ handler'.at = "fence" BY <1>2, <2>2 DEF IsHandler
    <3>2. \A n \in DOMAIN handler.fence.files : handler.fence.files[n] \in backup
      BY <1>2, <2>1 DEF TreeInv, HandlerHolds, ReplaceHolds
    <3>3. Ops!Held(handler.fence) \subseteq backup BY <3>2 DEF Ops!Held
    <3> QED BY <1>3, <1>5, <2>1, <3>1, <3>3
  <2> QED BY <1>4, <1>8, <2>2 DEF Ops!BackupVerify
<1> QED BY <1>6, <1>7, <1>8

LEMMA RemovedReport ==
    ASSUME ReportInv, Observed, handler.op \in Ops!Removing,
           handler.at \in {"fence", "entries"},
           IsHandler(handler), Ops!Removed, trees'["src"] = NoTree,
           trees'["dst"] = trees["dst"],
           backup' = backup
    PROVE  ReportInv'
<1>1. ~ touched => RemoveReports BY DEF ReportInv
<1>2. CASE handler.op = "replace"
  <2>1. ~ touched => Ops!Held(Was) \subseteq backup BY <1>1, <1>2 DEF RemoveReports
  <2> QED BY <1>1, <1>2, <2>1, WriteBegins DEF Ops!Removed
<1>3. CASE handler.op # "replace"
  <2>1. /\ handler'.op = handler.op /\ handler'.at = "gone" /\ handler'.fenced = handler.fenced
    BY <1>3, GoesIs DEF Ops!Removed
  <2>2. ~ touched => RemoveReports' BY <1>1, <1>3, <2>1 DEF RemoveReports
  <2>3. WriteReports' BY <2>1 DEF WriteReports
  <2> QED BY <2>1, <2>2, <2>3, RemoveReported
<1> QED BY <1>2, <1>3

LEMMA RemovalFencesReport ==
    ASSUME TreeInv, ReportInv, Ops!RemovalFence
    PROVE  ReportInv'
<1>1. Observed BY RemoveObserves DEF Ops!Remove
<1>2. /\ handler.op \in Ops!Removing /\ handler.at = "fence" /\ IsHandler(handler)
      /\ trees' = trees /\ backup' = backup
  BY Looking DEF Ops!RemovalFence, Ops!At, TreeInv, TreeTypes, Quiet
<1>3. ~ touched => RemoveReports BY <1>2 DEF ReportInv
<1>4. ASSUME NEW other, Ops!Fails(other), other => handler.fenced,
             Ops!Stops(IF handler.op = "transition" THEN "partial" ELSE "refused")
      PROVE  ReportInv'
  <2>1. CASE handler.op = "transition"
    <3>1. ~ touched => ~ handler.fenced BY <1>2, <1>3, <2>1 DEF RemoveReports
    <3>2. ~ touched => spent' > 0 BY <1>1, <1>4, <3>1 DEF Ops!Fails, Observed, ReportInv
    <3> QED BY <1>1, <1>4, <2>1, <3>2, ReportFailed, Looking
  <2>2. CASE handler.op # "transition"
    <3>1. ~ touched => trees = before BY <1>2, <1>3, <2>2 DEF RemoveReports
    <3> QED BY <1>1, <1>2, <1>4, <2>2, <3>1, ReportRefused, Looking
  <2> QED BY <2>1, <2>2
<1>5. CASE trees["src"] = NoTree /\ Ops!Removed BY <1>1, <1>2, <1>5, RemovedReport
<1>6. CASE /\ trees["src"] # NoTree
           /\ handler' = [handler EXCEPT !.at = "entries", !.fence = trees["src"],
                            !.todo = DOMAIN trees["src"].files]
  <2>1. /\ handler'.op = handler.op /\ handler'.at = "entries" /\ handler'.fence = trees["src"]
        /\ handler'.todo = DOMAIN trees["src"].files /\ handler'.fenced = handler.fenced
    BY <1>2, <1>6 DEF IsHandler
  <2>2. ~ touched => RemoveReports'
    BY <1>1, <1>2, <1>3, <1>6, <2>1 DEF RemoveReports, Was, Observed
  <2>3. WriteReports' BY <2>1 DEF WriteReports
  <2> QED BY <1>1, <1>2, <2>1, <2>2, <2>3, RemoveReported
<1> QED BY <1>4, <1>5, <1>6 DEF Ops!RemovalFence

LEMMA RemovesFileReport ==
    ASSUME TreeInv, ReportInv, Ops!RemoveFile
    PROVE  ReportInv'
<1>1. Observed BY RemoveObserves DEF Ops!Remove
<1>2. /\ handler.op \in Ops!Removing /\ handler.at = "entries" /\ IsHandler(handler)
      /\ trees \in [Ops!Places -> Ops!Trees \cup {NoTree}] /\ Ops!TreesAssumption
  BY DEF Ops!RemoveFile, Ops!At, TreeInv, TreeTypes
<1>3. ~ touched => /\ RemoveReports /\ trees["src"] # NoTree
                   /\ DOMAIN trees["src"].files = handler.todo
                   /\ \A n \in handler.todo : trees["src"].files[n] = handler.fence.files[n]
  BY <1>2 DEF ReportInv, RemoveReports
<1>4. ASSUME NEW n \in handler.todo, Ops!Stops("partial"),
             Ops!Fails(~ (Ops!Has(trees["src"], n)
                              /\ trees["src"].files[n] = handler.fence.files[n]))
      PROVE  ReportInv'
  <2>1. ~ touched => Ops!Has(trees["src"], n)
          /\ trees["src"].files[n] = handler.fence.files[n]
    BY <1>3 DEF Ops!Has
  <2>2. ~ touched => spent' > 0 BY <1>1, <1>4, <2>1 DEF Ops!Fails, Observed, ReportInv
  <2> QED BY <1>1, <1>4, <2>2, ReportFailed, Looking
<1>5. ASSUME NEW n \in handler.todo, Ops!Has(trees["src"], n), Ops!Writes,
             IF trees["src"].dir
             THEN /\ trees' = [trees EXCEPT !["src"] = Ops!Without(trees["src"], n)]
                  /\ handler' = [handler EXCEPT !.todo = handler.todo \ {n}]
             ELSE trees' = [trees EXCEPT !["src"] = NoTree] /\ Ops!Removed
      PROVE  ReportInv'
  <2>1. trees["src"] \in Ops!Trees /\ n \in DOMAIN trees["src"].files
    BY <1>2, <1>5, NamesAre DEF Ops!Has
  <2>2. backup' = backup BY <1>5, Writing
  <2>3. CASE trees["src"].dir
    <3> DEFINE w == Ops!Without(trees["src"], n)
    <3>1. /\ w \in Ops!Trees /\ w # NoTree /\ DOMAIN w.files = DOMAIN trees["src"].files \ {n}
          /\ \A m \in DOMAIN trees["src"].files \ {n} : w.files[m] = trees["src"].files[m]
      BY <1>2, <1>5, <2>1, <2>3, WithoutIs, TreeIs
    <3>2. trees' = [trees EXCEPT !["src"] = w] BY <1>5, <2>3
    <3> HIDE DEF w
    <3>3. trees'["src"] = w /\ trees'["dst"] = trees["dst"] BY <1>2, <3>2, NamesAre
    <3>4. /\ handler'.op = handler.op /\ handler'.at = "entries" /\ handler'.fence = handler.fence
          /\ handler'.todo = handler.todo \ {n} /\ handler'.fenced = handler.fenced
      BY <1>2, <1>5, <2>3 DEF IsHandler
    <3>5. ~ touched => RemoveReports'
      BY <1>1, <1>2, <1>3, <2>2, <3>1, <3>3, <3>4 DEF RemoveReports, Was, Observed
    <3>6. WriteReports' BY <3>4 DEF WriteReports
    <3> QED BY <1>1, <1>2, <3>4, <3>5, <3>6, RemoveReported
  <2>4. CASE ~ trees["src"].dir
    <3>1. trees' = [trees EXCEPT !["src"] = NoTree] /\ Ops!Removed BY <1>5, <2>4
    <3>2. trees'["src"] = NoTree /\ trees'["dst"] = trees["dst"] BY <1>2, <3>1, NamesAre
    <3> QED BY <1>1, <1>2, <2>2, <3>1, <3>2, RemovedReport
  <2> QED BY <2>3, <2>4
<1> QED BY <1>4, <1>5 DEF Ops!RemoveFile

LEMMA RemovesRestReport ==
    ASSUME TreeInv, ReportInv, Ops!RemoveDirectory \/ Ops!ForgetRemoved
    PROVE  ReportInv'
<1>1. Observed BY RemoveObserves DEF Ops!Remove
<1>2. /\ handler.op \in Ops!Removing /\ handler.at \in {"entries", "gone"} /\ IsHandler(handler)
      /\ trees \in [Ops!Places -> Ops!Trees \cup {NoTree}] /\ Ops!TreesAssumption
  BY DEF Ops!RemoveDirectory, Ops!ForgetRemoved, Ops!At, TreeInv, TreeTypes, Ops!Removing
<1>3. ~ touched => RemoveReports BY <1>2 DEF ReportInv
<1>4. CASE Ops!RemoveDirectory
  <2>1. handler.at = "entries" /\ handler.todo = {} BY <1>4 DEF Ops!RemoveDirectory, Ops!At
  <2>2. ~ touched => trees["src"] # NoTree /\ trees["src"].dir
          /\ trees["src"].files = Ops!Empty
    <3> SUFFICES ASSUME ~ touched
                 PROVE  trees["src"] # NoTree /\ trees["src"].dir
                   /\ trees["src"].files = Ops!Empty
      OBVIOUS
    <3>1. trees["src"] \in Ops!Trees /\ DOMAIN trees["src"].files = {}
      BY <1>2, <1>3, <2>1, NamesAre DEF RemoveReports
    <3>2. trees["src"].dir /\ trees["src"] # NoTree BY <1>2, <3>1, TreeIs
    <3>3. trees["src"].files \in [DOMAIN trees["src"].files -> Numbers]
      BY <3>1, TreesAre DEF Numbers
    <3>4. trees["src"].files = Ops!Empty BY <3>1, <3>3 DEF Ops!Empty
    <3> QED BY <3>2, <3>4
  <2>3. CASE /\ Ops!Fails(~ (trees["src"] # NoTree /\ trees["src"].dir
                                 /\ trees["src"].files = Ops!Empty))
             /\ Ops!Stops("partial")
    <3>1. ~ touched => spent' > 0 BY <1>1, <2>2, <2>3 DEF Ops!Fails, Observed, ReportInv
    <3> QED BY <1>1, <2>3, <3>1, ReportFailed, Looking
  <2>4. CASE trees' = [trees EXCEPT !["src"] = NoTree] /\ Ops!Writes /\ Ops!Removed
    <3>1. /\ trees'["src"] = NoTree /\ trees'["dst"] = trees["dst"] /\ backup' = backup
      BY <1>2, <2>4, NamesAre, Writing
    <3> QED BY <1>1, <1>2, <2>1, <2>4, <3>1, RemovedReport
  <2> QED BY <1>4, <2>3, <2>4 DEF Ops!RemoveDirectory
<1>5. CASE Ops!ForgetRemoved
  <2>1. /\ handler.at = "gone" /\ handler.op \in {"delete", "transition", "remove"}
        /\ Ops!Ends("applied") /\ trees' = trees
    BY <1>5 DEF Ops!ForgetRemoved, Ops!At
  <2>2. ~ touched => /\ trees["src"] = NoTree
                     /\ (handler.op = "transition" => trees["dst"] # NoTree)
    BY <1>2, <1>3, <2>1 DEF RemoveReports
  <2>3. Ops!Nobody("src")' BY <1>5, NamesAre DEF Ops!ForgetRemoved, Ops!Forget, Ops!Nobody
  <2>4. reported'.op = handler.op BY <2>1 DEF Ops!Ends
  <2>5. ~ touched => Ops!Applied' BY <2>1, <2>2, <2>3, <2>4 DEF Ops!Applied, Ops!OneShape
  <2>6. ~ touched => (Told("applied"))' BY <2>1, <2>4, <2>5 DEF Told, Ops!Ops
  <2> QED BY <1>1, <2>1, <2>6, ReportEnds
<1> QED BY <1>4, <1>5

-------------------------------------------------------------------------------
(* What an operation that writes a tree answers. *)

LEMMA WriteIs ==
    ASSUME ReportInv, handler.op \in {"transition", "replace"},
           handler.at \in {"write", "files"},
           ~ touched
    PROVE  RemoveReports /\ WriteReports
BY DEF ReportInv

LEMMA WriteGoesOn ==
    ASSUME ReportInv, Observed, handler.op \in {"transition", "replace"},
           handler.at \in {"write", "files"}, backup' = backup,
           handler'.op = handler.op, handler'.at = "files", handler'.fenced = handler.fenced,
           handler.op = "transition" => trees'["src"] = trees["src"],
           ~ touched => LET t == trees'[Ops!Target] IN
              /\ handler'.dir => t # NoTree
              /\ t = NoTree => handler'.todo = {"self"}
              /\ t # NoTree => t.dir = handler'.dir
              /\ handler.op = "replace" /\ t # NoTree => Ops!Based("src")'
    PROVE  ReportInv'
<1>1. Ops!Target' = Ops!Target BY DEF Ops!Target
<1>2. ~ touched => RemoveReports /\ WriteReports BY WriteIs
<1>3. ~ touched => RemoveReports' BY <1>2 DEF RemoveReports, Was, Observed, Ops!Removing
<1>4. ~ touched => WriteReports' BY <1>1, <1>2 DEF WriteReports, Was, Observed
<1> QED BY <1>3, <1>4, RemoveReported DEF Ops!Removing

LEMMA WritesDirectoryReport ==
    ASSUME TreeInv, ReportInv, Ops!WriteDirectory
    PROVE  ReportInv'
<1> DEFINE p == Ops!Target
<1>1. Observed BY RemoveObserves DEF Ops!Remove
<1>2. /\ handler.op \in {"transition", "replace"} /\ handler.at = "write" /\ IsHandler(handler)
      /\ trees \in [Ops!Places -> Ops!Trees \cup {NoTree}]
      /\ p \in Ops!Places /\ (p = "src" <=> handler.op = "replace")
  BY NamesAre DEF Ops!WriteDirectory, Ops!At, TreeInv, TreeTypes, Ops!Target
<1>3. ~ touched => trees[p] = NoTree
        \/ (handler.op = "transition" /\ trees[p].dir = handler.dir)
  BY <1>2, WriteIs DEF WriteReports
<1>4. CASE Ops!Fails(trees[p] # NoTree /\ trees[p].dir # handler.dir)
        /\ Ops!Ends("partial")
  <2>1. ~ touched => spent' > 0 BY <1>1, <1>3, <1>4 DEF Ops!Fails, Observed, ReportInv
  <2> QED BY <1>1, <1>4, <2>1, ReportFailed
<1>5. CASE /\ trees' = IF handler.dir /\ trees[p] = NoTree
                       THEN [trees EXCEPT ![p] = Ops!Dir(Ops!Empty)] ELSE trees
           /\ Ops!Writes
           /\ handler' = [handler EXCEPT !.at = "files",
                            !.todo = {Ops!Wanted[i] : i \in DOMAIN Ops!Wanted}]
  <2> DEFINE todo == {Ops!Wanted[i] : i \in DOMAIN Ops!Wanted}
             e == Ops!Dir(Ops!Empty)
  <2>1. ~ handler.dir => todo = {"self"} BY DEF Ops!Wanted
  <2>2. handler' = [handler EXCEPT !.at = "files", !.todo = todo] BY <1>5
  <2>3. e # NoTree /\ e.dir = TRUE /\ DOMAIN e.files = {}
    BY NewTrees, TreeIs DEF TreeInv, Ops!Dir, Ops!Empty
  <2> HIDE DEF todo, e, p
  <2>4. /\ handler'.op = handler.op /\ handler'.at = "files" /\ handler'.dir = handler.dir
        /\ handler'.todo = todo /\ handler'.fenced = handler.fenced
    BY <1>2, <2>2 DEF IsHandler
  <2>5. backup' = backup /\ trees' = IF handler.dir
          /\ trees[p] = NoTree THEN [trees EXCEPT ![p] = e] ELSE trees
    BY <1>5, Writing DEF e, p
  <2>6. handler.op = "transition" => trees'["src"] = trees["src"] BY <1>2, <2>5, NamesAre
  <2>7. trees'[p] = IF handler.dir /\ trees[p] = NoTree THEN e ELSE trees[p] BY <1>2, <2>5
  <2>8. ~ touched => /\ handler'.dir => trees'[p] # NoTree
                     /\ trees'[p] = NoTree => handler'.todo = {"self"}
                     /\ trees'[p] # NoTree => trees'[p].dir = handler'.dir
    BY <1>2, <1>3, <2>1, <2>3, <2>4, <2>7 DEF IsHandler
  <2>9. ~ touched /\ handler.op = "replace" /\ trees'[p] # NoTree => Ops!Based("src")'
    BY <1>2, <1>3, <2>3, <2>7 DEF Ops!Based
  <2> QED BY <1>1, <1>2, <2>4, <2>5, <2>6, <2>8, <2>9, WriteGoesOn DEF p
<1> QED BY <1>4, <1>5 DEF Ops!WriteDirectory

LEMMA WithFiles ==
    ASSUME Ops!TreesAssumption, NEW t \in Ops!Trees, NEW c \in Numbers,
           NEW n \in Ops!Names,
           t.dir, n # "self"
    PROVE  /\ Ops!With(t, n, c) \in Ops!Trees /\ Ops!With(t, n, c).dir = t.dir
           /\ DOMAIN Ops!With(t, n, c).files = DOMAIN t.files \cup {n}
           /\ Ops!With(t, n, c).files[n] = c
           /\ \A m \in DOMAIN t.files \ {n} : Ops!With(t, n, c).files[m] = t.files[m]
<1>1. IF t.dir THEN n # "self" ELSE n = "self" OBVIOUS
<1>2. Ops!With(t, n, c) \in Ops!Trees BY <1>1, WithIs
<1>3. Ops!With(t, n, c).dir = t.dir BY <1>1, WithIs
<1>4. DOMAIN Ops!With(t, n, c).files = DOMAIN t.files \cup {n} BY <1>1, WithIs
<1>5. Ops!With(t, n, c).files[n] = c BY <1>1, WithIs
<1>6. \A m \in DOMAIN t.files \ {n} : Ops!With(t, n, c).files[m] = t.files[m]
  BY <1>1, WithIs
<1> QED BY <1>2, <1>3, <1>4, <1>5, <1>6

LEMMA WritesFileReport ==
    ASSUME TreeInv, ReportInv, Ops!WriteFile
    PROVE  ReportInv'
<1> DEFINE p == Ops!Target
           t == trees[p]
           n == Ops!First
           shut == IF handler.dir THEN t = NoTree \/ ~ t.dir ELSE t # NoTree /\ t.dir
           clash == /\ handler.op = "transition" /\ Ops!Has(t, n)
                         /\ t.files[n] # base[<<p, n>>]
           w == IF handler.dir THEN Ops!With(t, n, handler.text)
             ELSE Ops!Leaf(handler.text)
<1>1. Observed BY RemoveObserves DEF Ops!Remove
<1>2. /\ handler.op \in {"transition", "replace"} /\ handler.at = "files" /\ handler.todo # {}
      /\ p \in Ops!Places /\ (p = "src" <=> handler.op = "replace")
  BY NamesAre DEF Ops!WriteFile, Ops!At, Ops!Target
<1>3. /\ IsHandler(handler) /\ trees \in [Ops!Places -> Ops!Trees \cup {NoTree}]
      /\ Ops!TreesAssumption /\ t \in Ops!Trees \cup {NoTree}
      /\ base \in [Ops!Paths -> Nat]
  BY <1>2 DEF TreeInv, TreeTypes
<1>4. /\ handler.text \in Numbers
      /\ handler.todo \subseteq IF handler.dir THEN {"old", "child"} ELSE {"self"}
      /\ n \in handler.todo /\ n \in Ops!Names
  BY <1>2, <1>3, FirstIs DEF TreeInv, HandlerHolds, TextHolds, IsHandler, Numbers
<1>5. ~ touched => /\ handler.dir => t # NoTree
                   /\ t # NoTree => t.dir = handler.dir
                   /\ handler.op = "replace" /\ t # NoTree => Ops!Based("src")
                   /\ handler.op = "transition" => trees["src"] = Was
  BY <1>2, WriteIs DEF WriteReports
<1>6. CASE Ops!Fails(shut) /\ Ops!Ends("partial")
  <2>1. ~ touched => ~ shut BY <1>3, <1>5 DEF IsHandler
  <2>2. ~ touched => spent' > 0 BY <1>1, <1>6, <2>1 DEF Ops!Fails, Observed, ReportInv
  <2> QED BY <1>1, <1>6, <2>2, ReportFailed
<1>7. CASE /\ clash /\ parked' = parked \cup {"update"}
           /\ IF n = "child"
              THEN handler' = [handler EXCEPT !.todo = {}] /\ UNCHANGED reported
              ELSE Ops!Ends("conflict")
           /\ UNCHANGED <<trees, base, backup, vouched, Ops!rest>>
  <2>1. CASE n = "child"
    <3>1. handler.dir BY <1>4, <2>1
    <3>2. /\ handler'.op = handler.op /\ handler'.at = "files" /\ handler'.dir = handler.dir
          /\ handler'.fenced = handler.fenced
      BY <1>2, <1>3, <1>7, <2>1 DEF IsHandler
    <3>3. handler.op # "replace" /\ trees' = trees /\ backup' = backup BY <1>7
    <3> QED BY <1>1, <1>2, <1>5, <3>1, <3>2, <3>3, WriteGoesOn
  <2>2. CASE n # "child"
    <3>1. ~ touched => (Told("conflict"))' BY <1>1, <1>5, <1>7, <2>2 DEF Told, Was, Observed
    <3> QED BY <1>1, <1>7, <2>2, <3>1, ReportEnds
  <2> QED BY <2>1, <2>2
<1>8. CASE /\ ~ shut /\ ~ clash
           /\ trees' = [trees EXCEPT ![p] = w]
           /\ Ops!Record(p, {n}, [m \in {n} |-> handler.text])
           /\ handler' = [handler EXCEPT !.todo = handler.todo \ {n}]
           /\ UNCHANGED <<reported, parked, backup, Ops!rest>>
  <2>1. /\ handler'.op = handler.op /\ handler'.at = "files" /\ handler'.dir = handler.dir
        /\ handler'.fenced = handler.fenced
    BY <1>2, <1>3, <1>8 DEF IsHandler
  <2>2. /\ w # NoTree /\ w.dir = handler.dir /\ n \in DOMAIN w.files /\ w.files[n] = handler.text
        /\ DOMAIN w.files \subseteq (IF t = NoTree THEN {n} ELSE DOMAIN t.files \cup {n})
        /\ t # NoTree => \A m \in DOMAIN w.files \ {n} : m \in DOMAIN t.files
             /\ w.files[m] = t.files[m]
    <3> USE <1>3
    <3>1. CASE handler.dir
      <4>1. t \in Ops!Trees /\ t.dir /\ n # "self" /\ t # NoTree BY <1>4, <1>8, <3>1
      <4> USE <1>4, <4>1, WithFiles
      <4> DEFINE v == Ops!With(t, n, handler.text)
      <4>2. v \in Ops!Trees OBVIOUS
      <4>3. v.dir = t.dir OBVIOUS
      <4>4. v.files[n] = handler.text OBVIOUS
      <4>5. DOMAIN v.files = DOMAIN t.files \cup {n} OBVIOUS
      <4>6. \A m \in DOMAIN t.files \ {n} : v.files[m] = t.files[m] OBVIOUS
      <4>7. v # NoTree BY <4>2, StartsAre
      <4>8. w = v BY <3>1
      <4> HIDE DEF v, w
      <4> QED BY <3>1, <4>3, <4>5, <4>6, <4>7, <4>8, <4>4
    <3>2. CASE ~ handler.dir
      <4>1. n = "self" BY <1>4, <3>2
      <4>2. Ops!Leaf(handler.text) \in Ops!Trees /\ Ops!Leaf(handler.text) # NoTree
        BY <1>4, NewTrees, StartsAre
      <4>3. /\ Ops!Leaf(handler.text).dir = FALSE /\ DOMAIN Ops!Leaf(handler.text).files = {"self"}
            /\ Ops!Leaf(handler.text).files["self"] = handler.text
        BY DEF Ops!Leaf
      <4> QED BY <3>2, <4>1, <4>2, <4>3 DEF IsHandler
    <3> QED BY <3>1, <3>2
  <2>3. trees' = [trees EXCEPT ![p] = w] BY <1>8
  <2> HIDE DEF w
  <2>4. trees'[p] = w /\ (handler.op = "transition" => trees'["src"] = trees["src"])
    BY <1>2, <1>3, <2>3, NamesAre
  <2>5. ~ touched /\ handler.op = "replace" => Ops!Based("src")'
    <3> SUFFICES ASSUME ~ touched, handler.op = "replace", NEW m \in DOMAIN trees'["src"].files
                 PROVE  base'[<<"src", m>>] = trees'["src"].files[m]
      BY DEF Ops!Based
    <3>1. p = "src" /\ trees'["src"] = w BY <1>2, <2>4
    <3>2. base' = [q \in Ops!Paths |-> IF q[1] = "src" /\ q[2] \in {n}
                                             THEN [k \in {n} |-> handler.text][q[2]]
                                               ELSE base[q]]
      BY <1>8, <3>1 DEF Ops!Record
    <3>3. CASE m = n
      <4>1. <<"src", n>> \in Ops!Paths BY <1>4, NamesAre
      <4> QED BY <2>2, <3>1, <3>2, <3>3, <4>1
    <3>4. CASE m # n
      <4>1. t # NoTree /\ m \in DOMAIN t.files /\ w.files[m] = t.files[m]
        BY <2>2, <3>1, <3>4
      <4>2. m \in Ops!Names BY <1>3, <4>1, TreeIs
      <4>3. base'[<<"src", m>>] = base[<<"src", m>>] BY <3>2, <3>4, <4>2, NamesAre
      <4>4. base[<<"src", m>>] = t.files[m] BY <1>5, <3>1, <4>1 DEF Ops!Based
      <4> QED BY <3>1, <4>1, <4>3, <4>4
    <3> QED BY <3>3, <3>4
  <2>6. backup' = backup BY <1>8
  <2> QED BY <1>1, <1>2, <2>1, <2>2, <2>4, <2>5, <2>6, WriteGoesOn
<1>9. \/ Ops!Fails(shut) /\ Ops!Ends("partial")
      \/ /\ clash /\ parked' = parked \cup {"update"}
         /\ IF n = "child"
            THEN handler' = [handler EXCEPT !.todo = {}] /\ UNCHANGED reported
            ELSE Ops!Ends("conflict")
         /\ UNCHANGED <<trees, base, backup, vouched, Ops!rest>>
      \/ /\ ~ shut /\ ~ clash
         /\ trees' = [trees EXCEPT ![p] = w]
         /\ Ops!Record(p, {n}, [m \in {n} |-> handler.text])
         /\ handler' = [handler EXCEPT !.todo = handler.todo \ {n}]
         /\ UNCHANGED <<reported, parked, backup, Ops!rest>>
  BY DEF Ops!WriteFile
<1> QED BY <1>6, <1>7, <1>8, <1>9

LEMMA WrittenReport ==
    ASSUME TreeInv, ReportInv, Ops!Written
    PROVE  ReportInv'
<1>1. Observed BY RemoveObserves DEF Ops!Remove
<1>2. /\ handler.op \in {"transition", "replace"} /\ handler.at = "files" /\ handler.todo = {}
      /\ IsHandler(handler) /\ Quiet
  BY Looking DEF Ops!Written, Ops!At, TreeInv, TreeTypes
<1> USE <1>2
<1>3. ~ touched => RemoveReports /\ WriteReports BY WriteIs
<1>4. ~ touched => trees[Ops!Target] # NoTree BY <1>3 DEF WriteReports
<1>5. CASE handler.op = "transition" /\ Ops!Go("fence")
  <2>1. /\ handler'.op = "transition" /\ handler'.at = "fence"
             /\ handler'.fenced = handler.fenced
    BY <1>5, GoesIs
  <2>2. ~ touched => RemoveReports'
    BY <1>3, <1>4, <1>5, <2>1 DEF RemoveReports, Ops!Target, Quiet, Ops!Removing
  <2>3. WriteReports' BY <2>1 DEF WriteReports
  <2> QED BY <1>1, <2>1, <2>2, <2>3, RemoveReported DEF Ops!Removing
<1>6. CASE Ops!Ends("applied") /\ ~ (handler.op = "transition" /\ before["src"] # NoTree)
  <2>1. reported'.op = handler.op BY <1>6 DEF Ops!Ends
  <2>2. CASE handler.op = "transition"
    <3>1. ~ touched => trees["src"] = NoTree /\ trees["dst"] # NoTree
      BY <1>3, <1>4, <1>6, <2>2 DEF WriteReports, Was, Ops!Target
    <3>2. ~ touched => Ops!Applied'
      BY <1>1, <1>6, <2>1, <2>2, <3>1 DEF Ops!Applied, Ops!OneShape, Quiet, Observed
    <3>3. ~ touched => (Told("applied"))' BY <2>1, <2>2, <3>2 DEF Told, Ops!Ops
    <3> QED BY <1>1, <1>6, <3>3, ReportEnds
  <2>3. CASE handler.op = "replace"
    <3>1. ~ touched => /\ trees["src"] # NoTree /\ Ops!Based("src")
                            /\ Ops!Held(Was) \subseteq backup
      BY <1>3, <1>4, <2>3 DEF WriteReports, RemoveReports, Ops!Target, Ops!Removing
    <3>2. Ops!Based("src") => Ops!Based("src")' BY DEF Ops!Based, Quiet
    <3>3. ~ touched => Ops!Applied'
      BY <1>1, <2>1, <2>3, <3>1, <3>2 DEF Ops!Applied, Was, Quiet, Observed
    <3>4. ~ touched => (Told("applied"))' BY <2>1, <2>3, <3>1, <3>3 DEF Told, Quiet, Ops!Ops
    <3> QED BY <1>1, <1>6, <3>4, ReportEnds
  <2> QED BY <2>2, <2>3
<1> QED BY <1>5, <1>6 DEF Ops!Written

-------------------------------------------------------------------------------
(* What an operation that restores answers. *)

LEMMA RestoreReported ==
    ASSUME ReportInv, Observed, handler'.op = "restore", handler'.at # "idle",
           ~ touched => RestoreReports'
    PROVE  ReportInv'
BY DEF ReportInv, Observed, RenameReports, RemoveReports, WriteReports, Ops!Removing

LEMMA RestoreIs ==
    ASSUME ReportInv, handler.op = "restore", handler.at # "idle", ~ touched
    PROVE  /\ handler.at \in {"check", "capture", "outer"} => trees = before
           /\ handler.at = "capture" => before["src"] = NoTree
           /\ handler.at \notin {"check", "capture"} =>
                 before["src"] = NoTree /\ before["dst"] = handler.fence
                   /\ handler.fence # NoTree
           /\ handler.at \in {"moved", "install", "undo"} =>
                 trees["src"] = handler.fence /\ trees["dst"] = NoTree
           /\ handler.at = "undo" => spent > 0
BY DEF ReportInv, RestoreReports

LEMMA RestoreLooksReport ==
    ASSUME TreeInv, ReportInv, Ops!CheckRestore \/ Ops!CaptureRestore \/ Ops!RestoreVerifies
    PROVE  ReportInv'
<1>1. Observed BY RestoreObserves DEF Ops!Restore
<1>2. handler.op = "restore" /\ IsHandler(handler) /\ trees' = trees
  BY Looking
  DEF Ops!CheckRestore, Ops!CaptureRestore, Ops!RestoreVerifies, Ops!At, TreeInv,
      TreeTypes, Quiet
<1>3. CASE Ops!CheckRestore
  <2>1. handler.at = "check" BY <1>3 DEF Ops!CheckRestore, Ops!At
  <2>2. ~ touched => trees = before BY <1>2, <2>1, RestoreIs
  <2>3. CASE Ops!Reparked("refused") BY <1>1, <1>2, <2>2, <2>3, Looking, ReportRefused
  <2>4. CASE trees["src"] = NoTree /\ Ops!Go("capture")
    <3>1. handler'.op = "restore" /\ handler'.at = "capture" BY <1>2, <2>4, GoesIs
    <3>2. ~ touched => RestoreReports'
      BY <1>1, <1>2, <2>2, <2>4, <3>1 DEF RestoreReports, Observed
    <3> QED BY <1>1, <3>1, <3>2, RestoreReported
  <2> QED BY <1>3, <2>3, <2>4 DEF Ops!CheckRestore
<1>5. CASE Ops!CaptureRestore
  <2>1. handler.at = "capture" BY <1>5 DEF Ops!CaptureRestore, Ops!At
  <2>2. ~ touched => trees = before /\ before["src"] = NoTree BY <1>2, <2>1, RestoreIs
  <2>3. CASE Ops!Reparked("refused") BY <1>1, <1>2, <2>2, <2>3, Looking, ReportRefused
  <2>4. CASE /\ trees["dst"] # NoTree
             /\ handler' = [handler EXCEPT !.at = "outer", !.fence = trees["dst"]]
    <3>1. handler'.op = "restore" /\ handler'.at = "outer" /\ handler'.fence = trees["dst"]
      BY <1>2, <2>4 DEF IsHandler
    <3>2. ~ touched => RestoreReports'
      BY <1>1, <1>2, <2>2, <2>4, <3>1 DEF RestoreReports, Observed
    <3> QED BY <1>1, <3>1, <3>2, RestoreReported
  <2> QED BY <1>5, <2>3, <2>4 DEF Ops!CaptureRestore
<1>4. CASE Ops!RestoreVerifies
  <2>1. handler.at = "moved" BY <1>4 DEF Ops!RestoreVerifies, Ops!At
  <2>2. CASE Ops!Fails(trees["src"] # handler.fence) /\ Ops!Reparked("late")
    <3>1. ~ touched => spent' > 0
      BY <1>1, <1>2, <2>1, <2>2, RestoreIs DEF Ops!Fails, Observed, ReportInv
    <3> QED BY <1>1, <2>2, <3>1, Looking, ReportFailed
  <2>3. CASE Ops!Go("install")
    <3>1. handler'.op = "restore" /\ handler'.at = "install" /\ handler'.fence = handler.fence
      BY <1>2, <2>3, GoesIs
    <3>2. ~ touched => RestoreReports'
      BY <1>1, <1>2, <2>1, <3>1, RestoreIs DEF RestoreReports, Observed
    <3> QED BY <1>1, <3>1, <3>2, RestoreReported
  <2> QED BY <1>4, <2>2, <2>3 DEF Ops!RestoreVerifies
<1> QED BY <1>3, <1>4, <1>5

LEMMA RestoreMovesReport ==
    ASSUME TreeInv, ReportInv, Ops!RestoreMoves \/ Ops!RestoreUndoes
    PROVE  ReportInv'
<1>1. Observed BY RestoreObserves DEF Ops!Restore
<1>2. /\ handler.op = "restore" /\ IsHandler(handler)
      /\ trees \in [Ops!Places -> Ops!Trees \cup {NoTree}]
  BY DEF Ops!RestoreMoves, Ops!RestoreUndoes, Ops!At, TreeInv, TreeTypes
<1>3. CASE Ops!RestoreMoves
  <2>1. handler.at = "outer" BY <1>3 DEF Ops!RestoreMoves, Ops!At
  <2>2. ~ touched => /\ trees = before /\ before["src"] = NoTree
                     /\ before["dst"] = handler.fence /\ handler.fence # NoTree
    BY <1>2, <2>1, RestoreIs
  <2>3. CASE Ops!Reparked("refused") BY <1>1, <2>2, <2>3, Looking, ReportRefused DEF Quiet
  <2>4. CASE Ops!Move("dst", "src") /\ Ops!Go("moved")
    <3>1. handler'.op = "restore" /\ handler'.at = "moved" /\ handler'.fence = handler.fence
      BY <1>2, <2>4, GoesIs
    <3>2. trees'["src"] = trees["dst"] /\ trees'["dst"] = NoTree
      BY <1>2, <2>4, NamesAre DEF Ops!Move
    <3>3. ~ touched => RestoreReports'
      BY <1>1, <2>2, <3>1, <3>2 DEF RestoreReports, Observed
    <3> QED BY <1>1, <3>1, <3>3, RestoreReported
  <2> QED BY <1>3, <2>3, <2>4 DEF Ops!RestoreMoves
<1>4. CASE Ops!RestoreUndoes
  <2>1. handler.at = "undo" BY <1>4 DEF Ops!RestoreUndoes, Ops!At
  <2>2. ~ touched => /\ before["src"] = NoTree /\ before["dst"] = handler.fence
                     /\ trees["src"] = handler.fence /\ trees["dst"] = NoTree /\ spent > 0
    BY <1>2, <2>1, RestoreIs
  <2>3. CASE /\ Ops!Fails(~ (trees["src"] = handler.fence /\ trees["dst"] = NoTree))
             /\ Ops!Reparked("left")
    <3>1. ~ touched => spent' > 1 BY <1>1, <2>2, <2>3 DEF Ops!Fails, Observed, ReportInv
    <3> QED BY <1>1, <2>3, <3>1, Looking, ReportFailed DEF Observed
  <2>4. CASE Ops!Move("src", "dst") /\ Ops!Ends("restored")
    <3>1. ~ touched => trees' = before
      <4> SUFFICES ASSUME ~ touched PROVE trees' = before OBVIOUS
      <4>1. /\ trees' \in [Ops!Places -> Ops!Trees \cup {NoTree}]
            /\ trees'["src"] = NoTree /\ trees'["dst"] = trees["src"]
        BY <1>2, <2>4, NamesAre DEF Ops!Move
      <4> QED BY <2>2, <4>1, PlacesEqual DEF ReportInv
    <3>2. ~ touched => (Told("restored"))' BY <1>1, <3>1 DEF Told, Observed
    <3> QED BY <1>1, <2>4, <3>2, ReportEnds
  <2> QED BY <1>4, <2>3, <2>4 DEF Ops!RestoreUndoes
<1> QED BY <1>3, <1>4

LEMMA RestoreWritesReport ==
    ASSUME TreeInv, ReportInv, Ops!RestoreWrites
    PROVE  ReportInv'
<1>1. Observed BY RestoreObserves DEF Ops!Restore
<1>2. /\ handler.op = "restore" /\ handler.at = "install" /\ IsHandler(handler)
      /\ trees \in [Ops!Places -> Ops!Trees \cup {NoTree}] /\ Ops!TreesAssumption
  BY DEF Ops!RestoreWrites, Ops!At, TreeInv, TreeTypes
<1>3. ~ touched => /\ before["src"] = NoTree /\ before["dst"] = handler.fence
                   /\ handler.fence # NoTree /\ trees["src"] = handler.fence
                        /\ trees["dst"] = NoTree
  BY <1>2, RestoreIs
<1>4. /\ handler.fence # NoTree /\ trees["src"] = handler.fence /\ handler.text \in Numbers
      /\ handler.fence \in Ops!Trees
  BY <1>2 DEF TreeInv, HandlerHolds, RestoreHolds, TextHolds, TreeTypes, IsHandler, Numbers
<1> DEFINE w == IF handler.fence.dir THEN Ops!With(handler.fence, "old", handler.text)
                ELSE Ops!Leaf(handler.text)
<1>5. \/ Ops!Fails(FALSE) /\ Ops!Looks /\ Ops!Go("undo")
      \/ trees' = [trees EXCEPT !["src"] = w] /\ Ops!Ends("applied")
  BY <1>4 DEF Ops!RestoreWrites
<1>6. CASE Ops!Fails(FALSE) /\ Ops!Looks /\ Ops!Go("undo")
  <2>1. handler'.op = "restore" /\ handler'.at = "undo" /\ handler'.fence = handler.fence
    BY <1>2, <1>6, GoesIs
  <2>2. trees' = trees /\ spent' > 0
    BY <1>1, <1>6, Looking DEF Quiet, Ops!Fails, Observed, ReportInv
  <2>3. ~ touched => RestoreReports' BY <1>1, <1>3, <2>1, <2>2 DEF RestoreReports, Observed
  <2> QED BY <1>1, <2>1, <2>3, RestoreReported
<1>7. CASE trees' = [trees EXCEPT !["src"] = w] /\ Ops!Ends("applied")
  <2>1. w \in Ops!Trees
    <3>1. CASE handler.fence.dir BY <1>2, <1>4, <3>1, NamesAre, WithFiles
    <3>2. CASE ~ handler.fence.dir BY <1>4, <3>2, NewTrees
    <3> QED BY <3>1, <3>2
  <2> HIDE DEF w
  <2>2. w # NoTree BY <1>2, <2>1, StartsAre
  <2>3. trees'["src"] = w /\ trees'["dst"] = trees["dst"] BY <1>2, <1>7, NamesAre
  <2>4. reported'.op = "restore" BY <1>2, <1>7 DEF Ops!Ends
  <2>5. ~ touched => Ops!Applied' BY <1>3, <2>2, <2>3, <2>4 DEF Ops!Applied
  <2>6. ~ touched => (Told("applied"))' BY <2>4, <2>5 DEF Told, Ops!Ops
  <2> QED BY <1>1, <1>7, <2>6, ReportEnds
<1> QED BY <1>5, <1>6, <1>7

-------------------------------------------------------------------------------
(* An operation arrives, an editor is at work, and both sides are brought up. *)

LEMMA ArrivesReport ==
    ASSUME TreeInv, Ops!Arrives
    PROVE  ReportInv'
<1>1. PICK op \in Ops!Ops, d \in BOOLEAN :
         handler' = [Ops!Idle EXCEPT !.op = op, !.dir = d, !.text = fresh,
                       !.at = IF op = "remove" THEN "fence" ELSE "check"]
  BY DEF Ops!Arrives
<1>2. /\ trees' = trees /\ before' = trees /\ spent' = 0
      /\ trees \in [Ops!Places -> Ops!Trees \cup {NoTree}]
  BY DEF Ops!Arrives, TreeInv, TreeTypes
<1>3. /\ handler'.op = op /\ ~ handler'.fenced
      /\ handler'.at = IF op = "remove" THEN "fence" ELSE "check"
  BY <1>1 DEF Ops!Idle
<1>4. RenameReports' /\ RestoreReports'
  BY <1>2, <1>3 DEF RenameReports, RenameKnown, RenameReached, RestoreReports
<1>5. RemoveReports' /\ WriteReports' BY <1>2, <1>3 DEF RemoveReports, WriteReports
<1> QED BY <1>2, <1>3, <1>4, <1>5 DEF ReportInv

LEMMA EditsReport ==
    ASSUME ReportInv, Ops!Saves \/ Ops!Creates \/ Ops!Erases \/ Ops!Renames
    PROVE  ReportInv'
<1>1. touched' = TRUE /\ UNCHANGED <<before, spent>>
  BY DEF Ops!Saves, Ops!Creates, Ops!Erases, Ops!Renames, Ops!Edits
<1> QED BY <1>1 DEF ReportInv

LEMMA SyncsReport ==
    ASSUME TreeInv, ReportInv, Ops!Syncs
    PROVE  ReportInv'
<1>1. /\ handler.at = "idle" /\ parked = {}
      /\ UNCHANGED <<trees, parked, backup, handler, reported, before, touched, spent>>
      /\ base' = [q \in Ops!Paths |-> IF Ops!Has(trees[q[1]], q[2])
                                          THEN trees[q[1]].files[q[2]] ELSE 0]
  BY DEF Ops!Syncs
<1>2. trees \in [Ops!Places -> Ops!Trees \cup {NoTree}] /\ Ops!TreesAssumption
  BY DEF TreeInv, TreeTypes
<1>3. ASSUME NEW p \in Ops!Places
      PROVE  /\ trees[p] = NoTree => Ops!Nobody(p)'
             /\ trees[p] # NoTree => Ops!Based(p)'
  <2>1. trees[p] = NoTree => Ops!Nobody(p)' BY <1>1, NamesAre, NoneIs DEF Ops!Nobody
  <2>2. ASSUME trees[p] # NoTree, NEW n \in DOMAIN trees[p].files
        PROVE  base'[<<p, n>>] = trees[p].files[n]
    <3>1. n \in Ops!Names /\ Ops!Has(trees[p], n) BY <1>2, <2>2, TreeIs
    <3> QED BY <1>1, <3>1, NamesAre
  <2> QED BY <1>1, <2>1, <2>2 DEF Ops!Based
<1>4. /\ trees["src"] = NoTree => Ops!Nobody("src")'
      /\ trees["src"] # NoTree => Ops!Based("src")'
      /\ trees["dst"] # NoTree => Ops!Based("dst")'
  BY <1>3, NamesAre
<1> USE <1>1 DEF Ops!Applied
<1>5. reported.op \in Ops!Ops /\ Ops!Applied
        /\ (reported.op = "replace" => trees["src"] # NoTree) => Ops!Applied'
  <2>1. CASE reported.op = "rename" BY <1>4, <2>1 DEF Ops!OneShape
  <2>2. CASE reported.op \in {"delete", "remove"} BY <1>4, <2>2
  <2>3. CASE reported.op = "transition" BY <1>4, <2>3 DEF Ops!OneShape
  <2>4. CASE reported.op = "replace" BY <1>4, <2>4
  <2>5. CASE reported.op = "restore" BY <2>5
  <2> QED BY <2>1, <2>2, <2>3, <2>4, <2>5 DEF Ops!Ops
<1>6. ~ touched /\ reported # NoTree => (Told(reported.result))' BY <1>5 DEF ReportInv, Told
<1> QED BY <1>6 DEF ReportInv

-------------------------------------------------------------------------------
LEMMA ReportStarts ==
    ASSUME TreeInv, Ops!Init
    PROVE  ReportInv
BY DEF TreeInv, TreeTypes, Ops!Init, Ops!Idle, ReportInv

LEMMA ReportStep ==
    ASSUME TreeInv, ReportInv, [Ops!Next]_Ops!vars
    PROVE  ReportInv'
<1>1. CASE Ops!Arrives BY <1>1, ArrivesReport
<1>2. CASE Ops!Rename
  BY <1>2, RenameStartsReport, RenameLooksReport, RenameMovesReport, RenameInitsReport,
     RenameUndoesReport, RenameRebasesReport DEF Ops!Rename
<1>3. CASE Ops!Remove
  BY <1>3, RemoveChecksReport, BackupsReport, RemovalFencesReport, RemovesFileReport,
     RemovesRestReport, WritesDirectoryReport, WritesFileReport, WrittenReport DEF
     Ops!Remove
<1>4. CASE Ops!Restore
  BY <1>4, RestoreLooksReport, RestoreMovesReport, RestoreWritesReport DEF Ops!Restore
<1>5. CASE Ops!Editor BY <1>5, EditsReport, SyncsReport DEF Ops!Editor
<1>6. CASE UNCHANGED Ops!vars
  <2>1. UNCHANGED <<trees, base, parked, backup, handler, reported, before, touched, spent>>
    BY <1>6 DEF Ops!vars
  <2>2. /\ RenameReports => RenameReports'
        /\ RestoreReports => RestoreReports'
    BY <2>1 DEF RenameReports, RenameKnown, RenameReached, MovedTo, Was, Goal, Ops!Staged,
       Ops!Nobody, RestoreReports
  <2>3. /\ RemoveReports => RemoveReports'
        /\ WriteReports => WriteReports'
    BY <2>1 DEF RemoveReports, WriteReports, Was, Ops!Target, Ops!Based
  <2>4. Told(reported.result) => (Told(reported.result))'
    BY <2>1 DEF Told, Ops!Applied, Ops!OneShape, Ops!Based, Ops!Nobody
  <2> QED BY <2>1, <2>2, <2>3, <2>4 DEF ReportInv
<1> QED BY <1>1, <1>2, <1>3, <1>4, <1>5, <1>6 DEF Ops!Next

(* What an operation on a tree answers is so, when no editor was at work meanwhile: what was
   refused or rolled back has changed nothing, one failure of a renaming is always rolled
   back, and what was applied is there, whole, with its baselines. *)
THEOREM ReportsAreTrue ==
    Ops!TreesAssumption /\ ~ LateEdits => (Ops!Spec => []Ops!ReportIsTrue)
<1> SUFFICES ASSUME Ops!TreesAssumption, ~ LateEdits
    PROVE Ops!Spec => []Ops!ReportIsTrue
  OBVIOUS
<1>1. Ops!Init => TreeInv /\ ReportInv BY TreeStarts, ReportStarts
<1>2. TreeInv /\ ReportInv /\ [Ops!Next]_Ops!vars => (TreeInv /\ ReportInv)'
  BY TreeStep, ReportStep
<1>3. ReportInv => Ops!ReportIsTrue BY DEF ReportInv, Told, Ops!ReportIsTrue
<1> QED BY <1>1, <1>2, <1>3, PTL DEF Ops!Spec

(* An operation takes nothing of the user's that Studio does not have, and what it answers
   is so (TreeIsKept). *)
THEOREM TreesAreKept ==
    Ops!TreesAssumption /\ ~ LateEdits => (Ops!Spec => []TreeIsKept)
<1>1. Ops!UserKept /\ Ops!ReportIsTrue => TreeIsKept BY DEF TreeIsKept
<1> QED BY <1>1, UserWorkIsKept, ReportsAreTrue, PTL
==============================================================================
