----------------------- MODULE DiscordConversationProofs -----------------------
(***************************************************************************)
(* Theorems about DiscordConversation, for every number of messages and    *)
(* crashes, every set of channels, inputs and faults, and every bound on   *)
(* the blocks of a reply: types, one turn a channel, what the history says *)
(* of Discord, the end of a cancelled turn, the order of the texts, and    *)
(* the refinement of ChannelTurns.                                         *)
(***************************************************************************)
EXTENDS DiscordConversation, FiniteSetTheorems, TLAPS

-----------------------------------------------------------------------------
(* Types.                                                                  *)

\* Where the send and save loops stand: a block is sent only while one is
\* left, and saved only if it was sent.
BeforeSend == {"new", "prep", "queued", "typing", "save_user", "load", "llm"}

Counters ==
    \A m \in Messages :
        /\ acked[m] <= blocks[m]
        /\ pc[m] \in BeforeSend => acked[m] = 0 /\ saved[m] = 0
        /\ pc[m] \in {"send", "pause"} => acked[m] < blocks[m] /\ saved[m] = 0
        /\ pc[m] \in {"save_reply", "save_partial"} => saved[m] < acked[m]

Typed == TypeOK /\ Counters

\* The assumptions on the constants, for use in the leaves.
LEMMA ConstantTypes ==
    /\ NumMessages \in Nat
    /\ MaxBlocks \in Nat
    /\ MaxBlocks > 0
    /\ MaxCrashes \in Nat
    /\ None \notin Messages
    /\ \A i \in Inputs : i.chan \in Channels
  BY BoundsAssumption, InputsAssumption, NoneAssumption

LEMMA SlotFacts == 0 \in Slots /\ 1 \in Slots
  BY ConstantTypes DEF Slots

LEMMA TypedInit == Init => Typed
  BY ConstantTypes DEF Init, Typed, TypeOK, Counters, BeforeSend, Slots,
                       Messages, DocStates, Awaits

\* The writes to the history, and the end of a task, keep the types.
LEMMA SetDocType ==
    ASSUME TypeOK, NEW m \in Messages, NEW k \in Slots, NEW s \in DocStates,
           SetDoc(m, k, s)
    PROVE  doc' \in [Messages -> [Slots -> DocStates]]
  BY DEF TypeOK, SetDoc

LEMMA StampType ==
    ASSUME TypeOK, NEW m \in Messages, NEW k \in Slots, Stamp(m, k)
    PROVE  /\ doc' \in [Messages -> [Slots -> DocStates]]
           /\ time' \in [Messages -> [Slots -> Nat]]
           /\ clock' \in Nat
  <1>1. "flying" \in DocStates
    BY DEF DocStates
  <1>2. doc' \in [Messages -> [Slots -> DocStates]]
    BY <1>1 DEF TypeOK, Stamp
  <1>3. clock + 1 \in Nat
    BY DEF TypeOK
  <1>4. time' \in [Messages -> [Slots -> Nat]]
    BY <1>3 DEF TypeOK, Stamp
  <1> QED
    BY <1>2, <1>3, <1>4 DEF Stamp

LEMMA SavedAndStampType ==
    ASSUME TypeOK, NEW m \in Messages, NEW j \in Slots, NEW k,
           clock' = clock + 1,
           time' = [time EXCEPT ![m][k] = clock + 1],
           doc' = [doc EXCEPT ![m][j] = "stored", ![m][k] = "flying"]
    PROVE  /\ doc' \in [Messages -> [Slots -> DocStates]]
           /\ time' \in [Messages -> [Slots -> Nat]]
           /\ clock' \in Nat
  <1> DEFINE mid == [doc EXCEPT ![m][j] = "stored"]
  <1>1. "stored" \in DocStates /\ "flying" \in DocStates
    BY DEF DocStates
  <1>2. mid \in [Messages -> [Slots -> DocStates]]
    BY <1>1 DEF TypeOK
  <1>3. doc' = [mid EXCEPT ![m][k] = "flying"]
    OBVIOUS
  <1>4. doc' \in [Messages -> [Slots -> DocStates]]
    BY <1>1, <1>2, <1>3
  <1>5. clock + 1 \in Nat
    BY DEF TypeOK
  <1>6. time' \in [Messages -> [Slots -> Nat]]
    BY <1>5 DEF TypeOK
  <1> QED
    BY <1>4, <1>5, <1>6

LEMMA FinishType ==
    ASSUME TypeOK, NEW m \in Messages, NEW e \in Ends, Finish(m, e)
    PROVE  /\ pc' = [pc EXCEPT ![m] = e]
           /\ pc' \in [Messages -> {"new", "prep"} \cup Awaits \cup Ends]
           /\ active' \in [Channels -> Messages \cup {None}]
  BY DEF TypeOK, Finish, Goto, Released

LEMMA SaveBlocksType ==
    ASSUME TypeOK, NEW m \in Messages, NEW n \in Slots, NEW p \in Awaits,
           NEW e \in Ends, SaveBlocks(m, n, p, e)
    PROVE  /\ pc' = [pc EXCEPT ![m] = IF n = 0 THEN e ELSE p]
           /\ pc' \in [Messages -> {"new", "prep"} \cup Awaits \cup Ends]
           /\ active' \in [Channels -> Messages \cup {None}]
           /\ doc' \in [Messages -> [Slots -> DocStates]]
           /\ time' \in [Messages -> [Slots -> Nat]]
           /\ clock' \in Nat
  <1>1. CASE n = 0
    BY <1>1, FinishType DEF SaveBlocks, TypeOK
  <1>2. CASE n # 0
    BY <1>2, SlotFacts, StampType DEF SaveBlocks, Goto, TypeOK
  <1> QED
    BY <1>1, <1>2

LEMMA MaybePostedType ==
    ASSUME Typed, NEW m \in Messages, pc[m] \in {"send", "pause"},
           MaybePosted(m) \/ UNCHANGED posted
    PROVE  posted' \in [Messages -> SUBSET (1 .. MaxBlocks)]
  <1>1. acked[m] + 1 \in 1 .. MaxBlocks
    BY ConstantTypes DEF Typed, TypeOK, Counters, Slots
  <1>2. posted \in [Messages -> SUBSET (1 .. MaxBlocks)]
    BY DEF Typed, TypeOK
  <1>3. posted[m] \cup {acked[m] + 1} \in SUBSET (1 .. MaxBlocks)
    BY <1>1, <1>2
  <1> QED
    BY <1>2, <1>3 DEF MaybePosted

LEMMA TypesNext == Typed /\ [Next]_vars => TypeOK'
  <1> SUFFICES ASSUME Typed, [Next]_vars PROVE TypeOK'
    OBVIOUS
  <1> USE ConstantTypes DEF Typed, TypeOK, Slots, DocIds, C, Awaits, Ends, At,
          Goto
  <1>0. {"stored", "lost", "kept", "deleted", "flying"} \subseteq DocStates
    BY DEF DocStates
  <1>1. ASSUME NEW m \in Messages, Receive(m) PROVE TypeOK'
    BY <1>1 DEF Receive
  <1>2. ASSUME NEW m \in Messages, Ignore(m) PROVE TypeOK'
    BY <1>2 DEF Ignore
  <1>3. ASSUME NEW m \in Messages, StartConversation(m) PROVE TypeOK'
    BY <1>3 DEF StartConversation
  <1>4. ASSUME NEW m \in Messages, TurnBegins(m) PROVE TypeOK'
    BY <1>4 DEF TurnBegins
  <1>5. ASSUME NEW m \in Messages, TypingShown(m) PROVE TypeOK'
    <2> HIDE DEF TypeOK, Slots
    <2>1. /\ doc' \in [Messages -> [Slots -> DocStates]]
          /\ time' \in [Messages -> [Slots -> Nat]]
          /\ clock' \in Nat
      BY <1>5, SlotFacts, StampType DEF TypingShown
    <2> QED
      BY <1>5, <2>1 DEF TypingShown, TypeOK
  <1>6. ASSUME NEW m \in Messages, TypingFails(m) PROVE TypeOK'
    BY <1>6 DEF TypingFails
  <1>7. ASSUME NEW m \in Messages, UserSaved(m) PROVE TypeOK'
    <2> HIDE DEF TypeOK, Slots
    <2>1. doc' \in [Messages -> [Slots -> DocStates]]
      BY <1>7, <1>0, SlotFacts, SetDocType DEF UserSaved
    <2> QED
      BY <1>7, <2>1 DEF UserSaved, TypeOK
  <1>8. ASSUME NEW m \in Messages, UserSaveFails(m) PROVE TypeOK'
    <2> HIDE DEF TypeOK, Slots
    <2>1. doc' \in [Messages -> [Slots -> DocStates]]
      BY <1>8, <1>0, SlotFacts, SetDocType DEF UserSaveFails
    <2> QED
      BY <1>8, <2>1 DEF UserSaveFails, TypeOK
  <1>9. ASSUME NEW m \in Messages, HistoryLoaded(m) PROVE TypeOK'
    BY <1>9 DEF HistoryLoaded
  <1>10. ASSUME NEW m \in Messages, HistoryLoadFails(m) PROVE TypeOK'
    BY <1>10 DEF HistoryLoadFails
  <1>11. ASSUME NEW m \in Messages, LlmBlocked(m) PROVE TypeOK'
    BY <1>11 DEF LlmBlocked
  <1>12. ASSUME NEW m \in Messages, LlmFails(m) PROVE TypeOK'
    BY <1>12 DEF LlmFails
  <1>13. ASSUME NEW m \in Messages, LlmReplies(m) PROVE TypeOK'
    <2>1. PICK n \in Slots :
            /\ blocks' = [blocks EXCEPT ![m] = n]
            /\ IF n = 0 THEN Finish(m, "replied")
                        ELSE Goto(m, "send") /\ UNCHANGED active
      BY <1>13 DEF LlmReplies
    <2>2. CASE n = 0
      BY <1>13, <2>1, <2>2, FinishType DEF LlmReplies
    <2>3. CASE n # 0
      BY <1>13, <2>1, <2>3 DEF LlmReplies
    <2> QED
      BY <2>2, <2>3
  <1>14. ASSUME NEW m \in Messages, BlockSent(m) PROVE TypeOK'
    <2>1. acked[m] + 1 \in 1 .. MaxBlocks
      BY <1>14 DEF BlockSent, Counters
    <2>2. /\ acked' \in [Messages -> Slots]
          /\ posted' \in [Messages -> SUBSET (1 .. MaxBlocks)]
      BY <1>14, <2>1 DEF BlockSent
    <2>3. CASE acked[m] + 1 < blocks[m]
      BY <1>14, <2>2, <2>3 DEF BlockSent
    <2>4. CASE ~ (acked[m] + 1 < blocks[m])
      <3>1. SaveBlocks(m, acked[m] + 1, "save_reply", "replied")
        BY <1>14, <2>4 DEF BlockSent
      <3> QED
        BY <1>14, <2>2, <3>1, SaveBlocksType DEF BlockSent
    <2> QED
      BY <2>3, <2>4
  <1>15. ASSUME NEW m \in Messages, BlockSendFails(m) PROVE TypeOK'
    <2>1. posted' \in [Messages -> SUBSET (1 .. MaxBlocks)]
      BY <1>15, MaybePostedType DEF BlockSendFails
    <2> QED
      BY <1>15, <2>1 DEF BlockSendFails
  <1>16. ASSUME NEW m \in Messages, PauseOver(m) PROVE TypeOK'
    BY <1>16 DEF PauseOver
  <1>17. ASSUME NEW m \in Messages, BlockSaved(m) PROVE TypeOK'
    <2>1. PICK p \in {"save_reply", "save_partial"} :
            /\ At(m, p)
            /\ IF saved[m] + 1 < ToSave(m)
                 THEN /\ clock' = clock + 1
                      /\ time' = [time EXCEPT ![m][saved[m] + 2] = clock + 1]
                      /\ doc' = [doc EXCEPT ![m][saved[m] + 1] = "stored",
                                            ![m][saved[m] + 2] = "flying"]
                      /\ UNCHANGED << pc, active >>
                 ELSE /\ SetDoc(m, saved[m] + 1, "stored")
                      /\ Finish(m, EndOfSave(p))
                      /\ UNCHANGED << time, clock >>
      BY <1>17 DEF BlockSaved
    <2>2. saved[m] + 1 \in Slots /\ saved' \in [Messages -> Slots]
      BY <1>17, <2>1 DEF BlockSaved, Counters
    <2>3. CASE saved[m] + 1 < ToSave(m)
      <3>1. /\ doc' \in [Messages -> [Slots -> DocStates]]
            /\ time' \in [Messages -> [Slots -> Nat]]
            /\ clock' \in Nat
        <4> HIDE DEF TypeOK, Slots
        <4> QED
          BY <2>1, <2>2, <2>3, SavedAndStampType
      <3> QED
        BY <1>17, <2>1, <2>2, <2>3, <3>1 DEF BlockSaved
    <2>4. CASE ~ (saved[m] + 1 < ToSave(m))
      <3>1. doc' \in [Messages -> [Slots -> DocStates]]
        BY <1>0, <2>1, <2>2, <2>4, SetDocType
      <3>2. /\ pc' \in [Messages -> {"new", "prep"} \cup Awaits \cup Ends]
            /\ active' \in [Channels -> Messages \cup {None}]
        <4>1. EndOfSave(p) \in Ends
          BY DEF EndOfSave
        <4>2. Finish(m, EndOfSave(p))
          BY <2>1, <2>4
        <4> HIDE DEF Awaits, Ends
        <4> QED
          BY <4>1, <4>2, FinishType
      <3> QED
        BY <1>17, <2>1, <2>2, <2>4, <3>1, <3>2 DEF BlockSaved
    <2> QED
      BY <2>3, <2>4
  <1>18. ASSUME NEW m \in Messages, BlockSaveFails(m) PROVE TypeOK'
    <2>1. saved[m] + 1 \in Slots
      BY <1>18 DEF BlockSaveFails, Counters
    <2>2. doc' \in [Messages -> [Slots -> DocStates]]
      BY <1>18, <1>0, <2>1, SetDocType DEF BlockSaveFails
    <2> QED
      BY <1>18, <2>2 DEF BlockSaveFails
  <1>19. ASSUME NEW m \in Messages, UserDiscarded(m) PROVE TypeOK'
    <2> HIDE DEF TypeOK, Slots
    <2>1. doc' \in [Messages -> [Slots -> DocStates]]
      BY <1>19, <1>0, SlotFacts, SetDocType DEF UserDiscarded, Discarded
    <2> QED
      BY <1>19, <2>1 DEF UserDiscarded, TypeOK
  <1>20. ASSUME NEW m \in Messages, UserDiscardFails(m) PROVE TypeOK'
    <2> HIDE DEF TypeOK, Slots
    <2>1. doc' \in [Messages -> [Slots -> DocStates]]
      BY <1>20, <1>0, SlotFacts, SetDocType DEF UserDiscardFails
    <2> QED
      BY <1>20, <2>1 DEF UserDiscardFails, TypeOK
  <1>21. ASSUME NEW m \in Messages, Notified(m) PROVE TypeOK'
    <2>1. PICK e \in Ends : Finish(m, e)
      BY <1>21 DEF Notified
    <2> QED
      BY <1>21, <2>1, FinishType DEF Notified
  <1>22. ASSUME NEW m \in Messages, CancelledBeforeFirstStep(m) PROVE TypeOK'
    BY <1>22 DEF CancelledBeforeFirstStep, CancelSeen
  <1>23. ASSUME NEW m \in Messages, CancelledWhilePosting(m) PROVE TypeOK'
    <2>1. posted' \in [Messages -> SUBSET (1 .. MaxBlocks)]
      BY <1>23, MaybePostedType DEF CancelledWhilePosting
    <2>2. acked[m] \in Slots
      OBVIOUS
    <2>3. SaveBlocks(m, acked[m], "save_partial", "cancelled")
      BY <1>23 DEF CancelledWhilePosting, SavesWhatWasSent, ToSave
    <2> QED
      BY <1>23, <2>1, <2>2, <2>3, SaveBlocksType
      DEF CancelledWhilePosting, CancelSeen
  <1>24. ASSUME NEW m \in Messages, CancelledElsewhere(m) PROVE TypeOK'
    <2> HIDE DEF TypeOK, Slots
    <2>1. doc' \in [Messages -> [Slots -> DocStates]]
      BY <1>24, <1>0, SlotFacts, SetDocType
      DEF CancelledElsewhere, TypeOK
    <2>2. Finish(m, "cancelled")
      BY <1>24 DEF CancelledElsewhere
    <2> QED
      BY <1>24, <2>1, <2>2, FinishType
      DEF CancelledElsewhere, CancelSeen, TypeOK
  <1>25. ASSUME NEW m \in Messages, LateWrite(m) PROVE TypeOK'
    <2>1. doc' \in [Messages -> [Slots -> DocStates]]
      BY <1>25, <1>0, SetDocType DEF LateWrite
    <2> QED
      BY <1>25, <2>1 DEF LateWrite
  <1>26. CASE Crash
    BY <1>26 DEF Crash
  <1>27. CASE UNCHANGED vars
    BY <1>27 DEF vars
  <1> QED
    BY <1>1, <1>2, <1>3, <1>4, <1>5, <1>6, <1>7, <1>8, <1>9, <1>10, <1>11,
       <1>12, <1>13, <1>14, <1>15, <1>16, <1>17, <1>18, <1>19, <1>20, <1>21,
       <1>22, <1>23, <1>24, <1>25, <1>26, <1>27
    DEF Next, Handle

\* The actions that touch no counter and do not enter the loops.
LEMMA CountersGoto ==
    ASSUME Typed, NEW m \in Messages, NEW p, Goto(m, p),
           p \notin {"send", "pause", "save_reply", "save_partial"},
           p \in BeforeSend => pc[m] \in BeforeSend,
           UNCHANGED << blocks, acked, saved >>
    PROVE  Counters'
  BY DEF Typed, TypeOK, Counters, Goto

LEMMA CountersNext == Typed /\ [Next]_vars => Counters'
  <1> SUFFICES ASSUME Typed, [Next]_vars PROVE Counters'
    OBVIOUS
  <1> USE CountersGoto DEF BeforeSend, At
  <1>1. ASSUME NEW m \in Messages, Receive(m) PROVE Counters'
    BY <1>1 DEF Receive
  <1>2. ASSUME NEW m \in Messages, Ignore(m) PROVE Counters'
    BY <1>2 DEF Ignore
  <1>3. ASSUME NEW m \in Messages, StartConversation(m) PROVE Counters'
    BY <1>3 DEF StartConversation
  <1>4. ASSUME NEW m \in Messages, TurnBegins(m) PROVE Counters'
    BY <1>4 DEF TurnBegins
  <1>5. ASSUME NEW m \in Messages, TypingShown(m) PROVE Counters'
    BY <1>5 DEF TypingShown
  <1>6. ASSUME NEW m \in Messages, TypingFails(m) PROVE Counters'
    BY <1>6 DEF TypingFails
  <1>7. ASSUME NEW m \in Messages, UserSaved(m) PROVE Counters'
    BY <1>7 DEF UserSaved
  <1>8. ASSUME NEW m \in Messages, UserSaveFails(m) PROVE Counters'
    BY <1>8 DEF UserSaveFails
  <1>9. ASSUME NEW m \in Messages, HistoryLoaded(m) PROVE Counters'
    BY <1>9 DEF HistoryLoaded
  <1>10. ASSUME NEW m \in Messages, HistoryLoadFails(m) PROVE Counters'
    BY <1>10 DEF HistoryLoadFails
  <1>11. ASSUME NEW m \in Messages, LlmBlocked(m) PROVE Counters'
    BY <1>11 DEF LlmBlocked
  <1>12. ASSUME NEW m \in Messages, LlmFails(m) PROVE Counters'
    BY <1>12 DEF LlmFails
  <1>13. ASSUME NEW m \in Messages, LlmReplies(m) PROVE Counters'
    <2>1. PICK n \in Slots :
            /\ blocks' = [blocks EXCEPT ![m] = n]
            /\ IF n = 0 THEN Finish(m, "replied")
                        ELSE Goto(m, "send") /\ UNCHANGED active
      BY <1>13 DEF LlmReplies
    <2>2. acked[m] = 0 /\ saved[m] = 0
      BY <1>13 DEF LlmReplies, Typed, Counters
    <2>3. pc' = [pc EXCEPT ![m] = IF n = 0 THEN "replied" ELSE "send"]
      BY <2>1 DEF Finish, Goto
    <2>4. n \in Nat /\ UNCHANGED << acked, saved >>
      BY <1>13, ConstantTypes DEF LlmReplies, Slots
    <2>5. CASE n = 0
      BY <2>1, <2>2, <2>3, <2>4, <2>5 DEF Typed, TypeOK, Counters
    <2>6. CASE n # 0
      BY <2>1, <2>2, <2>3, <2>4, <2>6 DEF Typed, TypeOK, Counters
    <2> QED
      BY <2>5, <2>6
  <1>14. ASSUME NEW m \in Messages, BlockSent(m) PROVE Counters'
    <2>1. /\ acked' = [acked EXCEPT ![m] = @ + 1]
          /\ UNCHANGED << blocks, saved >>
          /\ pc[m] = "send"
      BY <1>14 DEF BlockSent
    <2>2. /\ acked[m] < blocks[m]
          /\ saved[m] = 0
          /\ acked[m] \in Nat
          /\ blocks[m] \in Nat
      BY <2>1, ConstantTypes DEF Typed, TypeOK, Counters, Slots
    <2>3. CASE acked[m] + 1 < blocks[m]
      <3>1. pc' = [pc EXCEPT ![m] = "pause"]
        BY <1>14, <2>3 DEF BlockSent, Goto
      <3> QED
        BY <2>1, <2>2, <2>3, <3>1 DEF Typed, TypeOK, Counters
    <2>4. CASE ~ (acked[m] + 1 < blocks[m])
      <3>1. pc' = [pc EXCEPT ![m] = "save_reply"]
        BY <1>14, <2>2, <2>4 DEF BlockSent, SaveBlocks, Goto
      <3> QED
        BY <2>1, <2>2, <2>4, <3>1 DEF Typed, TypeOK, Counters
    <2> QED
      BY <2>3, <2>4
  <1>15. ASSUME NEW m \in Messages, BlockSendFails(m) PROVE Counters'
    BY <1>15 DEF BlockSendFails
  <1>16. ASSUME NEW m \in Messages, PauseOver(m) PROVE Counters'
    BY <1>16 DEF PauseOver, Goto, Typed, TypeOK, Counters
  <1>17. ASSUME NEW m \in Messages, BlockSaved(m) PROVE Counters'
    <2>1. PICK p \in {"save_reply", "save_partial"} :
            /\ pc[m] = p
            /\ IF saved[m] + 1 < acked[m]
                 THEN UNCHANGED pc
                 ELSE Finish(m, EndOfSave(p))
      BY <1>17 DEF BlockSaved, ToSave
    <2>2. /\ saved' = [saved EXCEPT ![m] = @ + 1]
          /\ UNCHANGED << blocks, acked >>
      BY <1>17 DEF BlockSaved
    <2>3. CASE saved[m] + 1 < acked[m]
      BY <2>1, <2>2, <2>3 DEF Typed, TypeOK, Counters
    <2>4. CASE ~ (saved[m] + 1 < acked[m])
      <3>1. pc' = [pc EXCEPT ![m] = EndOfSave(p)]
        BY <2>1, <2>4 DEF Finish, Goto
      <3>2. EndOfSave(p) \in {"replied", "cancelled"}
        BY DEF EndOfSave
      <3> QED
        BY <2>2, <3>1, <3>2 DEF Typed, TypeOK, Counters
    <2> QED
      BY <2>3, <2>4
  <1>18. ASSUME NEW m \in Messages, BlockSaveFails(m) PROVE Counters'
    BY <1>18 DEF BlockSaveFails
  <1>19. ASSUME NEW m \in Messages, UserDiscarded(m) PROVE Counters'
    BY <1>19 DEF UserDiscarded
  <1>20. ASSUME NEW m \in Messages, UserDiscardFails(m) PROVE Counters'
    BY <1>20 DEF UserDiscardFails
  <1>21. ASSUME NEW m \in Messages, Notified(m) PROVE Counters'
    <2>1. \E e \in {"blocked", "failed"} : Goto(m, e)
      BY <1>21 DEF Notified, Finish
    <2> QED
      BY <1>21, <2>1 DEF Notified
  <1>22. ASSUME NEW m \in Messages, CancelledBeforeFirstStep(m) PROVE Counters'
    BY <1>22 DEF CancelledBeforeFirstStep
  <1>23. ASSUME NEW m \in Messages, CancelledWhilePosting(m) PROVE Counters'
    <2>1. SaveBlocks(m, acked[m], "save_partial", "cancelled")
      BY <1>23 DEF CancelledWhilePosting, SavesWhatWasSent, ToSave
    <2>2. /\ pc' = [pc EXCEPT ![m] = IF acked[m] = 0 THEN "cancelled"
                                                   ELSE "save_partial"]
          /\ UNCHANGED << blocks, acked, saved >>
          /\ pc[m] \in {"send", "pause"}
      BY <1>23, <2>1
      DEF CancelledWhilePosting, SaveBlocks, Finish, Goto
    <2>3. saved[m] = 0 /\ acked[m] \in Nat
      BY <2>2, ConstantTypes DEF Typed, TypeOK, Counters, Slots
    <2> QED
      BY <2>2, <2>3 DEF Typed, TypeOK, Counters
  <1>24. ASSUME NEW m \in Messages, CancelledElsewhere(m) PROVE Counters'
    BY <1>24 DEF CancelledElsewhere, Finish
  <1>25. ASSUME NEW m \in Messages, LateWrite(m) PROVE Counters'
    BY <1>25 DEF LateWrite, Typed, Counters
  <1>26. CASE Crash
    <2>1. \A m \in Messages : pc'[m] = pc[m] \/ pc'[m] = "crashed"
      BY <1>26 DEF Crash
    <2> QED
      BY <1>26, <2>1 DEF Crash, Typed, Counters
  <1>27. CASE UNCHANGED vars
    BY <1>27 DEF vars, Typed, Counters
  <1> QED
    BY <1>1, <1>2, <1>3, <1>4, <1>5, <1>6, <1>7, <1>8, <1>9, <1>10, <1>11,
       <1>12, <1>13, <1>14, <1>15, <1>16, <1>17, <1>18, <1>19, <1>20, <1>21,
       <1>22, <1>23, <1>24, <1>25, <1>26, <1>27
    DEF Next, Handle

\* Every variable keeps its type, and the send and save loops their bounds.
THEOREM TypesHold == Spec => []TypeOK
  <1>1. Spec => []Typed
    BY TypedInit, TypesNext, CountersNext, PTL DEF Spec, Typed
  <1>2. Typed => TypeOK
    BY DEF Typed
  <1> QED
    BY <1>1, <1>2, PTL

-----------------------------------------------------------------------------
(* One turn per channel.                                                   *)

\* The running turn nobody cancelled is the registered one, and the registry
\* names no other: not a turn that is over and not one of another channel.
Registered ==
    /\ \A m \in Messages : Current(m) => active[C(m)] = m
    /\ \A c \in Channels : active[c] # None =>
         active[c] \in Messages /\ Current(active[c]) /\ C(active[c]) = c
    /\ \A m \in Messages : pc[m] \in {"new", "prep"} => cancel[m] = "no"

\* What the leaves need of TypeOK.
LEMMA RegistryTypes ==
    ASSUME TypeOK
    PROVE  /\ pc \in [Messages -> {"new", "prep"} \cup Awaits \cup Ends]
           /\ cancel \in [Messages -> {"no", "requested", "delivered"}]
           /\ active \in [Channels -> Messages \cup {None}]
           /\ \A m \in Messages : C(m) \in Channels
  BY ConstantTypes DEF TypeOK, C

\* A turn goes from one await to another.
LEMMA RegisteredGoto ==
    ASSUME TypeOK, Registered, NEW m \in Messages, Live(m), NEW p \in Awaits,
           Goto(m, p), UNCHANGED << msg, cancel, active >>
    PROVE  Registered'
  <1>1. "new" \notin Awaits /\ "prep" \notin Awaits
    BY DEF Awaits
  <1> QED
    BY <1>1, RegistryTypes DEF Registered, Current, Live, C, Goto

\* A turn runs its finally clause and is over.
LEMMA RegisteredFinish ==
    ASSUME TypeOK, Registered, NEW m \in Messages, Live(m), NEW e \in Ends,
           Finish(m, e), UNCHANGED msg, UNCHANGED cancel \/ CancelSeen(m)
    PROVE  Registered'
  <1>1. /\ pc' = [pc EXCEPT ![m] = e]
        /\ active' = IF active[C(m)] = m
                       THEN [active EXCEPT ![C(m)] = None] ELSE active
        /\ \A n \in Messages : n # m => cancel'[n] = cancel[n]
    BY RegistryTypes DEF Finish, Goto, Released, CancelSeen
  <1>2. /\ e \notin {"new", "prep"}
        /\ e \notin Awaits
        /\ "new" \notin Awaits
        /\ "prep" \notin Awaits
    BY DEF Ends, Awaits
  <1>3. ~ Current(m)'
    BY <1>1, <1>2, RegistryTypes DEF Current, Live
  <1>4. \A n \in Messages : n # m => Current(n)' = Current(n)
    BY <1>1 DEF Current, Live
  <1>5. \A n \in Messages : C(n)' = C(n)
    BY DEF C
  <1>6. \A n \in Messages : n # m => active'[C(n)] = n \/ active[C(n)] # n
    BY <1>1, RegistryTypes
  <1>7. \A n \in Messages : Current(n)' => active'[C(n)'] = n
    BY <1>3, <1>4, <1>5, <1>6 DEF Registered
  <1>8. ASSUME NEW c \in Channels, active'[c] # None
        PROVE  (/\ active[c] \in Messages
                /\ Current(active[c])
                /\ C(active[c]) = c)'
    <2>1. active'[c] = active[c] /\ active[c] # None
      BY <1>1, <1>8, RegistryTypes
    <2>2. active[c] \in Messages /\ Current(active[c]) /\ C(active[c]) = c
      BY <2>1 DEF Registered
    <2>3. active[c] # m
      BY <1>1, <2>1, <2>2, RegistryTypes, ConstantTypes
    <2>4. pc'[active[c]] = pc[active[c]] /\ cancel'[active[c]] = cancel[active[c]]
      BY <1>1, <2>2, <2>3, RegistryTypes
    <2> QED
      BY <2>1, <2>2, <2>4 DEF Current, Live, C
  <1>9. \A n \in Messages : pc'[n] \in {"new", "prep"} => cancel'[n] = "no"
    BY <1>1, <1>2, RegistryTypes DEF Registered
  <1> QED
    BY <1>7, <1>8, <1>9 DEF Registered

\* A cancelled turn goes on to record what it had sent, or is over without a
\* finally clause: it was not the registered turn any more.
LEMMA RegisteredCancelled ==
    ASSUME TypeOK, Registered, NEW m \in Messages, Live(m), CancelSeen(m),
           NEW p \in Awaits \cup Ends, Goto(m, p), UNCHANGED << msg, active >>
    PROVE  Registered'
  <1>1. /\ p \notin {"new", "prep"}
        /\ "new" \notin Awaits
        /\ "prep" \notin Awaits
    BY DEF Awaits, Ends
  <1>2. ~ Current(m) /\ ~ Current(m)'
    BY RegistryTypes DEF Current, CancelSeen
  <1>3. \A n \in Messages : n # m => Current(n)' = Current(n)
    BY RegistryTypes DEF Current, Live, CancelSeen, Goto
  <1> QED
    BY <1>1, <1>2, <1>3, RegistryTypes DEF Registered, C, CancelSeen, Goto

LEMMA RegisteredNext ==
    TypeOK /\ Registered /\ [Next]_vars => Registered'
  <1> SUFFICES ASSUME TypeOK, Registered, [Next]_vars PROVE Registered'
    OBVIOUS
  <1> USE DEF At
  <1>1. ASSUME NEW m \in Messages, Receive(m) PROVE Registered'
    <2>1. "new" \notin Awaits /\ "prep" \notin Awaits /\ "ignored" \notin Awaits
      BY DEF Awaits
    <2> QED
      BY <1>1, <2>1, RegistryTypes
      DEF Receive, Registered, Current, Live, C, Goto
  <1>2. ASSUME NEW m \in Messages, Ignore(m) PROVE Registered'
    <2>1. "new" \notin Awaits /\ "prep" \notin Awaits /\ "ignored" \notin Awaits
      BY DEF Awaits
    <2> QED
      BY <1>2, <2>1, RegistryTypes
      DEF Ignore, Registered, Current, Live, C, Goto
  <1>3. ASSUME NEW m \in Messages, StartConversation(m) PROVE Registered'
    <2> DEFINE old == active[C(m)]
    <2>1. /\ "new" \notin Awaits
          /\ "prep" \notin Awaits
          /\ "queued" \in Awaits
      BY DEF Awaits
    <2>2. /\ pc[m] = "prep"
          /\ pc' = [pc EXCEPT ![m] = "queued"]
          /\ active' = [active EXCEPT ![C(m)] = m]
          /\ UNCHANGED msg
          /\ C(m) \in Channels
          /\ cancel' = [o \in Messages |->
                IF o \in Supersedes(m) THEN "requested" ELSE cancel[o]]
      BY <1>3, RegistryTypes DEF StartConversation, Goto
    <2>3. \A o \in Messages : o \in Supersedes(m) <=> o = old
      BY <2>2, ConstantTypes DEF Supersedes, Registered, Current
    <2>4. old # m
      BY <2>1, <2>2, ConstantTypes DEF Registered, Current, Live
    <2>5. Current(m)'
      BY <2>1, <2>2, <2>3, <2>4, RegistryTypes DEF Registered, Current, Live
    <2>6. \A n \in Messages :
            n # m => Current(n)' = (Current(n) /\ n # old)
      BY <2>1, <2>2, <2>3, RegistryTypes DEF Current, Live
    <2>7. \A n \in Messages : C(n)' = C(n)
      BY <2>2 DEF C
    <2>8. \A n \in Messages : Current(n)' => active'[C(n)'] = n
      BY <2>2, <2>6, <2>7, RegistryTypes DEF Registered
    <2>9. ASSUME NEW c \in Channels, active'[c] # None
          PROVE  (/\ active[c] \in Messages
                  /\ Current(active[c])
                  /\ C(active[c]) = c)'
      <3>1. CASE c = C(m)
        <4>1. active'[c] = m
          BY <2>2, <3>1, RegistryTypes
        <4>2. C(m)' = c
          BY <2>7, <3>1
        <4> QED
          BY <2>5, <4>1, <4>2 DEF Current, Live, C
      <3>2. CASE c # C(m)
        <4>1. active'[c] = active[c]
          BY <2>2, <3>2, RegistryTypes
        <4>2. /\ active[c] \in Messages
              /\ Current(active[c])
              /\ C(active[c]) = c
          BY <2>9, <4>1 DEF Registered
        <4>3. active[c] # m /\ active[c] # old
          BY <3>2, <4>2, <2>2, ConstantTypes DEF Registered
        <4> DEFINE o == active[c]
        <4>4. Current(o) /\ o \in Messages /\ active'[c] = o
          BY <4>1, <4>2
        <4>5. pc'[o] = pc[o] /\ cancel'[o] = cancel[o]
          BY <2>2, <2>3, <4>2, <4>3, RegistryTypes
        <4> QED
          BY <2>2, <4>1, <4>2, <4>5 DEF Current, Live, C
      <3> QED
        BY <3>1, <3>2
    <2>10. \A n \in Messages : pc'[n] \in {"new", "prep"} => cancel'[n] = "no"
      <3>1. \A n \in Messages : n = old => Live(n)
        BY <2>2, ConstantTypes DEF Registered, Current
      <3> QED
        BY <2>1, <2>2, <2>3, <3>1, RegistryTypes DEF Registered, Live
    <2> QED
      BY <2>8, <2>9, <2>10 DEF Registered
  <1>4. ASSUME NEW m \in Messages, TurnBegins(m) PROVE Registered'
    <2>1. Live(m) /\ "typing" \in Awaits
      BY <1>4 DEF TurnBegins, Live, Awaits
    <2> QED
      BY <1>4, <2>1, RegisteredGoto DEF TurnBegins
  <1>5. ASSUME NEW m \in Messages, TypingShown(m) PROVE Registered'
    <2>1. Live(m) /\ "save_user" \in Awaits
      BY <1>5 DEF TypingShown, Live, Awaits
    <2> QED
      BY <1>5, <2>1, RegisteredGoto DEF TypingShown
  <1>6. ASSUME NEW m \in Messages, TypingFails(m) PROVE Registered'
    <2>1. Live(m) /\ "notify_error" \in Awaits
      BY <1>6 DEF TypingFails, Live, Awaits
    <2> QED
      BY <1>6, <2>1, RegisteredGoto DEF TypingFails
  <1>7. ASSUME NEW m \in Messages, UserSaved(m) PROVE Registered'
    <2>1. Live(m) /\ "load" \in Awaits
      BY <1>7 DEF UserSaved, Live, Awaits
    <2> QED
      BY <1>7, <2>1, RegisteredGoto DEF UserSaved
  <1>8. ASSUME NEW m \in Messages, UserSaveFails(m) PROVE Registered'
    <2>1. Live(m) /\ "notify_error" \in Awaits
      BY <1>8 DEF UserSaveFails, Live, Awaits
    <2> QED
      BY <1>8, <2>1, RegisteredGoto DEF UserSaveFails
  <1>9. ASSUME NEW m \in Messages, HistoryLoaded(m) PROVE Registered'
    <2>1. Live(m) /\ "llm" \in Awaits
      BY <1>9 DEF HistoryLoaded, Live, Awaits
    <2> QED
      BY <1>9, <2>1, RegisteredGoto DEF HistoryLoaded
  <1>10. ASSUME NEW m \in Messages, HistoryLoadFails(m) PROVE Registered'
    <2>1. Live(m) /\ "notify_error" \in Awaits
      BY <1>10 DEF HistoryLoadFails, Live, Awaits
    <2> QED
      BY <1>10, <2>1, RegisteredGoto DEF HistoryLoadFails
  <1>11. ASSUME NEW m \in Messages, LlmBlocked(m) PROVE Registered'
    <2>1. Live(m) /\ "discard" \in Awaits
      BY <1>11 DEF LlmBlocked, Live, Awaits
    <2> QED
      BY <1>11, <2>1, RegisteredGoto DEF LlmBlocked
  <1>12. ASSUME NEW m \in Messages, LlmFails(m) PROVE Registered'
    <2>1. Live(m) /\ "notify_error" \in Awaits
      BY <1>12 DEF LlmFails, Live, Awaits
    <2> QED
      BY <1>12, <2>1, RegisteredGoto DEF LlmFails
  <1>13. ASSUME NEW m \in Messages, LlmReplies(m) PROVE Registered'
    <2>1. Live(m) /\ "send" \in Awaits /\ "replied" \in Ends
      BY <1>13 DEF LlmReplies, Live, Awaits, Ends
    <2>2. \/ Finish(m, "replied")
          \/ Goto(m, "send") /\ UNCHANGED active
      BY <1>13 DEF LlmReplies
    <2>3. CASE Finish(m, "replied")
      BY <1>13, <2>1, <2>3, RegisteredFinish DEF LlmReplies
    <2>4. CASE Goto(m, "send") /\ UNCHANGED active
      BY <1>13, <2>1, <2>4, RegisteredGoto DEF LlmReplies
    <2> QED
      BY <2>2, <2>3, <2>4
  <1>14. ASSUME NEW m \in Messages, BlockSent(m) PROVE Registered'
    <2>1. /\ Live(m)
          /\ {"pause", "save_reply"} \subseteq Awaits
          /\ "replied" \in Ends
      BY <1>14 DEF BlockSent, Live, Awaits, Ends
    <2>2. \/ Finish(m, "replied")
          \/ \E p \in {"pause", "save_reply"} : Goto(m, p) /\ UNCHANGED active
      BY <1>14 DEF BlockSent, SaveBlocks
    <2>3. CASE Finish(m, "replied")
      BY <1>14, <2>1, <2>3, RegisteredFinish DEF BlockSent
    <2>4. CASE \E p \in {"pause", "save_reply"} :
                 Goto(m, p) /\ UNCHANGED active
      BY <1>14, <2>1, <2>4, RegisteredGoto DEF BlockSent
    <2> QED
      BY <2>2, <2>3, <2>4
  <1>15. ASSUME NEW m \in Messages, BlockSendFails(m) PROVE Registered'
    <2>1. Live(m) /\ "notify_error" \in Awaits
      BY <1>15 DEF BlockSendFails, Live, Awaits
    <2> QED
      BY <1>15, <2>1, RegisteredGoto DEF BlockSendFails
  <1>16. ASSUME NEW m \in Messages, PauseOver(m) PROVE Registered'
    <2>1. Live(m) /\ "send" \in Awaits
      BY <1>16 DEF PauseOver, Live, Awaits
    <2> QED
      BY <1>16, <2>1, RegisteredGoto DEF PauseOver
  <1>17. ASSUME NEW m \in Messages, BlockSaved(m) PROVE Registered'
    <2>1. Live(m) /\ UNCHANGED << msg, cancel >>
      BY <1>17 DEF BlockSaved, Live, Awaits
    <2>2. \/ \E e \in {"replied", "cancelled"} : Finish(m, e)
          \/ UNCHANGED << pc, active >>
      BY <1>17 DEF BlockSaved, EndOfSave
    <2>3. CASE \E e \in {"replied", "cancelled"} : Finish(m, e)
      BY <2>1, <2>3, RegisteredFinish DEF Ends
    <2>4. CASE UNCHANGED << pc, active >>
      BY <2>1, <2>4 DEF Registered, Current, Live, C
    <2> QED
      BY <2>2, <2>3, <2>4
  <1>18. ASSUME NEW m \in Messages, BlockSaveFails(m) PROVE Registered'
    <2>1. Live(m) /\ "notify_error" \in Awaits
      BY <1>18 DEF BlockSaveFails, Live, Awaits
    <2> QED
      BY <1>18, <2>1, RegisteredGoto DEF BlockSaveFails
  <1>19. ASSUME NEW m \in Messages, UserDiscarded(m) PROVE Registered'
    <2>1. Live(m) /\ "notify_block" \in Awaits
      BY <1>19 DEF UserDiscarded, Live, Awaits
    <2> QED
      BY <1>19, <2>1, RegisteredGoto DEF UserDiscarded
  <1>20. ASSUME NEW m \in Messages, UserDiscardFails(m) PROVE Registered'
    <2>1. Live(m) /\ "notify_block" \in Awaits
      BY <1>20 DEF UserDiscardFails, Live, Awaits
    <2> QED
      BY <1>20, <2>1, RegisteredGoto DEF UserDiscardFails
  <1>21. ASSUME NEW m \in Messages, Notified(m) PROVE Registered'
    <2>1. /\ Live(m)
          /\ \E e \in Ends : Finish(m, e)
          /\ UNCHANGED << msg, cancel >>
      BY <1>21 DEF Notified, Live, Awaits, Ends
    <2> QED
      BY <2>1, RegisteredFinish
  <1>22. ASSUME NEW m \in Messages, CancelledBeforeFirstStep(m) PROVE Registered'
    <2>1. Live(m) /\ "cancelled" \in Awaits \cup Ends
      BY <1>22 DEF CancelledBeforeFirstStep, Live, Awaits, Ends
    <2> QED
      BY <1>22, <2>1, RegisteredCancelled DEF CancelledBeforeFirstStep
  <1>23. ASSUME NEW m \in Messages, CancelledWhilePosting(m) PROVE Registered'
    <2>1. /\ Live(m)
          /\ "save_partial" \in Awaits \cup Ends
          /\ "cancelled" \in Ends
          /\ CancelSeen(m)
          /\ UNCHANGED msg
      BY <1>23 DEF CancelledWhilePosting, Live, Awaits, Ends
    <2>2. \/ Finish(m, "cancelled")
          \/ Goto(m, "save_partial") /\ UNCHANGED active
      BY <1>23 DEF CancelledWhilePosting, SavesWhatWasSent, SaveBlocks
    <2>3. CASE Finish(m, "cancelled")
      BY <2>1, <2>3, RegisteredFinish
    <2>4. CASE Goto(m, "save_partial") /\ UNCHANGED active
      BY <2>1, <2>4, RegisteredCancelled
    <2> QED
      BY <2>2, <2>3, <2>4
  <1>24. ASSUME NEW m \in Messages, CancelledElsewhere(m) PROVE Registered'
    <2>1. /\ Live(m)
          /\ "cancelled" \in Ends
          /\ Finish(m, "cancelled")
          /\ CancelSeen(m)
          /\ UNCHANGED msg
      BY <1>24 DEF CancelledElsewhere, Live, Ends
    <2> QED
      BY <2>1, RegisteredFinish
  <1>25. ASSUME NEW m \in Messages, LateWrite(m) PROVE Registered'
    BY <1>25 DEF LateWrite, Registered, Current, Live, C
  <1>26. CASE Crash
    <2>1. /\ "crashed" \notin Awaits
          /\ \A m \in Messages : ~ Live(m)'
      BY <1>26, RegistryTypes DEF Crash, Live, Awaits
    <2> QED
      BY <1>26, <2>1, RegistryTypes DEF Crash, Registered, Current
  <1>27. CASE UNCHANGED vars
    BY <1>27 DEF vars, Registered, Current, Live, C
  <1> QED
    BY <1>1, <1>2, <1>3, <1>4, <1>5, <1>6, <1>7, <1>8, <1>9, <1>10, <1>11,
       <1>12, <1>13, <1>14, <1>15, <1>16, <1>17, <1>18, <1>19, <1>20, <1>21,
       <1>22, <1>23, <1>24, <1>25, <1>26, <1>27
    DEF Next, Handle

LEMMA RegisteredHolds == Spec => []Registered
  <1>1. Init => Registered
    BY ConstantTypes DEF Init, Registered, Current, Live, Awaits
  <1> QED
    BY <1>1, TypesHold, RegisteredNext, PTL DEF Spec

\* At most one turn of a channel runs without having been cancelled, and it is
\* the registered one: start_conversation's cancel and registration, and the
\* test in the finally clause, agree in every order.
THEOREM OneTurn == Spec => []OneTurnPerChannel
  <1>1. Registered => OneTurnPerChannel
    BY DEF Registered, OneTurnPerChannel
  <1> QED
    BY <1>1, RegisteredHolds, PTL

-----------------------------------------------------------------------------
(* What is posted and what is recorded.                                    *)

Saving == {"save_reply", "save_partial"}

\* The blocks on Discord: those acked, until a send is broken off.  A message
\* with a listed word has none, because its own text is in what it loaded.
Posted(m) ==
    /\ 1 .. acked[m] \subseteq posted[m]
    /\ pc[m] \in BeforeSend \cup {"send", "pause", "save_reply"} =>
         posted[m] = 1 .. acked[m]
    /\ pc[m] = "save_reply" => acked[m] = blocks[m]
    /\ pc[m] = "replied" => posted[m] = 1 .. blocks[m]
    /\ pc[m] = "llm" => << m, 0 >> \in seen[m]
    /\ msg[m].bad => posted[m] = {} /\ pc[m] \notin Saving \cup {"send", "pause"}

\* The document of the user's text.
TextAt(m) ==
    /\ pc[m] \in {"new", "prep", "queued", "typing"} => doc[m][0] = "none"
    /\ pc[m] = "save_user" => doc[m][0] = "flying"
    /\ pc[m] \in Saving \cup {"load", "llm", "discard", "send", "pause", "replied"} =>
         doc[m][0] = "stored"
    /\ pc[m] \in {"notify_block", "blocked"} => doc[m][0] \in {"kept", "deleted"}

\* The documents of the blocks: none before the save loop, one more with each
\* of its rounds, and wherever it stops each follows a stored one.
BlocksAt(m) ==
    /\ pc[m] \in BeforeSend \cup {"send", "pause", "discard", "notify_block"} =>
         \A k \in 1 .. MaxBlocks : doc[m][k] = "none"
    /\ pc[m] \in Saving => \A k \in 1 .. MaxBlocks :
         doc[m][k] = IF k <= saved[m] THEN "stored"
                     ELSE IF k = saved[m] + 1 THEN "flying" ELSE "none"
    /\ pc[m] = "replied" => \A k \in 1 .. blocks[m] : doc[m][k] = "stored"
    /\ \A k \in 1 .. MaxBlocks : doc[m][k] # "none" =>
         /\ k \in posted[m]
         /\ time[m][k - 1] < time[m][k]
         /\ doc[m][k - 1] \in {"stored", "kept"}
    /\ \A k \in Slots : time[m][k] <= clock

Recorded(m) == Posted(m) /\ TextAt(m) /\ BlocksAt(m)

\* A step of m's handling leaves the other turns' records alone.
OnlyOf(m) ==
    /\ UNCHANGED msg
    /\ clock' >= clock
    /\ \A n \in Messages \ {m} :
         /\ pc'[n] = pc[n] /\ doc'[n] = doc[n] /\ time'[n] = time[n]
         /\ posted'[n] = posted[n] /\ acked'[n] = acked[n]
         /\ saved'[n] = saved[n] /\ blocks'[n] = blocks[n]
         /\ seen'[n] = seen[n]

LEMMA OthersRecorded ==
    ASSUME TypeOK, clock' \in Nat, \A n \in Messages : Recorded(n),
           NEW m \in Messages, OnlyOf(m), Recorded(m)'
    PROVE  \A n \in Messages : Recorded(n)'
  <1> SUFFICES ASSUME NEW n \in Messages \ {m} PROVE Recorded(n)'
    OBVIOUS
  <1>1. Recorded(n)
    OBVIOUS
  <1>2. Posted(n)' /\ TextAt(n)'
    BY <1>1 DEF Recorded, Posted, TextAt, OnlyOf
  <1>3. \A k \in Slots : time'[n][k] <= clock'
    <2>1. \A k \in Slots : time[n][k] \in Nat /\ time[n][k] <= clock
      BY <1>1 DEF Recorded, BlocksAt, TypeOK
    <2> QED
      BY <2>1 DEF OnlyOf, TypeOK
  <1>4. BlocksAt(n)'
    BY <1>1, <1>3 DEF Recorded, BlocksAt, OnlyOf
  <1> QED
    BY <1>2, <1>4 DEF Recorded

LEMMA BlockFacts ==
    /\ 1 .. MaxBlocks \subseteq Slots
    /\ \A k \in 1 .. MaxBlocks : k - 1 \in Slots /\ k \in Nat /\ k # 0
  BY ConstantTypes DEF Slots

\* A turn whose records stay as they are goes to p.
LEMMA RecordedGoto ==
    ASSUME TypeOK, \A n \in Messages : Recorded(n), NEW m \in Messages,
           NEW p, Goto(m, p),
           UNCHANGED << msg, doc, time, clock, blocks, posted, acked, saved >>,
           seen' = seen \/ (seen' = [seen EXCEPT ![m] = {}] /\ p # "llm"),
           \/ pc[m] = "new" /\ p = "prep"
           \/ pc[m] = "prep" /\ p = "queued"
           \/ pc[m] = "queued" /\ p = "typing"
           \/ pc[m] = "llm" /\ p = "discard"
           \/ pc[m] = "pause" /\ p = "send"
           \/ pc[m] = "notify_block" /\ p = "blocked"
           \/ p \in {"notify_error", "ignored", "failed", "cancelled"}
    PROVE  \A n \in Messages : Recorded(n)'
  <1>1. OnlyOf(m)
    BY DEF OnlyOf, Goto, TypeOK
  <1>2. pc'[m] = p /\ pc \in [Messages -> {"new", "prep"} \cup Awaits \cup Ends]
    BY DEF Goto, TypeOK
  <1>3. Recorded(m)
    OBVIOUS
  <1>4. Posted(m)'
    BY <1>2, <1>3 DEF Recorded, Posted, BeforeSend, Saving
  <1>5. TextAt(m)'
    BY <1>2, <1>3 DEF Recorded, TextAt, Saving
  <1>6. BlocksAt(m)'
    BY <1>2, <1>3 DEF Recorded, BlocksAt, BeforeSend, Saving
  <1> QED
    BY <1>1, <1>4, <1>5, <1>6, OthersRecorded DEF Recorded, TypeOK

LEMMA RecordedInit == Init => \A m \in Messages : Recorded(m)
  <1> SUFFICES ASSUME Init, NEW m \in Messages PROVE Recorded(m)
    OBVIOUS
  <1> QED
    BY BlockFacts, SlotFacts, ConstantTypes
    DEF Init, Recorded, Posted, TextAt, BlocksAt, BeforeSend, Saving

LEMMA RecordedNext ==
    Typed /\ TypeOK' /\ (\A m \in Messages : Recorded(m)) /\ [Next]_vars
        => \A m \in Messages : Recorded(m)'
  <1> DEFINE Goal == \A m \in Messages : Recorded(m)'
  <1> SUFFICES ASSUME Typed, TypeOK', \A m \in Messages : Recorded(m),
                      [Next]_vars
               PROVE  Goal
    OBVIOUS
  <1>0. /\ TypeOK
        /\ clock \in Nat /\ clock' \in Nat
        /\ pc \in [Messages -> {"new", "prep"} \cup Awaits \cup Ends]
        /\ seen \in [Messages -> SUBSET DocIds]
        /\ posted \in [Messages -> SUBSET (1 .. MaxBlocks)]
        /\ acked \in [Messages -> Slots] /\ saved \in [Messages -> Slots]
        /\ blocks \in [Messages -> Slots]
        /\ 0 \in Slots /\ 1 \in Slots /\ MaxBlocks \in Nat
    BY SlotFacts, ConstantTypes DEF Typed, TypeOK
  <1> HIDE DEF Goal
  <1>1. ASSUME NEW m \in Messages, OnlyOf(m), Recorded(m)' PROVE Goal
    BY <1>0, <1>1, OthersRecorded DEF Goal
  <1> USE DEF At
  <1>2. ASSUME NEW m \in Messages,
               \/ Receive(m) \/ Ignore(m) \/ TurnBegins(m) \/ TypingFails(m)
               \/ HistoryLoadFails(m) \/ LlmBlocked(m) \/ LlmFails(m)
               \/ PauseOver(m) \/ Notified(m) \/ CancelledBeforeFirstStep(m)
               \/ StartConversation(m)
        PROVE  Goal
    BY <1>0, <1>2, RecordedGoto
    DEF Goal, Receive, Ignore, TurnBegins, TypingFails, HistoryLoadFails,
        LlmBlocked, LlmFails, PauseOver, Notified, Finish,
        CancelledBeforeFirstStep, StartConversation
  <1>3. ASSUME NEW m \in Messages, TypingShown(m) PROVE Goal
    <2>1. /\ pc[m] = "typing" /\ pc' = [pc EXCEPT ![m] = "save_user"]
          /\ clock' = clock + 1
          /\ time' = [time EXCEPT ![m][0] = clock + 1]
          /\ doc' = [doc EXCEPT ![m][0] = "flying"]
          /\ UNCHANGED << msg, seen, blocks, posted, acked, saved >>
      BY <1>3 DEF TypingShown, Stamp, Goto
    <2>2. OnlyOf(m)
      BY <1>0, <2>1 DEF OnlyOf, TypeOK
    <2>3. Recorded(m)
      OBVIOUS
    <2>4. Recorded(m)'
      BY <1>0, <2>1, <2>3, BlockFacts
      DEF Recorded, Posted, TextAt, BlocksAt, BeforeSend, Saving, TypeOK
    <2> QED
      BY <1>1, <2>2, <2>4
  <1>4. ASSUME NEW m \in Messages, NEW s \in DocStates, NEW p,
               SetDoc(m, 0, s), Goto(m, p),
               UNCHANGED << msg, time, clock, seen, blocks, posted, acked, saved >>,
               \/ pc[m] = "save_user" /\ p = "load" /\ s = "stored"
               \/ pc[m] = "save_user" /\ p = "notify_error"
               \/ pc[m] = "discard" /\ p = "notify_block" /\ s \in {"kept", "deleted"}
        PROVE  Goal
    <2>2. OnlyOf(m)
      BY <1>0, <1>4 DEF OnlyOf, TypeOK, SetDoc, Goto
    <2>3. Recorded(m)
      OBVIOUS
    <2>4. /\ pc'[m] = p /\ doc'[m][0] = s
          /\ \A k \in 1 .. MaxBlocks : doc'[m][k] = doc[m][k]
          /\ \A k \in 1 .. MaxBlocks : doc[m][k] = "none"
      BY <1>0, <1>4, <2>3, BlockFacts
      DEF SetDoc, Goto, TypeOK, Recorded, BlocksAt, BeforeSend
    <2>5. Recorded(m)'
      BY <1>0, <1>4, <2>3, <2>4, BlockFacts
      DEF Recorded, Posted, TextAt, BlocksAt, BeforeSend, Saving
    <2> QED
      BY <1>1, <2>2, <2>5
  <1>5. ASSUME NEW m \in Messages,
               \/ UserSaved(m) \/ UserSaveFails(m)
               \/ UserDiscarded(m) \/ UserDiscardFails(m)
        PROVE  Goal
    BY <1>4, <1>5 DEF UserSaved, UserSaveFails, UserDiscarded, Discarded,
                      UserDiscardFails, DocStates
  <1>6. ASSUME NEW m \in Messages, HistoryLoaded(m) PROVE Goal
    <2>1. /\ pc[m] = "load" /\ pc' = [pc EXCEPT ![m] = "llm"]
          /\ seen' = [seen EXCEPT ![m] = {d \in DocIds : Visible(d)}]
          /\ UNCHANGED << msg, doc, time, clock, blocks, posted, acked, saved >>
      BY <1>6 DEF HistoryLoaded, Goto
    <2>2. OnlyOf(m)
      BY <1>0, <2>1 DEF OnlyOf
    <2>3. Recorded(m)
      OBVIOUS
    <2>4. << m, 0 >> \in seen'[m]
      <3>1. << m, 0 >> \in DocIds /\ Visible(<< m, 0 >>)
        BY <1>0, <2>1, <2>3 DEF DocIds, Visible, Recorded, TextAt
      <3> QED
        BY <1>0, <2>1, <3>1
    <2>5. Recorded(m)'
      BY <1>0, <2>1, <2>3, <2>4
      DEF Recorded, Posted, TextAt, BlocksAt, BeforeSend, Saving
    <2> QED
      BY <1>1, <2>2, <2>5
  <1>7. ASSUME NEW m \in Messages, LlmReplies(m) PROVE Goal
    <2>1. PICK n \in Slots :
            /\ blocks' = [blocks EXCEPT ![m] = n]
            /\ pc' = [pc EXCEPT ![m] = IF n = 0 THEN "replied" ELSE "send"]
            /\ pc[m] = "llm" /\ ~ PayloadBad(m)
            /\ seen' = [seen EXCEPT ![m] = {}]
            /\ UNCHANGED << msg, doc, time, clock, posted, acked, saved >>
      BY <1>7 DEF LlmReplies, Finish, Goto
    <2>2. OnlyOf(m)
      BY <1>0, <2>1 DEF OnlyOf, TypeOK
    <2>3. Recorded(m) /\ acked[m] = 0
      BY <2>1 DEF Typed, Counters, BeforeSend
    <2>4. ~ msg[m].bad
      <3>1. << m, 0 >> \in seen[m]
        BY <2>1, <2>3 DEF Recorded, Posted
      <3> QED
        BY <2>1, <3>1 DEF PayloadBad
    <2>5. /\ pc'[m] = IF n = 0 THEN "replied" ELSE "send"
          /\ blocks'[m] = n
      BY <1>0, <2>1 DEF TypeOK
    <2>6. Posted(m)'
      BY <2>1, <2>3, <2>4, <2>5 DEF Recorded, Posted, BeforeSend, Saving
    <2>7. TextAt(m)' /\ BlocksAt(m)'
      BY <2>1, <2>3, <2>5, ConstantTypes
      DEF Recorded, TextAt, BlocksAt, BeforeSend, Saving, Slots
    <2> QED
      BY <1>1, <2>2, <2>6, <2>7 DEF Recorded
  <1>8. ASSUME NEW m \in Messages, BlockSent(m) PROVE Goal
    <2> DEFINE last == ~ (acked[m] + 1 < blocks[m])
    <2>1. /\ pc[m] = "send"
          /\ acked' = [acked EXCEPT ![m] = @ + 1]
          /\ posted' = [posted EXCEPT ![m] = @ \cup {acked[m] + 1}]
          /\ UNCHANGED << msg, seen, blocks, saved >>
          /\ acked[m] \in Nat /\ blocks[m] \in Nat
          /\ acked[m] < blocks[m] /\ saved[m] = 0 /\ blocks[m] <= MaxBlocks
      BY <1>8, ConstantTypes DEF BlockSent, Typed, TypeOK, Counters, Slots
    <2>2. /\ pc' = [pc EXCEPT ![m] = IF last THEN "save_reply" ELSE "pause"]
          /\ last => /\ clock' = clock + 1
                     /\ time' = [time EXCEPT ![m][1] = clock + 1]
                     /\ doc' = [doc EXCEPT ![m][1] = "flying"]
          /\ ~ last => UNCHANGED << doc, time, clock >>
      BY <1>8, <2>1 DEF BlockSent, SaveBlocks, Stamp, Goto
    <2>3. OnlyOf(m)
      BY <1>0, <2>1, <2>2 DEF OnlyOf, TypeOK
    <2>4. Recorded(m)
      OBVIOUS
    <2>5. Posted(m)'
      <3>1. posted[m] = 1 .. acked[m] /\ ~ msg[m].bad
        BY <2>1, <2>4 DEF Recorded, Posted
      <3>2. /\ posted'[m] = posted[m] \cup {acked[m] + 1}
            /\ acked'[m] = acked[m] + 1
            /\ pc'[m] = IF last THEN "save_reply" ELSE "pause"
        <4>1. posted'[m] = posted[m] \cup {acked[m] + 1}
          BY <1>0, <2>1
        <4>2. acked'[m] = acked[m] + 1
          BY <1>0, <2>1
        <4>3. pc'[m] = IF last THEN "save_reply" ELSE "pause"
          BY <1>0, <2>2
        <4> QED
          BY <4>1, <4>2, <4>3
      <3>3. posted'[m] = 1 .. acked'[m]
        <4>1. \A n \in Nat : (1 .. n) \cup {n + 1} = 1 .. n + 1
          OBVIOUS
        <4> QED
          BY <2>1, <3>1, <3>2, <4>1
      <3> QED
        BY <2>1, <3>1, <3>2, <3>3 DEF Posted, BeforeSend
    <2>6. TextAt(m)'
      BY <1>0, <2>1, <2>2, <2>4 DEF TypeOK, Recorded, TextAt, Saving
    <2>7. BlocksAt(m)'
      <3>0. \A k \in Slots : time[m][k] \in Nat
        BY <1>0 DEF TypeOK
      <3>1. /\ \A k \in 1 .. MaxBlocks : doc[m][k] = "none"
            /\ \A k \in Slots : time[m][k] \in Nat /\ time[m][k] <= clock
            /\ doc[m][0] = "stored"
        BY <2>1, <2>4, <3>0 DEF Recorded, BlocksAt, TextAt, BeforeSend
      <3>2. CASE last
        <4>1. /\ pc'[m] = "save_reply" /\ 1 \in posted'[m] /\ saved'[m] = 0
              /\ \A k \in Slots : time'[m][k] = IF k = 1 THEN clock' ELSE time[m][k]
              /\ \A k \in Slots : doc'[m][k] = IF k = 1 THEN "flying" ELSE doc[m][k]
          BY <1>0, <2>1, <2>2, <2>4, <3>2 DEF TypeOK, Recorded, Posted
        <4> QED
          BY <1>0, <2>2, <3>1, <3>2, <4>1, BlockFacts
          DEF BlocksAt, BeforeSend, Saving
      <3>3. CASE ~ last
        BY <1>0, <2>1, <2>2, <2>4, <3>1, <3>3
        DEF TypeOK, BlocksAt, BeforeSend, Saving
      <3> QED
        BY <3>2, <3>3
    <2> QED
      BY <1>1, <2>3, <2>5, <2>6, <2>7 DEF Recorded
  <1>9. ASSUME NEW m \in Messages, BlockSendFails(m) PROVE Goal
    <2>1. /\ pc[m] = "send" /\ pc' = [pc EXCEPT ![m] = "notify_error"]
          /\ MaybePosted(m)
          /\ UNCHANGED << msg, doc, time, clock, seen, blocks, acked, saved >>
      BY <1>9 DEF BlockSendFails, Goto
    <2>2. OnlyOf(m)
      BY <1>0, <2>1 DEF OnlyOf, MaybePosted, TypeOK
    <2>3. Recorded(m) /\ posted[m] \subseteq posted'[m] /\ pc'[m] = "notify_error"
      BY <1>0, <2>1 DEF MaybePosted, TypeOK
    <2>4. Recorded(m)'
      BY <2>1, <2>3 DEF Recorded, Posted, TextAt, BlocksAt, BeforeSend, Saving
    <2> QED
      BY <1>1, <2>2, <2>4
  <1>10. ASSUME NEW m \in Messages, BlockSaved(m) PROVE Goal
    <2>1. PICK p \in Saving :
            /\ pc[m] = p
            /\ IF saved[m] + 1 < acked[m]
                 THEN /\ clock' = clock + 1
                      /\ time' = [time EXCEPT ![m][saved[m] + 2] = clock + 1]
                      /\ doc' = [doc EXCEPT ![m][saved[m] + 1] = "stored",
                                            ![m][saved[m] + 2] = "flying"]
                      /\ UNCHANGED pc
                 ELSE /\ doc' = [doc EXCEPT ![m][saved[m] + 1] = "stored"]
                      /\ pc' = [pc EXCEPT ![m] = EndOfSave(p)]
                      /\ UNCHANGED << time, clock >>
      BY <1>10 DEF BlockSaved, ToSave, Saving, SetDoc, Finish, Goto
    <2>0. /\ saved' = [saved EXCEPT ![m] = @ + 1]
          /\ UNCHANGED << msg, seen, blocks, posted, acked >>
      BY <1>10 DEF BlockSaved
    <2>2. /\ acked[m] \in Nat /\ saved[m] \in Nat /\ blocks[m] \in Nat
          /\ saved[m] < acked[m] /\ acked[m] <= blocks[m]
          /\ blocks[m] <= MaxBlocks
          /\ saved'[m] = saved[m] + 1
      <3>1. pc[m] \in {"save_reply", "save_partial"}
        BY <2>1 DEF Saving
      <3>2. saved[m] < acked[m] /\ acked[m] <= blocks[m]
        BY <3>1 DEF Typed, Counters
      <3>3. acked[m] \in Slots /\ saved[m] \in Slots /\ blocks[m] \in Slots
        BY <1>0
      <3> QED
        BY <1>0, <2>0, <3>2, <3>3, ConstantTypes DEF Slots
    <2>3. OnlyOf(m)
      BY <1>0, <2>0, <2>1, <2>2 DEF OnlyOf, TypeOK
    <2>4. Recorded(m)
      OBVIOUS
    <2>5. /\ \A k \in 1 .. MaxBlocks :
               doc[m][k] = IF k <= saved[m] THEN "stored"
                           ELSE IF k = saved[m] + 1 THEN "flying" ELSE "none"
          /\ doc[m][0] = "stored"
          /\ 1 .. acked[m] \subseteq posted[m]
          /\ p = "save_reply" => acked[m] = blocks[m] /\ posted[m] = 1 .. acked[m]
          /\ ~ msg[m].bad
      BY <2>1, <2>4 DEF Recorded, BlocksAt, TextAt, Posted, Saving
    <2>6. CASE saved[m] + 1 < acked[m]
      <3>1. saved[m] + 1 \in Slots /\ saved[m] + 2 \in Slots
        BY <2>0, <2>2, <2>6, ConstantTypes DEF Slots
      <3>2. /\ \A k \in Slots :
                 doc'[m][k] = IF k = saved[m] + 2 THEN "flying"
                              ELSE IF k = saved[m] + 1 THEN "stored" ELSE doc[m][k]
            /\ \A k \in Slots :
                 time'[m][k] = IF k = saved[m] + 2 THEN clock' ELSE time[m][k]
        BY <1>0, <2>0, <2>1, <2>2, <2>6, <3>1 DEF TypeOK
      <3>3. Posted(m)'
        BY <2>0, <2>1, <2>2, <2>4, <2>6 DEF Recorded, Posted
      <3>4. TextAt(m)'
        BY <1>0, <2>0, <2>1, <2>2, <2>5, <2>6, <3>2 DEF TextAt, Saving
      <3>5. BlocksAt(m)'
        <4>1. \A k \in 1 .. MaxBlocks :
                doc'[m][k] = IF k <= saved'[m] THEN "stored"
                             ELSE IF k = saved'[m] + 1 THEN "flying" ELSE "none"
          BY <2>0, <2>2, <2>5, <3>2, BlockFacts
        <4>2. \A k \in Slots : time[m][k] \in Nat /\ time[m][k] <= clock
          <5>1. \A k \in Slots : time[m][k] \in Nat
            BY <1>0 DEF TypeOK
          <5> QED
            BY <2>4, <5>1 DEF Recorded, BlocksAt
        <4>3. \A k \in Slots : time'[m][k] <= clock'
          BY <1>0, <2>1, <2>6, <3>2, <4>2
        <4>4. ASSUME NEW k \in 1 .. MaxBlocks, doc'[m][k] # "none"
              PROVE  /\ k \in posted'[m]
                     /\ time'[m][k - 1] < time'[m][k]
                     /\ doc'[m][k - 1] \in {"stored", "kept"}
          <5>1. k <= saved[m] + 2 /\ k \in 1 .. acked[m]
            BY <2>0, <2>2, <2>6, <4>1, <4>4
          <5>2. k \in posted'[m]
            BY <2>0, <2>2, <2>5, <5>1
          <5>3. doc'[m][k - 1] = "stored"
            BY <2>0, <2>2, <2>5, <3>2, <4>1, <5>1, BlockFacts, <1>0
          <5>4. CASE k = saved[m] + 2
            BY <1>0, <2>0, <2>1, <2>2, <2>6, <3>2, <4>2, <5>2, <5>3, <5>4, BlockFacts
          <5>5. CASE k # saved[m] + 2
            <6>1. doc[m][k] # "none" /\ k - 1 # saved[m] + 2
              BY <2>0, <2>2, <2>5, <5>1, <5>5
            <6>2. time[m][k - 1] < time[m][k]
              BY <2>4, <6>1 DEF Recorded, BlocksAt
            <6> QED
              BY <3>2, <5>2, <5>3, <5>5, <6>1, <6>2, BlockFacts
          <5> QED
            BY <5>4, <5>5
        <4> QED
          BY <2>1, <2>6, <4>1, <4>3, <4>4 DEF BlocksAt, BeforeSend, Saving
      <3> QED
        BY <1>1, <2>3, <3>3, <3>4, <3>5 DEF Recorded
    <2>7. CASE ~ (saved[m] + 1 < acked[m])
      <3>1. /\ pc'[m] = EndOfSave(p)
            /\ \A k \in Slots :
                 doc'[m][k] = IF k = saved[m] + 1 THEN "stored" ELSE doc[m][k]
            /\ UNCHANGED << time, clock >>
        BY <1>0, <2>1, <2>7 DEF TypeOK
      <3>2. /\ pc'[m] = "replied" /\ p = "save_reply"
            \/ pc'[m] = "cancelled"
        BY <3>1 DEF EndOfSave
      <3>3. \A k \in 1 .. acked[m] : doc'[m][k] = "stored"
        BY <1>0, <2>0, <2>2, <2>5, <2>7, <3>1, BlockFacts
      <3>4. Posted(m)'
        BY <2>0, <2>2, <2>5, <3>2 DEF Posted, BeforeSend, Saving
      <3>5. TextAt(m)'
        BY <1>0, <2>0, <2>2, <2>5, <3>1, <3>2 DEF TextAt, Saving
      <3>6. \A k \in 1 .. MaxBlocks : doc'[m][k] # "none" =>
              doc[m][k] # "none" /\ doc'[m][k - 1] \in {"stored", "kept"}
        BY <1>0, <2>0, <2>2, <2>5, <3>1, BlockFacts
      <3>7. BlocksAt(m)'
        BY <2>0, <2>2, <2>4, <2>5, <3>1, <3>2, <3>3, <3>6
        DEF Recorded, BlocksAt, BeforeSend, Saving
      <3> QED
        BY <1>1, <2>3, <3>4, <3>5, <3>7 DEF Recorded
    <2> QED
      BY <2>6, <2>7
  <1>11. ASSUME NEW m \in Messages, BlockSaveFails(m) PROVE Goal
    <2>1. PICK s \in {"stored", "lost"} :
            /\ pc[m] \in Saving /\ pc' = [pc EXCEPT ![m] = "notify_error"]
            /\ doc' = [doc EXCEPT ![m][saved[m] + 1] = s]
            /\ UNCHANGED << msg, time, clock, seen, blocks, posted, acked, saved >>
      BY <1>11 DEF BlockSaveFails, SetDoc, Goto, Saving
    <2>2. OnlyOf(m)
      BY <1>0, <2>1 DEF OnlyOf, TypeOK
    <2>3. Recorded(m) /\ pc'[m] = "notify_error"
      BY <1>0, <2>1
    <2>4. /\ \A k \in 1 .. MaxBlocks :
               doc[m][k] = IF k <= saved[m] THEN "stored"
                           ELSE IF k = saved[m] + 1 THEN "flying" ELSE "none"
          /\ doc[m][0] = "stored" /\ saved[m] \in Nat
      BY <1>0, <2>1, <2>3, ConstantTypes
      DEF Recorded, BlocksAt, TextAt, Slots
    <2>5. \A k \in Slots : doc'[m][k] = IF k = saved[m] + 1 THEN s ELSE doc[m][k]
      BY <1>0, <2>1 DEF TypeOK
    <2>6. Posted(m)' /\ TextAt(m)'
      BY <2>1, <2>3 DEF Recorded, Posted, TextAt, BeforeSend, Saving
    <2>7. \A k \in 1 .. MaxBlocks : doc'[m][k] # "none" =>
            doc[m][k] # "none" /\ doc'[m][k - 1] \in {"stored", "kept"}
      BY <1>0, <2>4, <2>5, BlockFacts
    <2>8. BlocksAt(m)'
      BY <2>1, <2>3, <2>7 DEF Recorded, BlocksAt, BeforeSend, Saving
    <2> QED
      BY <1>1, <2>2, <2>6, <2>8 DEF Recorded
  <1>12. ASSUME NEW m \in Messages, CancelledWhilePosting(m) PROVE Goal
    <2>1. /\ pc[m] \in {"send", "pause"}
          /\ MaybePosted(m) \/ UNCHANGED posted
          /\ SaveBlocks(m, acked[m], "save_partial", "cancelled")
          /\ UNCHANGED << msg, seen, blocks, acked, saved >>
      BY <1>12 DEF CancelledWhilePosting, SavesWhatWasSent, ToSave
    <2>2. /\ acked[m] \in Nat /\ acked[m] < blocks[m] /\ saved[m] = 0
          /\ blocks[m] <= MaxBlocks /\ blocks[m] \in Nat
      <3>1. acked[m] < blocks[m] /\ saved[m] = 0
        BY <2>1 DEF Typed, Counters
      <3>2. acked[m] \in Slots /\ blocks[m] \in Slots
        BY <1>0
      <3> QED
        BY <3>1, <3>2, ConstantTypes DEF Slots
    <2>3. /\ pc' = [pc EXCEPT ![m] = IF acked[m] = 0 THEN "cancelled"
                                                   ELSE "save_partial"]
          /\ acked[m] = 0 => UNCHANGED << doc, time, clock >>
          /\ acked[m] # 0 => /\ clock' = clock + 1
                             /\ time' = [time EXCEPT ![m][1] = clock + 1]
                             /\ doc' = [doc EXCEPT ![m][1] = "flying"]
      BY <2>1 DEF SaveBlocks, Finish, Goto, Stamp
    <2>4. OnlyOf(m)
      BY <1>0, <2>1, <2>3 DEF OnlyOf, MaybePosted, TypeOK
    <2>5. /\ Recorded(m)
          /\ pc'[m] = IF acked[m] = 0 THEN "cancelled" ELSE "save_partial"
          /\ posted[m] \subseteq posted'[m]
      BY <1>0, <2>1, <2>3 DEF MaybePosted
    <2>6. /\ \A k \in 1 .. MaxBlocks : doc[m][k] = "none"
          /\ doc[m][0] = "stored" /\ ~ msg[m].bad
          /\ 1 .. acked[m] \subseteq posted[m]
      BY <2>1, <2>5 DEF Recorded, BlocksAt, TextAt, Posted, BeforeSend
    <2>7. Posted(m)'
      BY <2>1, <2>5, <2>6 DEF Posted, BeforeSend
    <2>8. CASE acked[m] = 0
      BY <1>1, <2>1, <2>3, <2>4, <2>5, <2>6, <2>7, <2>8
      DEF Recorded, TextAt, BlocksAt, BeforeSend, Saving
    <2>9. CASE acked[m] # 0
      <3>1. /\ \A k \in Slots : time'[m][k] = IF k = 1 THEN clock' ELSE time[m][k]
            /\ \A k \in Slots : doc'[m][k] = IF k = 1 THEN "flying" ELSE doc[m][k]
        BY <1>0, <2>3, <2>9 DEF TypeOK
      <3>2. \A k \in Slots : time[m][k] \in Nat /\ time[m][k] <= clock
        <4>1. \A k \in Slots : time[m][k] \in Nat
          BY <1>0 DEF TypeOK
        <4> QED
          BY <2>5, <4>1 DEF Recorded, BlocksAt
      <3>3. 1 \in posted'[m]
        BY <2>2, <2>5, <2>6, <2>9
      <3>4. TextAt(m)'
        BY <1>0, <2>5, <2>6, <2>9, <3>1 DEF TextAt, Saving
      <3>5. BlocksAt(m)'
        BY <1>0, <2>1, <2>2, <2>3, <2>5, <2>6, <2>9, <3>1, <3>2, <3>3, BlockFacts
        DEF BlocksAt, BeforeSend, Saving
      <3> QED
        BY <1>1, <2>4, <2>7, <3>4, <3>5 DEF Recorded
    <2> QED
      BY <2>8, <2>9
  <1>13. ASSUME NEW m \in Messages, CancelledElsewhere(m) PROVE Goal
    <2>1. /\ pc[m] \in Awaits \ {"queued", "send", "pause"}
          /\ Goto(m, "cancelled")
          /\ seen' = [seen EXCEPT ![m] = {}]
          /\ UNCHANGED << msg, time, clock, blocks, posted, acked, saved >>
      BY <1>13 DEF CancelledElsewhere, Finish
    <2>2. CASE pc[m] # "discard"
      BY <1>0, <1>13, <2>1, <2>2, RecordedGoto DEF CancelledElsewhere, Goal
    <2>3. CASE pc[m] = "discard"
      <3>1. PICK s \in {"kept", "deleted"} : doc' = [doc EXCEPT ![m][0] = s]
        BY <1>13, <2>3 DEF CancelledElsewhere, SetDoc
      <3>2. OnlyOf(m)
        BY <1>0, <2>1, <3>1 DEF OnlyOf, Goto, TypeOK
      <3>3. Recorded(m) /\ pc'[m] = "cancelled"
        BY <1>0, <2>1 DEF Goto
      <3>4. \A k \in 1 .. MaxBlocks : doc'[m][k] = "none"
        BY <1>0, <2>3, <3>1, <3>3, BlockFacts DEF Recorded, BlocksAt, TypeOK
      <3>5. Recorded(m)'
        BY <2>1, <3>3, <3>4
        DEF Recorded, Posted, TextAt, BlocksAt, BeforeSend, Saving
      <3> QED
        BY <1>1, <3>2, <3>5
    <2> QED
      BY <2>2, <2>3
  <1>14. ASSUME NEW m \in Messages, LateWrite(m) PROVE Goal
    <2>1. PICK j \in Slots, s \in {"stored", "lost"} :
            /\ pc[m] \in Ends /\ doc[m][j] = "flying"
            /\ doc' = [doc EXCEPT ![m][j] = s]
            /\ UNCHANGED << msg, pc, time, clock, seen, blocks, posted, acked, saved >>
      BY <1>14 DEF LateWrite, SetDoc
    <2>2. OnlyOf(m)
      BY <1>0, <2>1 DEF OnlyOf, TypeOK
    <2>3. Recorded(m)
      OBVIOUS
    <2>4. \A k \in Slots : doc'[m][k] = IF k = j THEN s ELSE doc[m][k]
      BY <1>0, <2>1 DEF TypeOK
    <2>5. Posted(m)' /\ TextAt(m)'
      BY <1>0, <2>1, <2>3, <2>4 DEF Recorded, Posted, TextAt, Saving, Ends
    <2>6. \A k \in 1 .. MaxBlocks : doc'[m][k] # "none" =>
            doc[m][k] # "none" /\ doc'[m][k - 1] \in {"stored", "kept"}
      BY <2>1, <2>3, <2>4, BlockFacts DEF Recorded, BlocksAt
    <2>7. pc[m] = "replied" => \A k \in 1 .. blocks[m] : doc'[m][k] = "stored"
      <3>1. blocks[m] \in Slots
        BY <1>0
      <3>2. 1 .. blocks[m] \subseteq Slots
        BY <3>1, ConstantTypes DEF Slots
      <3> QED
        BY <2>1, <2>3, <2>4, <3>2 DEF Recorded, BlocksAt
    <2>8. BlocksAt(m)'
      BY <2>1, <2>3, <2>6, <2>7
      DEF Recorded, BlocksAt, BeforeSend, Saving, Ends
    <2> QED
      BY <1>1, <2>2, <2>5, <2>8 DEF Recorded
  <1>15. CASE Crash
    <2> SUFFICES ASSUME NEW m \in Messages PROVE Recorded(m)'
      BY DEF Goal
    <2>1. /\ UNCHANGED << msg, doc, time, clock, blocks, posted, acked, saved >>
          /\ pc'[m] = IF Live(m) \/ pc[m] = "prep" THEN "crashed" ELSE pc[m]
          /\ pc[m] = "llm" => Live(m)
      BY <1>15 DEF Crash, Live, Awaits
    <2>2. Recorded(m)
      OBVIOUS
    <2>3. CASE pc'[m] = "crashed"
      BY <2>1, <2>2, <2>3
      DEF Recorded, Posted, TextAt, BlocksAt, BeforeSend, Saving
    <2>4. CASE pc'[m] = pc[m] /\ ~ Live(m)
      BY <2>1, <2>2, <2>4 DEF Recorded, Posted, TextAt, BlocksAt
    <2> QED
      BY <2>1, <2>3, <2>4
  <1>16. CASE UNCHANGED vars
    <2> SUFFICES ASSUME NEW m \in Messages PROVE Recorded(m)'
      BY DEF Goal
    <2>1. Recorded(m)
      OBVIOUS
    <2> QED
      BY <1>16, <2>1 DEF vars, Recorded, Posted, TextAt, BlocksAt
  <1>17. ASSUME NEW m \in Messages, Handle(m) PROVE Goal
    BY <1>2, <1>3, <1>5, <1>6, <1>7, <1>8, <1>9, <1>10, <1>11, <1>12, <1>13,
       <1>17
    DEF Handle
  <1>18. Goal
    BY <1>2, <1>14, <1>15, <1>16, <1>17 DEF Next
  <1> QED
    BY <1>18 DEF Goal

\* Everything the induction about a turn's record carries.
LEMMA RecordedHolds == Spec => [](\A m \in Messages : Recorded(m))
  <1>1. Spec => []Typed
    BY TypedInit, TypesNext, CountersNext, PTL DEF Spec, Typed
  <1>2. Spec => []TypeOK
    BY TypesHold
  <1> DEFINE All == \A m \in Messages : Recorded(m)
  <1>3. Init => All
    BY RecordedInit
  <1>4. Typed /\ TypeOK' /\ All /\ [Next]_vars => All'
    BY RecordedNext
  <1> HIDE DEF All
  <1>5. Spec => []All
    BY <1>1, <1>2, <1>3, <1>4, PTL DEF Spec
  <1> QED
    BY <1>5 DEF All

\* Every block of a reply that is in the history, or on its way there, is on
\* Discord and follows the user's text and the blocks before it: the order of
\* the send and save loops survives a failure, a cancel or a crash anywhere.
THEOREM HistoryOfDiscord == Spec => []HistoryMatchesDiscord
  <1>1. (\A m \in Messages : Recorded(m)) => HistoryMatchesDiscord
    BY DEF Recorded, BlocksAt, HistoryMatchesDiscord
  <1> QED
    BY <1>1, RecordedHolds, PTL

\* A turn that ran to its end left its text and all its blocks in the history.
THEOREM FinishedRecorded == Spec => []FinishedTurnRecorded
  <1>1. (\A m \in Messages : Recorded(m)) => FinishedTurnRecorded
    BY DEF Recorded, Posted, TextAt, BlocksAt, FinishedTurnRecorded
  <1> QED
    BY <1>1, RecordedHolds, PTL

\* The text of a turn the send guard stopped is deleted, or its delete failed.
THEOREM BlockedDiscarded == Spec => []BlockedTextDiscarded
  <1>1. (\A m \in Messages : Recorded(m)) => BlockedTextDiscarded
    BY DEF Recorded, TextAt, BlockedTextDiscarded
  <1> QED
    BY <1>1, RecordedHolds, PTL

\* A text with a listed word gets no block of an answer: the turn loads its own
\* text, whatever the other channels add to the shared history and delete.
THEOREM BlockedUnanswered == Spec => []BlockedMessageUnanswered
  <1>1. (\A m \in Messages : Recorded(m)) => BlockedMessageUnanswered
    BY DEF Recorded, Posted, BlockedMessageUnanswered
  <1> QED
    BY <1>1, RecordedHolds, PTL

-----------------------------------------------------------------------------
(* Cancelled turns, and the order of the user's texts.                     *)

\* Once CancelledError was raised in a turn only its records and its notice
\* are left to do, and a turn that has not started is not cancelled.
Closing ==
    \A m \in Messages :
        /\ cancel[m] = "delivered" =>
             pc[m] \in {"save_partial", "notify_error"} \cup Ends
        /\ pc[m] \in {"new", "prep"} => cancel[m] = "no"

\* A cancelled turn only winds up.
WindsUp ==
    \A m \in Messages : cancel[m] # "no" =>
        pc'[m] \in {pc[m], "save_partial", "notify_error"} \cup Ends

LEMMA ClosingNext ==
    TypeOK /\ Closing /\ [Next]_vars => Closing' /\ WindsUp
  <1> DEFINE Goal == Closing' /\ WindsUp
  <1> SUFFICES ASSUME TypeOK, Closing, [Next]_vars PROVE Goal
    OBVIOUS
  <1>0. /\ pc \in [Messages -> {"new", "prep"} \cup Awaits \cup Ends]
        /\ cancel \in [Messages -> {"no", "requested", "delivered"}]
    BY DEF TypeOK
  \* A turn that is not cancelled, or is closing, goes to p.
  <1>1. ASSUME NEW m \in Messages, NEW p, Goto(m, p), UNCHANGED cancel,
               cancel[m] # "no" => p \in {"save_partial", "notify_error"} \cup Ends,
               p = "prep" => pc[m] = "new", p # "new"
        PROVE  Goal
    BY <1>0, <1>1 DEF Closing, WindsUp, Goto, Ends
  \* A turn sees its cancellation.
  <1>2. ASSUME NEW m \in Messages, NEW p \in {"save_partial"} \cup Ends, Goto(m, p),
               CancelSeen(m)
        PROVE  Goal
    BY <1>0, <1>2 DEF Closing, WindsUp, Goto, CancelSeen, Ends
  <1>3. ASSUME UNCHANGED << pc, cancel >> PROVE Goal
    BY <1>3 DEF Closing, WindsUp
  <1> HIDE DEF Goal
  <1>4. ASSUME NEW m \in Messages, Receive(m) \/ Ignore(m) PROVE Goal
    BY <1>1, <1>4 DEF Receive, Ignore, Ends, Closing
  <1>5. ASSUME NEW m \in Messages, StartConversation(m) PROVE Goal
    <2>1. /\ pc[m] = "prep" /\ pc' = [pc EXCEPT ![m] = "queued"]
          /\ cancel' = [o \in Messages |->
                IF o \in Supersedes(m) THEN "requested" ELSE cancel[o]]
          /\ cancel[m] = "no"
      BY <1>5 DEF StartConversation, Goto, Closing
    <2>2. \A o \in Supersedes(m) : pc[o] \notin {"new", "prep"}
      BY DEF Supersedes, Live, Awaits
    <2> QED
      BY <1>0, <2>1, <2>2 DEF Goal, Closing, WindsUp
  <1>6. ASSUME NEW m \in Messages, NEW p, At(m, p), p \in Awaits,
               p \notin {"save_partial", "notify_error"}
        PROVE  cancel[m] = "no"
    BY <1>0, <1>6 DEF At, Closing, Awaits, Ends
  <1>7. ASSUME NEW m \in Messages,
               \/ TurnBegins(m) \/ TypingShown(m) \/ TypingFails(m)
               \/ UserSaved(m) \/ UserSaveFails(m)
        PROVE  Goal
    BY <1>1, <1>6, <1>7
    DEF TurnBegins, TypingShown, TypingFails, UserSaved, UserSaveFails, Awaits
  <1>8. ASSUME NEW m \in Messages,
               \/ HistoryLoaded(m) \/ HistoryLoadFails(m)
               \/ LlmBlocked(m) \/ LlmFails(m) \/ LlmReplies(m)
        PROVE  Goal
    BY <1>1, <1>6, <1>8
    DEF HistoryLoaded, HistoryLoadFails, LlmBlocked, LlmFails, LlmReplies,
        Finish, Awaits
  <1>9. ASSUME NEW m \in Messages,
               \/ BlockSent(m) \/ BlockSendFails(m) \/ PauseOver(m)
               \/ UserDiscarded(m) \/ UserDiscardFails(m)
        PROVE  Goal
    BY <1>1, <1>6, <1>9
    DEF BlockSent, BlockSendFails, PauseOver, UserDiscarded, UserDiscardFails,
        SaveBlocks, Finish, Awaits
  <1>10. ASSUME NEW m \in Messages,
                BlockSaved(m) \/ BlockSaveFails(m) \/ Notified(m)
         PROVE  Goal
    <2>1. /\ UNCHANGED cancel
          /\ \/ UNCHANGED pc
             \/ \E p \in {"notify_error"} \cup Ends : Goto(m, p)
      BY <1>10
      DEF BlockSaved, BlockSaveFails, Notified, Finish, EndOfSave, Ends
    <2> QED
      BY <1>1, <1>3, <2>1 DEF Ends
  <1>11. ASSUME NEW m \in Messages,
                \/ CancelledBeforeFirstStep(m) \/ CancelledWhilePosting(m)
                \/ CancelledElsewhere(m)
         PROVE  Goal
    BY <1>2, <1>11
    DEF CancelledBeforeFirstStep, CancelledWhilePosting, CancelledElsewhere,
        SavesWhatWasSent, SaveBlocks, Finish, Ends
  <1>12. ASSUME NEW m \in Messages, LateWrite(m) PROVE Goal
    BY <1>3, <1>12 DEF LateWrite
  <1>13. CASE Crash
    BY <1>0, <1>13 DEF Goal, Crash, Closing, WindsUp, Ends
  <1>14. CASE UNCHANGED vars
    BY <1>3, <1>14 DEF vars
  <1>15. ASSUME NEW m \in Messages, Handle(m) PROVE Goal
    BY <1>4, <1>5, <1>7, <1>8, <1>9, <1>10, <1>11, <1>15 DEF Handle
  <1>16. Goal
    BY <1>4, <1>12, <1>13, <1>14, <1>15 DEF Next
  <1> QED
    BY <1>16 DEF Goal

LEMMA ClosingHolds == Spec => []Closing
  <1>1. Init => Closing
    BY DEF Init, Closing
  <1> QED
    BY <1>1, TypesHold, ClosingNext, PTL DEF Spec

\* A turn told to stop asks the LLM nothing more and sends no further block,
\* wherever the cancel met it: it winds up, and a second cancel changes nothing.
THEOREM NothingAfterCancel == Spec => CancelledTurnStartsNothing
  <1>1. TypeOK /\ Closing /\ [Next]_vars =>
          [\A m \in Messages : cancel[m] # "no" =>
             pc'[m] \in {pc[m], "save_partial", "notify_error"} \cup Ends]_vars
    BY ClosingNext DEF WindsUp
  <1> QED
    BY <1>1, TypesHold, ClosingHolds, PTL DEF Spec, CancelledTurnStartsNothing

\* A step after which no other text is in the history, none has another time
\* and no turn is current that was not.
LEMMA OrderKept ==
    ASSUME UserTextsInTurnOrder, UNCHANGED msg,
           \A m \in Messages : /\ Current(m)' => Current(m)
                               /\ (doc'[m][0] = "none") = (doc[m][0] = "none")
                               /\ time'[m][0] = time[m][0]
    PROVE  UserTextsInTurnOrder'
  BY DEF UserTextsInTurnOrder, C

LEMMA OrderNext ==
    Typed /\ Registered /\ Closing /\ UserTextsInTurnOrder
    /\ (\A m \in Messages : Recorded(m)) /\ [Next]_vars
        => UserTextsInTurnOrder'
  <1> DEFINE Goal == UserTextsInTurnOrder'
  <1> SUFFICES ASSUME Typed, Registered, Closing, UserTextsInTurnOrder,
                      \A m \in Messages : Recorded(m), [Next]_vars
               PROVE  Goal
    OBVIOUS
  <1> HIDE DEF Goal
  <1>0. /\ pc \in [Messages -> {"new", "prep"} \cup Awaits \cup Ends]
        /\ cancel \in [Messages -> {"no", "requested", "delivered"}]
        /\ doc \in [Messages -> [Slots -> DocStates]]
        /\ time \in [Messages -> [Slots -> Nat]]
        /\ clock \in Nat
        /\ acked \in [Messages -> Slots] /\ saved \in [Messages -> Slots]
        /\ 0 \in Slots /\ MaxBlocks \in Nat
    BY SlotFacts, ConstantTypes DEF Typed, TypeOK
  \* No turn becomes current, and texts and their times stay.
  <1>1. ASSUME UNCHANGED msg,
               \A m \in Messages : Current(m)' => Current(m),
               \A m \in Messages : (doc'[m][0] = "none") = (doc[m][0] = "none"),
               \A m \in Messages : time'[m][0] = time[m][0]
        PROVE  Goal
    BY <1>1, OrderKept DEF Goal
  \* A turn that is under way goes on, or is over.
  <1>2. ASSUME NEW m \in Messages, NEW p, Goto(m, p), Live(m) \/ p \notin Awaits,
               UNCHANGED cancel \/ CancelSeen(m)
        PROVE  \A n \in Messages : Current(n)' => Current(n)
    BY <1>0, <1>2 DEF Current, Live, Goto, CancelSeen
  <1>3. ASSUME NEW m \in Messages, NEW p, Goto(m, p), Live(m) \/ p \notin Awaits,
               UNCHANGED cancel \/ CancelSeen(m), UNCHANGED << msg, doc, time >>
        PROVE  Goal
    BY <1>1, <1>2, <1>3
  \* The outcome of a write of the text.
  <1>4. ASSUME NEW m \in Messages, NEW p, Goto(m, p), Live(m),
               UNCHANGED cancel \/ CancelSeen(m), UNCHANGED << msg, time >>,
               NEW s \in DocStates \ {"none"}, SetDoc(m, 0, s), doc[m][0] # "none"
        PROVE  Goal
    <2>1. \A n \in Messages : (doc'[n][0] = "none") = (doc[n][0] = "none")
      BY <1>0, <1>4 DEF SetDoc
    <2> QED
      BY <1>1, <1>2, <1>4, <2>1
  \* A step of the save loop: it writes blocks only.
  <1>5. ASSUME UNCHANGED msg,
               \A n \in Messages : Current(n)' => Current(n),
               \A n \in Messages : doc'[n][0] = doc[n][0] /\ time'[n][0] = time[n][0]
        PROVE  Goal
    BY <1>1, <1>5
  <1>6. ASSUME NEW m \in Messages, Ignore(m) \/ Receive(m) PROVE Goal
    BY <1>3, <1>6 DEF Ignore, Receive, Awaits
  <1>7. ASSUME NEW m \in Messages, StartConversation(m) PROVE Goal
    <2>1. /\ pc[m] = "prep" /\ pc' = [pc EXCEPT ![m] = "queued"]
          /\ UNCHANGED << msg, doc, time >>
          /\ cancel' = [o \in Messages |->
                IF o \in Supersedes(m) THEN "requested" ELSE cancel[o]]
      BY <1>7 DEF StartConversation, Goto
    <2>2. doc'[m][0] = "none"
      BY <2>1 DEF Recorded, TextAt
    <2>3. \A n \in Messages \ {m} : Current(n)' => Current(n)
      BY <1>0, <2>1 DEF Current, Live
    <2> QED
      BY <2>1, <2>2, <2>3 DEF Goal, UserTextsInTurnOrder, C
  <1>8. ASSUME NEW m \in Messages, TypingShown(m) PROVE Goal
    <2>1. /\ pc[m] = "typing" /\ pc' = [pc EXCEPT ![m] = "save_user"]
          /\ cancel[m] # "requested"
          /\ time' = [time EXCEPT ![m][0] = clock + 1]
          /\ doc' = [doc EXCEPT ![m][0] = "flying"]
          /\ UNCHANGED << msg, cancel >>
      BY <1>8 DEF TypingShown, Stamp, Goto, At
    <2>2. Current(m)
      BY <1>0, <2>1 DEF Current, Live, Awaits, Closing, Ends
    <2>3. \A n \in Messages : n # m /\ C(n) = C(m) => ~ Current(n)
      BY <2>2, RegistryTypes DEF Registered, Typed
    <2>4. \A n \in Messages : Current(n)' => Current(n)
      BY <1>2, <1>8, <2>2 DEF TypingShown, Current
    <2>5. \A n \in Messages : time[n][0] <= clock
      BY <1>0 DEF Recorded, BlocksAt
    <2>6. ASSUME NEW a \in Messages, Current(a)', NEW b \in Messages,
                 b # a, C(b)' = C(a)', doc'[b][0] # "none"
          PROVE  doc'[a][0] = "none" \/ time'[b][0] < time'[a][0]
      <3>1. Current(a) /\ C(b) = C(a)
        BY <2>1, <2>4, <2>6 DEF C
      <3>2. b # m
        BY <2>3, <2>6, <3>1
      <3>3. doc[b][0] # "none" /\ time'[b][0] = time[b][0] /\ time[b][0] \in Nat
        BY <1>0, <2>1, <2>6, <3>2
      <3>4. CASE a = m
        BY <1>0, <2>1, <2>5, <3>3, <3>4
      <3>5. CASE a # m
        BY <1>0, <2>1, <2>6, <3>1, <3>3, <3>5 DEF UserTextsInTurnOrder
      <3> QED
        BY <3>4, <3>5
    <2> QED
      BY <2>6 DEF Goal, UserTextsInTurnOrder
  <1>9. ASSUME NEW m \in Messages,
               \/ TurnBegins(m) \/ TypingFails(m) \/ HistoryLoaded(m)
               \/ HistoryLoadFails(m) \/ LlmBlocked(m) \/ LlmFails(m)
               \/ LlmReplies(m) \/ BlockSendFails(m) \/ PauseOver(m)
               \/ Notified(m) \/ CancelledBeforeFirstStep(m)
        PROVE  Goal
    BY <1>3, <1>9
    DEF TurnBegins, TypingFails, HistoryLoaded, HistoryLoadFails, LlmBlocked,
        LlmFails, LlmReplies, BlockSendFails, PauseOver, Notified,
        CancelledBeforeFirstStep, Finish, At, Live, Awaits
  <1>10. ASSUME NEW m \in Messages,
                \/ UserSaved(m) \/ UserSaveFails(m)
                \/ UserDiscarded(m) \/ UserDiscardFails(m)
         PROVE  Goal
    <2>1. Live(m) /\ doc[m][0] # "none"
      BY <1>10
      DEF UserSaved, UserSaveFails, UserDiscarded, UserDiscardFails, At, Live,
          Awaits, Recorded, TextAt
    <2> QED
      BY <1>4, <1>10, <2>1
      DEF UserSaved, UserSaveFails, UserDiscarded, UserDiscardFails, Discarded,
          DocStates
  \* The save loop begins, or there is nothing to save.
  <1>11. ASSUME NEW m \in Messages, NEW n, NEW p, NEW e, SaveBlocks(m, n, p, e),
                Live(m), UNCHANGED cancel \/ CancelSeen(m), UNCHANGED msg
         PROVE  Goal
    <2>1. \E q \in {p, e} : Goto(m, q)
      BY <1>11 DEF SaveBlocks, Finish
    <2>2. \A o \in Messages : doc'[o][0] = doc[o][0] /\ time'[o][0] = time[o][0]
      <3>1. CASE n = 0
        BY <1>11, <3>1 DEF SaveBlocks
      <3>2. CASE n # 0
        <4>1. /\ time' = [time EXCEPT ![m][1] = clock + 1]
              /\ doc' = [doc EXCEPT ![m][1] = "flying"]
          BY <1>11, <3>2 DEF SaveBlocks, Stamp
        <4> QED
          BY <1>0, <4>1
      <3> QED
        BY <3>1, <3>2
    <2> QED
      BY <1>2, <1>5, <1>11, <2>1, <2>2
  <1>12. ASSUME NEW m \in Messages, BlockSent(m) PROVE Goal
    <2>1. Live(m)
      BY <1>12 DEF BlockSent, At, Live, Awaits
    <2> QED
      BY <1>3, <1>11, <1>12, <2>1 DEF BlockSent
  <1>13. ASSUME NEW m \in Messages, BlockSaved(m) PROVE Goal
    <2>1. /\ Live(m) /\ UNCHANGED << msg, cancel >>
          /\ UNCHANGED pc \/ \E q : Goto(m, q)
      BY <1>13 DEF BlockSaved, At, Live, Awaits, Finish
    <2>2. saved[m] \in Nat
      BY <1>0 DEF Slots
    <2>3. \A o \in Messages : doc'[o][0] = doc[o][0] /\ time'[o][0] = time[o][0]
      <3>0. saved[m] + 1 # 0 /\ saved[m] + 2 # 0
        BY <2>2
      <3>1. \/ /\ time' = [time EXCEPT ![m][saved[m] + 2] = clock + 1]
               /\ doc' = [doc EXCEPT ![m][saved[m] + 1] = "stored",
                                     ![m][saved[m] + 2] = "flying"]
            \/ /\ doc' = [doc EXCEPT ![m][saved[m] + 1] = "stored"]
               /\ UNCHANGED time
        BY <1>13 DEF BlockSaved, SetDoc
      <3>2. CASE UNCHANGED time /\ doc' = [doc EXCEPT ![m][saved[m] + 1] = "stored"]
        BY <1>0, <3>0, <3>2
      <3>3. CASE ~ UNCHANGED time
        <4> DEFINE mid == [doc EXCEPT ![m][saved[m] + 1] = "stored"]
        <4>1. /\ time' = [time EXCEPT ![m][saved[m] + 2] = clock + 1]
              /\ doc' = [mid EXCEPT ![m][saved[m] + 2] = "flying"]
          BY <3>1, <3>3
        <4>2. \A o \in Messages : mid[o][0] = doc[o][0]
          BY <1>0, <3>0
        <4>3. mid \in [Messages -> [Slots -> DocStates]]
          BY <1>0 DEF DocStates
        <4> HIDE DEF mid
        <4>4. \A o \in Messages : doc'[o][0] = mid[o][0]
          BY <3>0, <4>1, <4>3
        <4> QED
          BY <1>0, <3>0, <4>1, <4>2, <4>4
      <3> QED
        BY <3>1, <3>2, <3>3
    <2>4. \A n \in Messages : Current(n)' => Current(n)
      BY <1>2, <2>1 DEF Current, Live
    <2> QED
      BY <1>5, <2>1, <2>3, <2>4
  <1>14. ASSUME NEW m \in Messages, BlockSaveFails(m) PROVE Goal
    <2>1. saved[m] \in Nat
      BY <1>0 DEF Slots
    <2>2. \A o \in Messages : doc'[o][0] = doc[o][0] /\ time'[o][0] = time[o][0]
      BY <1>0, <1>14, <2>1 DEF BlockSaveFails, SetDoc
    <2>3. Live(m)
      BY <1>14 DEF BlockSaveFails, At, Live, Awaits
    <2> QED
      BY <1>2, <1>5, <1>14, <2>2, <2>3 DEF BlockSaveFails
  <1>15. ASSUME NEW m \in Messages, CancelledWhilePosting(m) PROVE Goal
    <2>1. Live(m)
      BY <1>15 DEF CancelledWhilePosting, Live, Awaits
    <2> QED
      BY <1>11, <1>15, <2>1 DEF CancelledWhilePosting, SavesWhatWasSent
  <1>16. ASSUME NEW m \in Messages, CancelledElsewhere(m) PROVE Goal
    <2>1. /\ Live(m) /\ Goto(m, "cancelled") /\ CancelSeen(m)
          /\ UNCHANGED << msg, time >>
          /\ pc[m] = "discard" => doc[m][0] # "none"
      BY <1>16 DEF CancelledElsewhere, Live, Finish, Recorded, TextAt
    <2>2. CASE pc[m] = "discard"
      BY <1>4, <1>16, <2>1, <2>2 DEF CancelledElsewhere, DocStates
    <2>3. CASE pc[m] # "discard"
      BY <1>3, <1>16, <2>1, <2>3 DEF CancelledElsewhere
    <2> QED
      BY <2>2, <2>3
  <1>17. ASSUME NEW m \in Messages, LateWrite(m) PROVE Goal
    <2>1. PICK k \in Slots, s \in {"stored", "lost"} :
            doc[m][k] = "flying" /\ doc' = [doc EXCEPT ![m][k] = s]
      BY <1>17 DEF LateWrite, SetDoc
    <2>2. \A n \in Messages : (doc'[n][0] = "none") = (doc[n][0] = "none")
      BY <1>0, <2>1
    <2> QED
      BY <1>1, <1>17, <2>2 DEF LateWrite, Current, Live
  <1>18. CASE Crash
    <2>1. \A n \in Messages : Current(n)' => Current(n)
      BY <1>18 DEF Crash, Current, Live, Awaits
    <2> QED
      BY <1>5, <1>18, <2>1 DEF Crash
  <1>19. CASE UNCHANGED vars
    BY <1>5, <1>19 DEF vars, Current, Live
  <1>20. ASSUME NEW m \in Messages, Handle(m) PROVE Goal
    BY <1>6, <1>7, <1>8, <1>9, <1>10, <1>12, <1>13, <1>14, <1>15, <1>16, <1>20
    DEF Handle
  <1>21. Goal
    BY <1>6, <1>17, <1>18, <1>19, <1>20 DEF Next
  <1> QED
    BY <1>21 DEF Goal

\* The user's texts of a channel are in the history in the order the turns were
\* started, although each is stamped several awaits after its turn began: a
\* superseded turn can stamp no more, for its channel has another current one.
THEOREM TextsInOrder == Spec => []UserTextsInTurnOrder
  <1>1. Init => UserTextsInTurnOrder
    BY SlotFacts DEF Init, UserTextsInTurnOrder
  <1> DEFINE All == \A m \in Messages : Recorded(m)
  <1>2. Spec => []Typed
    BY TypedInit, TypesNext, CountersNext, PTL DEF Spec, Typed
  <1>3. Spec => []All
    BY RecordedHolds
  <1>4. Typed /\ Registered /\ Closing /\ UserTextsInTurnOrder /\ All
          /\ [Next]_vars => UserTextsInTurnOrder'
    BY OrderNext
  <1> HIDE DEF All
  <1> QED
    BY <1>1, <1>2, <1>3, <1>4, RegisteredHolds, ClosingHolds, PTL DEF Spec

-----------------------------------------------------------------------------
(* What a channel is promised.                                             *)

\* The blocks of m's reply that a query of the history returns.
InHistory(m) == {k \in 1 .. MaxBlocks : Visible(<< m, k >>)}

LEMMA PromiseInit == Init => Promise!Init
  <1> SUFFICES ASSUME Init PROVE Promise!Init
    OBVIOUS
  <1>1. \A m \in Messages : C(m) \in Channels
    BY ConstantTypes DEF Init, C
  <1>2. \A m \in Messages : TurnStatus(m) = "waiting"
    BY DEF Init, TurnStatus, Live, Awaits
  <1>3. \A m \in Messages : Cardinality(posted[m]) = 0
    BY FS_EmptySet DEF Init
  <1>4. \A m \in Messages : InHistory(m) = {}
    <2> SUFFICES ASSUME NEW m \in Messages, NEW k \in 1 .. MaxBlocks
                 PROVE  ~ Visible(<< m, k >>)
      BY DEF InHistory
    <2> QED
      BY BlockFacts DEF Init, Visible
  <1>5. \A m \in Messages : Cardinality(InHistory(m)) = 0
    BY <1>4, FS_EmptySet
  <1> QED
    BY <1>1, <1>2, <1>3, <1>5 DEF Promise!Init, InHistory

\* A step of m's handling changes what the channel sees of m only.
LEMMA OnlyThisTurn ==
    ASSUME NEW m \in Messages, UNCHANGED msg,
           \A n \in Messages \ {m} :
             /\ TurnStatus(n)' = TurnStatus(n)
             /\ posted'[n] = posted[n] /\ doc'[n] = doc[n]
    PROVE  /\ \A n \in Messages : C(n)' = C(n)
           /\ \A n \in Messages \ {m} :
                InHistory(n)' = InHistory(n)
  BY DEF C, InHistory, Visible

\* What becomes of one turn in a step: nothing, its end, its start refused, a
\* block shown, a superseded turn that notices, a block recorded.
Nothing(m) ==
    /\ TurnStatus(m)' = TurnStatus(m)
    /\ posted'[m] = posted[m] /\ InHistory(m)' = InHistory(m)
Over(m) ==
    /\ TurnStatus(m) \in {"waiting", "current", "closing"}
    /\ TurnStatus(m)' = "over"
    /\ posted'[m] = posted[m] /\ InHistory(m)' = InHistory(m)
Shows(m) ==
    /\ TurnStatus(m) = "current" /\ TurnStatus(m)' = "current"
    /\ Cardinality(posted'[m]) = Cardinality(posted[m]) + 1
    /\ InHistory(m)' = InHistory(m)
Notices(m) ==
    /\ TurnStatus(m) = "superseded"
    /\ TurnStatus(m)' \in {"closing", "over"}
    /\ \/ posted'[m] = posted[m]
       \/ Cardinality(posted'[m]) = Cardinality(posted[m]) + 1
    /\ InHistory(m)' = InHistory(m)
Records(m) ==
    /\ TurnStatus(m) # "waiting"
    /\ \/ TurnStatus(m)' = TurnStatus(m)
       \/ TurnStatus(m) \in {"current", "closing"} /\ TurnStatus(m)' = "over"
    /\ posted'[m] = posted[m]
    /\ Cardinality(InHistory(m)) < Cardinality(posted[m])
    /\ Cardinality(InHistory(m)') = Cardinality(InHistory(m)) + 1

\* What the step is to the channel, from what becomes of m.
LEMMA Promised ==
    ASSUME NEW m \in Messages, UNCHANGED msg,
           \A n \in Messages \ {m} :
             /\ TurnStatus(n)' = TurnStatus(n)
             /\ posted'[n] = posted[n] /\ doc'[n] = doc[n],
           Nothing(m) \/ Over(m) \/ Shows(m) \/ Notices(m) \/ Records(m)
    PROVE  [Promise!Next]_(Promise!turnVars)
  <1>1. /\ \A n \in Messages : C(n)' = C(n)
        /\ \A n \in Messages \ {m} : Cardinality(InHistory(n)') = Cardinality(InHistory(n))
    BY OnlyThisTurn
  <1> DEFINE ch == [n \in Messages |-> C(n)]
             st == [n \in Messages |-> TurnStatus(n)]
             de == [n \in Messages |-> Cardinality(posted[n])]
             re == [n \in Messages |-> Cardinality(InHistory(n))]
  <1>2. /\ ch' = ch
        /\ st' = [st EXCEPT ![m] = TurnStatus(m)']
        /\ de' = [de EXCEPT ![m] = Cardinality(posted'[m])]
        /\ re' = [re EXCEPT ![m] = Cardinality(InHistory(m)')]
    BY <1>1
  <1>3. /\ st[m] = TurnStatus(m)
        /\ de[m] = Cardinality(posted[m])
        /\ re[m] = Cardinality(InHistory(m))
    OBVIOUS
  <1>4. CASE Nothing(m)
    <2>1. st' = st /\ de' = de /\ re' = re
      BY <1>2, <1>3, <1>4 DEF Nothing
    <2> QED
      BY <1>2, <2>1 DEF Promise!turnVars, InHistory
  <1>5. CASE Over(m)
    <2>1. de' = de /\ re' = re
      BY <1>2, <1>3, <1>5 DEF Over
    <2>2. Promise!End(m) \/ Promise!Drop(m)
      BY <1>2, <1>3, <1>5, <2>1 DEF Over, Promise!End, Promise!Drop, InHistory
    <2> QED
      BY <2>2 DEF Promise!Next
  <1>6. CASE Shows(m)
    <2>1. st' = st /\ re' = re
      BY <1>2, <1>3, <1>6 DEF Shows
    <2>2. Promise!Deliver(m)
      BY <1>2, <1>3, <1>6, <2>1 DEF Shows, Promise!Deliver, InHistory
    <2> QED
      BY <2>2 DEF Promise!Next
  <1>7. CASE Notices(m)
    <2>1. re' = re /\ de' \in {de, [de EXCEPT ![m] = @ + 1]}
      BY <1>2, <1>3, <1>7 DEF Notices
    <2>2. Promise!Stop(m)
      BY <1>2, <1>3, <1>7, <2>1 DEF Notices, Promise!Stop, InHistory
    <2> QED
      BY <2>2 DEF Promise!Next
  <1>8. CASE Records(m)
    <2>1. de' = de /\ re' = [re EXCEPT ![m] = @ + 1]
      BY <1>2, <1>3, <1>8 DEF Records
    <2>2. st' = st \/ (st[m] \in {"current", "closing"} /\ st' = [st EXCEPT ![m] = "over"])
      BY <1>2, <1>3, <1>8 DEF Records
    <2>3. Promise!Record(m)
      BY <1>2, <1>3, <1>8, <2>1, <2>2 DEF Records, Promise!Record, InHistory
    <2> QED
      BY <2>3 DEF Promise!Next
  <1> QED
    BY <1>4, <1>5, <1>6, <1>7, <1>8

\* The status of a turn at await p with cancellation c.
StatusAt(p, c) ==
    IF p \in {"new", "prep"} THEN "waiting"
    ELSE IF p \notin Awaits THEN "over"
    ELSE IF c = "no" THEN "current"
    ELSE IF c = "requested" THEN "superseded" ELSE "closing"

LEMMA StatusIs ==
    ASSUME TypeOK, TypeOK', NEW m \in Messages
    PROVE  /\ TurnStatus(m) = StatusAt(pc[m], cancel[m])
           /\ TurnStatus(m)' = StatusAt(pc'[m], cancel'[m])
  <1>1. /\ cancel[m] \in {"no", "requested", "delivered"}
        /\ cancel'[m] \in {"no", "requested", "delivered"}
    BY DEF TypeOK
  <1>2. "new" \notin Awaits /\ "prep" \notin Awaits
    BY DEF Awaits
  <1>3. TurnStatus(m) = StatusAt(pc[m], cancel[m])
    BY <1>1, <1>2 DEF TurnStatus, StatusAt, Live
  <1>4. TurnStatus(m)' = StatusAt(pc'[m], cancel'[m])
    BY <1>1, <1>2 DEF TurnStatus, StatusAt, Live
  <1> QED
    BY <1>3, <1>4

\* Blocks are numbered from 1 to MaxBlocks, so the sets of them are finite.
LEMMA BlocksFinite ==
    ASSUME NEW S \in SUBSET (1 .. MaxBlocks)
    PROVE  IsFiniteSet(S) /\ Cardinality(S) \in Nat
  <1>1. IsFiniteSet(1 .. MaxBlocks)
    BY ConstantTypes, FS_Interval
  <1>2. IsFiniteSet(S)
    BY <1>1, FS_Subset
  <1> QED
    BY <1>2, FS_CardinalityType

\* The next block is one more on Discord.
LEMMA OneMoreShown ==
    ASSUME Typed, NEW m \in Messages, Recorded(m), pc[m] \in {"send", "pause"},
           posted'[m] = posted[m] \cup {acked[m] + 1}
    PROVE  Cardinality(posted'[m]) = Cardinality(posted[m]) + 1
  <1>1. posted[m] = 1 .. acked[m] /\ posted[m] \in SUBSET (1 .. MaxBlocks)
    BY DEF Typed, TypeOK, Recorded, Posted
  <1>2. acked[m] \in Nat
    BY ConstantTypes DEF Typed, TypeOK, Slots
  <1>3. acked[m] + 1 \notin posted[m]
    BY <1>1, <1>2
  <1> QED
    <2>1. IsFiniteSet(posted[m])
      BY <1>1, BlocksFinite
    <2>2. Cardinality(posted[m] \cup {acked[m] + 1}) = Cardinality(posted[m]) + 1
      BY <1>3, <2>1, FS_AddElement
    <2> QED
      BY <2>2

\* A block that arrives in the history is one more there, and was shown.
LEMMA OneMoreRecorded ==
    ASSUME TypeOK, NEW m \in Messages, Recorded(m), NEW k \in 1 .. MaxBlocks,
           doc[m][k] = "flying", InHistory(m)' = InHistory(m) \cup {k}
    PROVE  /\ Cardinality(InHistory(m)) < Cardinality(posted[m])
           /\ Cardinality(InHistory(m)') = Cardinality(InHistory(m)) + 1
  <1>1. k \notin InHistory(m)
    BY DEF InHistory, Visible
  <1>2. InHistory(m) \cup {k} \subseteq posted[m]
    BY DEF InHistory, Visible, Recorded, BlocksAt
  <1>3. /\ posted[m] \in SUBSET (1 .. MaxBlocks)
        /\ InHistory(m) \in SUBSET (1 .. MaxBlocks)
    BY DEF TypeOK, InHistory
  <1>4. /\ IsFiniteSet(posted[m]) /\ Cardinality(posted[m]) \in Nat
        /\ IsFiniteSet(InHistory(m)) /\ Cardinality(InHistory(m)) \in Nat
    BY <1>3, BlocksFinite
  <1>5. Cardinality(InHistory(m) \cup {k}) = Cardinality(InHistory(m)) + 1
    BY <1>1, <1>4, FS_AddElement
  <1>6. Cardinality(InHistory(m) \cup {k}) <= Cardinality(posted[m])
    BY <1>2, <1>4, FS_Subset
  <1> QED
    BY <1>4, <1>5, <1>6

\* The blocks a query returns are as before, if each document is.
LEMMA HistoryStays ==
    ASSUME NEW m \in Messages,
           \A k \in 1 .. MaxBlocks :
             (doc'[m][k] \in {"stored", "kept"}) = (doc[m][k] \in {"stored", "kept"})
    PROVE  InHistory(m)' = InHistory(m)
  BY DEF InHistory, Visible

\* Starting a turn supersedes the one registered for the channel, which is its
\* only current one.
LEMMA PromiseBegins ==
    ASSUME TypeOK, TypeOK', Registered, NEW m \in Messages, StartConversation(m)
    PROVE  Promise!Begin(m)
  <1>1. /\ pc[m] = "prep" /\ pc' = [pc EXCEPT ![m] = "queued"]
        /\ cancel' = [o \in Messages |->
              IF o \in Supersedes(m) THEN "requested" ELSE cancel[o]]
        /\ UNCHANGED << msg, doc, posted >>
    BY DEF StartConversation, Goto
  <1>2. \A o \in Messages :
          o \in Supersedes(m) <=> Current(o) /\ C(o) = C(m)
    BY RegistryTypes, ConstantTypes DEF Supersedes, Registered, Current
  <1>3. /\ cancel[m] = "no" /\ ~ Current(m)
        /\ "queued" \in Awaits /\ "prep" \notin Awaits /\ "new" \notin Awaits
    BY <1>1 DEF Registered, Current, Live, Awaits
  <1>4. TurnStatus(m) = "waiting"
    BY <1>1, StatusIs DEF StatusAt
  <1>5. \A u \in Messages : TurnStatus(u) = "current" <=> Current(u)
    BY <1>3, StatusIs DEF StatusAt, Current, Live
  <1>6. \A u \in Messages :
          TurnStatus(u)' =
            CASE u = m -> "current"
              [] u # m /\ TurnStatus(u) = "current" /\ C(u) = C(m) -> "superseded"
              [] OTHER -> TurnStatus(u)
    <2> SUFFICES ASSUME NEW u \in Messages
                 PROVE  TurnStatus(u)' =
                   CASE u = m -> "current"
                     [] u # m /\ TurnStatus(u) = "current" /\ C(u) = C(m) -> "superseded"
                     [] OTHER -> TurnStatus(u)
      OBVIOUS
    <2>0. pc \in [Messages -> {"new", "prep"} \cup Awaits \cup Ends]
      BY DEF TypeOK
    <2>1. CASE u = m
      <3>1. pc'[m] = "queued" /\ cancel'[m] = "no"
        BY <1>1, <1>2, <1>3, <2>0
      <3> QED
        BY <1>3, <2>1, <3>1, StatusIs DEF StatusAt
    <2>2. CASE u # m /\ Current(u) /\ C(u) = C(m)
      <3>1. pc'[u] = pc[u] /\ cancel'[u] = "requested" /\ pc[u] \in Awaits
        BY <1>1, <1>2, <2>0, <2>2 DEF Current, Live
      <3> QED
        BY <1>3, <1>5, <2>2, <3>1, StatusIs DEF StatusAt
    <2>3. CASE u # m /\ ~ (Current(u) /\ C(u) = C(m))
      <3>1. pc'[u] = pc[u] /\ cancel'[u] = cancel[u]
        BY <1>1, <1>2, <2>0, <2>3
      <3>2. TurnStatus(u)' = TurnStatus(u)
        BY <3>1, StatusIs
      <3> QED
        BY <1>5, <2>3, <3>2
    <2> QED
      BY <2>1, <2>2, <2>3
  <1>7. \A n \in Messages : C(n)' = C(n) /\ InHistory(n)' = InHistory(n)
    BY <1>1 DEF C, InHistory, Visible
  <1> DEFINE ch == [n \in Messages |-> C(n)]
             st == [n \in Messages |-> TurnStatus(n)]
             de == [n \in Messages |-> Cardinality(posted[n])]
             re == [n \in Messages |-> Cardinality(InHistory(n))]
  <1>8. ch' = ch /\ de' = de /\ re' = re
    BY <1>1, <1>7
  <1>9. \A u \in Messages : st[u] = TurnStatus(u) /\ ch[u] = C(u)
    OBVIOUS
  <1>10. st' = [u \in Messages |->
                  CASE u = m -> "current"
                    [] u # m /\ st[u] = "current" /\ ch[u] = ch[m] -> "superseded"
                    [] OTHER -> st[u]]
    BY <1>6, <1>9
  <1> QED
    BY <1>4, <1>8, <1>9, <1>10 DEF Promise!Begin, InHistory

\* A restart ends every turn that was not still to come.
LEMMA PromiseRestarts ==
    ASSUME TypeOK, TypeOK', Crash
    PROVE  Promise!Restart
  <1>1. /\ UNCHANGED << msg, doc, posted, cancel >>
        /\ pc' = [m \in Messages |->
                    IF Live(m) \/ pc[m] = "prep" THEN "crashed" ELSE pc[m]]
    BY DEF Crash
  <1>2. \A n \in Messages : C(n)' = C(n) /\ InHistory(n)' = InHistory(n)
    BY <1>1 DEF C, InHistory, Visible
  <1> DEFINE ch == [n \in Messages |-> C(n)]
             st == [n \in Messages |-> TurnStatus(n)]
             de == [n \in Messages |-> Cardinality(posted[n])]
             re == [n \in Messages |-> Cardinality(InHistory(n))]
             S == {n \in Messages : pc[n] = "prep"}
  <1>3. ch' = ch /\ de' = de /\ re' = re
    BY <1>1, <1>2
  <1>4. \A n \in Messages : st[n] = TurnStatus(n)
    OBVIOUS
  <1>5. /\ \A n \in S : TurnStatus(n) = "waiting"
        /\ \A n \in Messages :
             TurnStatus(n)' = IF n \in S \/ TurnStatus(n) # "waiting" THEN "over"
                                                                      ELSE "waiting"
    BY <1>1, StatusIs DEF StatusAt, Live, Awaits
  <1>6. S \in SUBSET {n \in Messages : st[n] = "waiting"}
    BY <1>5
  <1>7. st' = [n \in Messages |->
                 IF n \in S \/ st[n] # "waiting" THEN "over" ELSE "waiting"]
    BY <1>4, <1>5
  <1> HIDE DEF S
  <1> QED
    BY <1>3, <1>6, <1>7 DEF Promise!Restart, InHistory

LEMMA PromiseNext ==
    Typed /\ TypeOK' /\ Registered /\ Closing
    /\ (\A m \in Messages : Recorded(m)) /\ [Next]_vars
        => [Promise!Next]_(Promise!turnVars)
  <1> DEFINE Goal == [Promise!Next]_(Promise!turnVars)
  <1> SUFFICES ASSUME Typed, TypeOK', Registered, Closing,
                      \A m \in Messages : Recorded(m), [Next]_vars
               PROVE  Goal
    OBVIOUS
  <1> HIDE DEF Goal
  <1>0. /\ pc \in [Messages -> {"new", "prep"} \cup Awaits \cup Ends]
        /\ cancel \in [Messages -> {"no", "requested", "delivered"}]
        /\ doc \in [Messages -> [Slots -> DocStates]]
        /\ posted \in [Messages -> SUBSET (1 .. MaxBlocks)]
        /\ acked \in [Messages -> Slots] /\ saved \in [Messages -> Slots]
        /\ TypeOK /\ 0 \in Slots /\ 1 \in Slots
    BY SlotFacts DEF Typed, TypeOK
  <1>a. /\ "new" \notin Awaits /\ "prep" \notin Awaits
        /\ \A e \in Ends : e \notin Awaits /\ e \notin {"new", "prep"}
    BY DEF Awaits, Ends
  \* A step of m's handling leaves the other turns alone.
  <1>1. ASSUME NEW m \in Messages, UNCHANGED msg,
               UNCHANGED pc \/ \E p : Goto(m, p), UNCHANGED cancel \/ CancelSeen(m),
               \A n \in Messages \ {m} : posted'[n] = posted[n] /\ doc'[n] = doc[n],
               Nothing(m) \/ Over(m) \/ Shows(m) \/ Notices(m) \/ Records(m)
        PROVE  Goal
    <2>1. \A n \in Messages \ {m} : pc'[n] = pc[n] /\ cancel'[n] = cancel[n]
      BY <1>0, <1>1 DEF Goto, CancelSeen
    <2>2. \A n \in Messages \ {m} : TurnStatus(n)' = TurnStatus(n)
      BY <1>0, <2>1, StatusIs
    <2> QED
      BY <1>1, <2>2, Promised DEF Goal
  \* Nothing the channel sees: a turn that is not cancelled goes on.
  <1>2. ASSUME NEW m \in Messages, NEW p \in Awaits, Goto(m, p), Live(m),
               UNCHANGED << msg, cancel, posted, doc >>
        PROVE  Goal
    <2>1. TurnStatus(m)' = TurnStatus(m)
      BY <1>0, <1>2, <1>a, StatusIs DEF StatusAt, Goto, Live
    <2>2. InHistory(m)' = InHistory(m)
      BY <1>2, HistoryStays
    <2> QED
      BY <1>1, <1>2, <2>1, <2>2 DEF Nothing
  \* A turn ends, cancelled or not.
  <1>3. ASSUME NEW m \in Messages, NEW e \in Ends, Goto(m, e),
               Live(m) \/ pc[m] = "prep",
               \/ UNCHANGED cancel /\ cancel[m] # "requested"
               \/ CancelSeen(m) /\ Live(m),
               UNCHANGED << msg, posted >>, InHistory(m)' = InHistory(m),
               \A n \in Messages \ {m} : doc'[n] = doc[n]
        PROVE  Goal
    <2>1. TurnStatus(m)' = "over"
      BY <1>0, <1>3, <1>a, StatusIs DEF StatusAt, Goto
    <2>2. CASE UNCHANGED cancel /\ cancel[m] # "requested"
      <3>1. TurnStatus(m) \in {"waiting", "current", "closing"}
        BY <1>0, <1>3, <1>a, <2>2, StatusIs DEF StatusAt, Live
      <3> QED
        BY <1>1, <1>3, <2>1, <2>2, <3>1 DEF Over
    <2>3. CASE CancelSeen(m) /\ Live(m)
      <3>1. TurnStatus(m) = "superseded"
        BY <1>0, <1>3, <1>a, <2>3, StatusIs DEF StatusAt, Live, CancelSeen
      <3> QED
        BY <1>1, <1>3, <2>1, <2>3, <3>1 DEF Notices
    <2> QED
      BY <1>3, <2>2, <2>3
  <1>4. ASSUME NEW m \in Messages, Receive(m) PROVE Goal
    <2>1. TurnStatus(m)' = TurnStatus(m)
      BY <1>0, <1>4, <1>a, StatusIs DEF StatusAt, Receive, Goto
    <2> QED
      BY <1>1, <1>4, <2>1, HistoryStays DEF Nothing, Receive
  <1>5. ASSUME NEW m \in Messages, Ignore(m) PROVE Goal
    <2>1. cancel[m] # "requested" /\ "ignored" \in Ends
      BY <1>5 DEF Ignore, Closing, Ends
    <2> QED
      BY <1>3, <1>5, <2>1, HistoryStays DEF Ignore
  <1>6. ASSUME NEW m \in Messages, StartConversation(m) PROVE Goal
    BY <1>0, <1>6, PromiseBegins DEF Goal, Promise!Next
  \* The awaits before the reply, none of which the channel sees.
  <1>7. ASSUME NEW m \in Messages,
               \/ TurnBegins(m) \/ TypingFails(m) \/ HistoryLoaded(m)
               \/ HistoryLoadFails(m) \/ LlmBlocked(m) \/ LlmFails(m)
               \/ PauseOver(m)
        PROVE  Goal
    <2>1. /\ Live(m) /\ UNCHANGED << msg, cancel, posted, doc >>
          /\ \E p \in {"typing", "notify_error", "llm", "discard", "send"} : Goto(m, p)
      BY <1>7
      DEF TurnBegins, TypingFails, HistoryLoaded, HistoryLoadFails, LlmBlocked,
          LlmFails, PauseOver, At, Live, Awaits
    <2> QED
      BY <1>2, <2>1 DEF Awaits
  \* The writes of the user's text.
  <1>8. ASSUME NEW m \in Messages,
               \/ TypingShown(m) \/ UserSaved(m) \/ UserSaveFails(m)
               \/ UserDiscarded(m) \/ UserDiscardFails(m)
        PROVE  Goal
    <2>1. /\ Live(m) /\ UNCHANGED << msg, cancel, posted >>
          /\ \E p \in {"save_user", "load", "notify_error", "notify_block"} : Goto(m, p)
          /\ \E s : doc' = [doc EXCEPT ![m][0] = s]
      BY <1>8
      DEF TypingShown, UserSaved, UserSaveFails, UserDiscarded, UserDiscardFails,
          Discarded, Stamp, SetDoc, At, Live, Awaits
    <2>2. \A k \in 1 .. MaxBlocks : doc'[m][k] = doc[m][k]
      BY <1>0, <2>1, BlockFacts
    <2>3. TurnStatus(m)' = TurnStatus(m)
      BY <1>0, <1>a, <2>1, StatusIs DEF StatusAt, Goto, Live, Awaits
    <2> QED
      BY <1>0, <1>1, <2>1, <2>2, <2>3, HistoryStays DEF Nothing
  <1>9. ASSUME NEW m \in Messages, LlmReplies(m) PROVE Goal
    <2>1. /\ Live(m) /\ cancel[m] # "requested"
          /\ UNCHANGED << msg, cancel, posted, doc >>
          /\ \E p \in {"replied", "send"} : Goto(m, p)
      BY <1>9 DEF LlmReplies, Finish, At, Live, Awaits
    <2>2. "replied" \in Ends /\ "send" \in Awaits
      BY DEF Ends, Awaits
    <2> QED
      BY <1>2, <1>3, <2>1, <2>2, HistoryStays
  <1>10. ASSUME NEW m \in Messages, NEW p \in Awaits, Goto(m, p),
                pc[m] \in {"send", "pause"}, cancel[m] # "requested",
                UNCHANGED << msg, cancel >>,
                MaybePosted(m),
                \A n \in Messages \ {m} : doc'[n] = doc[n],
                \A k \in 1 .. MaxBlocks :
                  (doc'[m][k] \in {"stored", "kept"}) = (doc[m][k] \in {"stored", "kept"})
         PROVE  Goal
    <2>1. cancel[m] = "no" /\ pc[m] \in Awaits
      BY <1>0, <1>10 DEF Closing, Ends, Awaits
    <2>2. TurnStatus(m) = "current" /\ TurnStatus(m)' = "current"
      BY <1>0, <1>10, <1>a, <2>1, StatusIs DEF StatusAt, Goto
    <2>3. InHistory(m)' = InHistory(m)
      BY <1>10, HistoryStays
    <2>4. CASE posted' = posted
      BY <1>1, <1>10, <2>2, <2>3, <2>4 DEF Nothing
    <2>5. CASE posted' = [posted EXCEPT ![m] = @ \cup {acked[m] + 1}]
      <3>1. posted'[m] = posted[m] \cup {acked[m] + 1}
        BY <1>0, <2>5
      <3>2. Shows(m)
        BY <1>10, <2>2, <2>3, <3>1, OneMoreShown DEF Shows
      <3> QED
        BY <1>1, <1>10, <2>5, <3>2
    <2> QED
      BY <1>10, <2>4, <2>5 DEF MaybePosted
  \* The save loop begins: its first write is on its way.
  <1>11. ASSUME NEW m \in Messages, Stamp(m, 1), pc[m] \in {"send", "pause"}
         PROVE  /\ \A n \in Messages \ {m} : doc'[n] = doc[n]
                /\ \A k \in 1 .. MaxBlocks :
                     (doc'[m][k] \in {"stored", "kept"}) = (doc[m][k] \in {"stored", "kept"})
    <2>1. \A k \in 1 .. MaxBlocks : doc[m][k] = "none"
      BY <1>11 DEF Recorded, BlocksAt
    <2>2. \A k \in 1 .. MaxBlocks : doc'[m][k] \in {"none", "flying"}
      BY <1>0, <1>11, <2>1, BlockFacts DEF Stamp
    <2> QED
      BY <1>0, <1>11, <2>1, <2>2 DEF Stamp
  <1>12. ASSUME NEW m \in Messages, BlockSent(m) PROVE Goal
    <2>1. /\ pc[m] = "send" /\ cancel[m] # "requested" /\ UNCHANGED << msg, cancel >>
          /\ MaybePosted(m)
          /\ acked[m] + 1 # 0
      BY <1>0, <1>12, ConstantTypes DEF BlockSent, At, MaybePosted, Slots
    <2>2. \/ Goto(m, "pause") /\ UNCHANGED doc
          \/ Goto(m, "save_reply") /\ Stamp(m, 1)
      BY <1>12, <2>1 DEF BlockSent, SaveBlocks
    <2>3. "pause" \in Awaits /\ "save_reply" \in Awaits
      BY DEF Awaits
    <2>4. CASE Goto(m, "pause") /\ UNCHANGED doc
      BY <1>10, <2>1, <2>3, <2>4
    <2>5. CASE Goto(m, "save_reply") /\ Stamp(m, 1)
      BY <1>10, <1>11, <2>1, <2>3, <2>5
    <2> QED
      BY <2>2, <2>4, <2>5
  <1>13. ASSUME NEW m \in Messages, BlockSendFails(m) PROVE Goal
    <2>1. "notify_error" \in Awaits
      BY DEF Awaits
    <2> QED
      BY <1>10, <1>13, <2>1 DEF BlockSendFails, At
  \* A block arrives in the history; its turn goes on, ends or is over.
  <1>14. ASSUME NEW m \in Messages, NEW k \in 1 .. MaxBlocks, doc[m][k] = "flying",
                doc'[m][k] = "stored",
                \A i \in 1 .. MaxBlocks : i # k =>
                  (doc'[m][i] \in {"stored", "kept"}) = (doc[m][i] \in {"stored", "kept"}),
                \A n \in Messages \ {m} : doc'[n] = doc[n],
                UNCHANGED << msg, posted, cancel >>, pc[m] \notin {"new", "prep"},
                \/ UNCHANGED pc
                \/ \E e \in Ends : Goto(m, e) /\ Live(m) /\ cancel[m] # "requested"
                \/ \E p \in Awaits : Goto(m, p) /\ Live(m)
         PROVE  Goal
    <2>1. InHistory(m)' = InHistory(m) \cup {k}
      BY <1>14 DEF InHistory, Visible
    <2>2. TurnStatus(m) # "waiting"
      BY <1>0, <1>14, <1>a, StatusIs DEF StatusAt
    <2>3. \/ TurnStatus(m)' = TurnStatus(m)
          \/ TurnStatus(m) \in {"current", "closing"} /\ TurnStatus(m)' = "over"
      BY <1>0, <1>14, <1>a, StatusIs DEF StatusAt, Goto, Live
    <2>4. Records(m)
      BY <1>0, <1>14, <2>1, <2>2, <2>3, OneMoreRecorded DEF Records
    <2> QED
      BY <1>1, <1>14, <2>4
  <1>15. ASSUME NEW m \in Messages, BlockSaved(m) PROVE Goal
    <2> DEFINE k == saved[m] + 1
    <2>1. /\ pc[m] \in Saving /\ Live(m) /\ cancel[m] # "requested"
          /\ UNCHANGED << msg, cancel, posted >>
          /\ UNCHANGED pc \/ \E e \in Ends : Goto(m, e)
      BY <1>15
      DEF BlockSaved, At, Saving, Live, Awaits, Finish, EndOfSave, Ends
    <2>2. \/ doc' = [doc EXCEPT ![m][k] = "stored"]
          \/ doc' = [doc EXCEPT ![m][k] = "stored", ![m][saved[m] + 2] = "flying"]
      BY <1>15 DEF BlockSaved, SetDoc
    <2>3. saved[m] < acked[m] /\ acked[m] \in Slots /\ saved[m] \in Nat
      BY <1>0, <2>1, ConstantTypes DEF Typed, Counters, Saving, Slots
    <2>4. k \in 1 .. MaxBlocks /\ k + 1 = saved[m] + 2
      BY <2>3, ConstantTypes DEF Slots
    <2>5. \A i \in 1 .. MaxBlocks :
            doc[m][i] = IF i <= saved[m] THEN "stored"
                        ELSE IF i = k THEN "flying" ELSE "none"
      BY <2>1 DEF Recorded, BlocksAt
    <2>6. doc[m][k] = "flying"
      BY <2>3, <2>4, <2>5
    <2>7. /\ doc'[m][k] = "stored"
          /\ \A i \in 1 .. MaxBlocks : i # k =>
               (doc'[m][i] \in {"stored", "kept"}) = (doc[m][i] \in {"stored", "kept"})
          /\ \A n \in Messages \ {m} : doc'[n] = doc[n]
      <3>1. CASE doc' = [doc EXCEPT ![m][k] = "stored"]
        BY <1>0, <2>4, <3>1, BlockFacts
      <3>2. CASE doc' = [doc EXCEPT ![m][k] = "stored", ![m][saved[m] + 2] = "flying"]
        <4>1. \A i \in 1 .. MaxBlocks :
                doc'[m][i] = IF i = saved[m] + 2 THEN "flying"
                             ELSE IF i = k THEN "stored" ELSE doc[m][i]
          BY <1>0, <2>3, <2>4, <3>2, BlockFacts
        <4>2. \A i \in 1 .. MaxBlocks : i = saved[m] + 2 => doc[m][i] = "none"
          BY <2>3, <2>4, <2>5
        <4>3. \A n \in Messages \ {m} : doc'[n] = doc[n]
          BY <1>0, <3>2
        <4>4. doc'[m][k] = "stored"
          BY <2>3, <2>4, <4>1
        <4>5. \A i \in 1 .. MaxBlocks : i # k =>
                doc'[m][i] = doc[m][i] \/ (doc'[m][i] = "flying" /\ doc[m][i] = "none")
          BY <4>1, <4>2
        <4> QED
          BY <4>3, <4>4, <4>5
      <3> QED
        BY <2>2, <3>1, <3>2
    <2>8. pc[m] \notin {"new", "prep"}
      BY <2>1 DEF Saving
    <2> HIDE DEF k
    <2> QED
      BY <1>14, <2>1, <2>4, <2>6, <2>7, <2>8
  <1>16. ASSUME NEW m \in Messages, BlockSaveFails(m) PROVE Goal
    <2> DEFINE k == saved[m] + 1
    <2>1. /\ pc[m] \in Saving /\ Live(m) /\ UNCHANGED << msg, cancel, posted >>
          /\ Goto(m, "notify_error") /\ "notify_error" \in Awaits
      BY <1>16 DEF BlockSaveFails, At, Saving, Live, Awaits
    <2>2. PICK s \in {"stored", "lost"} : doc' = [doc EXCEPT ![m][k] = s]
      BY <1>16 DEF BlockSaveFails, SetDoc
    <2>3. saved[m] < acked[m] /\ acked[m] \in Slots /\ saved[m] \in Nat
      BY <1>0, <2>1, ConstantTypes DEF Typed, Counters, Saving, Slots
    <2>4. k \in 1 .. MaxBlocks
      BY <2>3, ConstantTypes DEF Slots
    <2>5. doc[m][k] = "flying"
      BY <2>1, <2>3, <2>4 DEF Recorded, BlocksAt
    <2>6. /\ doc'[m][k] = s
          /\ \A i \in 1 .. MaxBlocks : i # k => doc'[m][i] = doc[m][i]
          /\ \A n \in Messages \ {m} : doc'[n] = doc[n]
      BY <1>0, <2>2, <2>4, BlockFacts
    <2>7. pc[m] \notin {"new", "prep"}
      BY <2>1 DEF Saving
    <2> HIDE DEF k
    <2>8. CASE s = "stored"
      BY <1>14, <2>1, <2>4, <2>5, <2>6, <2>7, <2>8
    <2>9. CASE s = "lost"
      <3>1. InHistory(m)' = InHistory(m)
        BY <2>5, <2>6, <2>9, HistoryStays
      <3>2. TurnStatus(m)' = TurnStatus(m)
        BY <1>0, <1>a, <2>1, StatusIs DEF StatusAt, Goto, Live
      <3> QED
        BY <1>1, <2>1, <2>6, <3>1, <3>2 DEF Nothing
    <2> QED
      BY <2>8, <2>9
  <1>17. ASSUME NEW m \in Messages, Notified(m) PROVE Goal
    <2>1. /\ Live(m) /\ cancel[m] # "requested"
          /\ UNCHANGED << msg, cancel, posted, doc >>
          /\ \E e \in Ends : Goto(m, e)
      BY <1>17 DEF Notified, Finish, At, Live, Awaits, Ends
    <2> QED
      BY <1>3, <2>1, HistoryStays
  <1>18. ASSUME NEW m \in Messages, CancelledBeforeFirstStep(m) PROVE Goal
    <2>1. Live(m) /\ "cancelled" \in Ends
      BY <1>18 DEF CancelledBeforeFirstStep, Live, Awaits, Ends
    <2> QED
      BY <1>3, <1>18, <2>1, HistoryStays DEF CancelledBeforeFirstStep
  <1>19. ASSUME NEW m \in Messages, CancelledWhilePosting(m) PROVE Goal
    <2>1. /\ pc[m] \in {"send", "pause"} /\ Live(m) /\ CancelSeen(m)
          /\ UNCHANGED msg /\ MaybePosted(m)
          /\ SaveBlocks(m, acked[m], "save_partial", "cancelled")
      BY <1>19
      DEF CancelledWhilePosting, SavesWhatWasSent, ToSave, Live, Awaits, MaybePosted
    <2>2. /\ \/ Goto(m, "cancelled") /\ UNCHANGED doc
             \/ Goto(m, "save_partial") /\ Stamp(m, 1)
          /\ "cancelled" \in Ends /\ "save_partial" \in Awaits
      BY <2>1 DEF SaveBlocks, Finish, Ends, Awaits
    <2>3. /\ \A n \in Messages \ {m} : doc'[n] = doc[n]
          /\ InHistory(m)' = InHistory(m)
      BY <1>11, <2>1, <2>2, HistoryStays
    <2>4. TurnStatus(m) = "superseded" /\ TurnStatus(m)' \in {"closing", "over"}
      BY <1>0, <1>a, <2>1, <2>2, StatusIs DEF StatusAt, Goto, Live, CancelSeen
    <2>5. /\ \/ posted'[m] = posted[m]
             \/ Cardinality(posted'[m]) = Cardinality(posted[m]) + 1
          /\ \A n \in Messages \ {m} : posted'[n] = posted[n]
      <3>1. CASE posted' = posted
        BY <3>1
      <3>2. CASE posted' = [posted EXCEPT ![m] = @ \cup {acked[m] + 1}]
        BY <1>0, <2>1, <3>2, OneMoreShown
      <3> QED
        BY <2>1, <3>1, <3>2 DEF MaybePosted
    <2> QED
      BY <1>1, <2>1, <2>2, <2>3, <2>4, <2>5 DEF Notices
  <1>20. ASSUME NEW m \in Messages, CancelledElsewhere(m) PROVE Goal
    <2>1. /\ Live(m) /\ CancelSeen(m) /\ Goto(m, "cancelled") /\ "cancelled" \in Ends
          /\ UNCHANGED << msg, posted >>
          /\ UNCHANGED doc \/ \E s : doc' = [doc EXCEPT ![m][0] = s]
      BY <1>20 DEF CancelledElsewhere, SetDoc, Finish, Live, Ends
    <2>2. /\ \A k \in 1 .. MaxBlocks : doc'[m][k] = doc[m][k]
          /\ \A n \in Messages \ {m} : doc'[n] = doc[n]
      BY <1>0, <2>1, BlockFacts
    <2> QED
      BY <1>3, <2>1, <2>2, HistoryStays
  <1>21. ASSUME NEW m \in Messages, LateWrite(m) PROVE Goal
    <2>1. PICK k \in Slots, s \in {"stored", "lost"} :
            /\ pc[m] \in Ends /\ doc[m][k] = "flying"
            /\ doc' = [doc EXCEPT ![m][k] = s]
            /\ UNCHANGED << msg, pc, cancel, posted >>
      BY <1>21 DEF LateWrite, SetDoc
    <2>2. /\ doc'[m][k] = s
          /\ \A i \in 1 .. MaxBlocks : i # k => doc'[m][i] = doc[m][i]
          /\ \A n \in Messages \ {m} : doc'[n] = doc[n]
      BY <1>0, <2>1, BlockFacts
    <2>3. k = 0 \/ k \in 1 .. MaxBlocks
      BY ConstantTypes DEF Slots
    <2>4. pc[m] \notin {"new", "prep"}
      BY <1>a, <2>1
    <2>5. CASE k \in 1 .. MaxBlocks /\ s = "stored"
      BY <1>14, <2>1, <2>2, <2>4, <2>5
    <2>6. CASE k = 0 \/ s = "lost"
      <3>1. InHistory(m)' = InHistory(m)
        BY <2>1, <2>2, <2>6, BlockFacts, HistoryStays
      <3>2. TurnStatus(m)' = TurnStatus(m)
        BY <1>0, <2>1, StatusIs
      <3> QED
        BY <1>1, <2>1, <2>2, <3>1, <3>2 DEF Nothing
    <2> QED
      BY <2>1, <2>3, <2>5, <2>6
  <1>22. CASE Crash
    BY <1>0, <1>22, PromiseRestarts DEF Goal, Promise!Next
  <1>23. CASE UNCHANGED vars
    <2>1. \A n \in Messages : TurnStatus(n)' = TurnStatus(n)
      BY <1>0, <1>23, StatusIs DEF vars
    <2>2. \A n \in Messages : C(n)' = C(n) /\ InHistory(n)' = InHistory(n)
      BY <1>23 DEF vars, C, InHistory, Visible
    <2> QED
      BY <1>23, <2>1, <2>2 DEF Goal, vars, Promise!turnVars, InHistory
  <1>24. ASSUME NEW m \in Messages, Handle(m) PROVE Goal
    BY <1>5, <1>6, <1>7, <1>8, <1>9, <1>12, <1>13, <1>15, <1>16, <1>17, <1>18,
       <1>19, <1>20, <1>24
    DEF Handle
  <1>25. Goal
    BY <1>4, <1>21, <1>22, <1>23, <1>24 DEF Next
  <1> QED
    BY <1>25 DEF Goal

\* The turns implement ChannelTurns: in every behaviour a new turn supersedes
\* the old one at once, a superseded turn shows at most the block it was
\* posting, and no block is recorded that was not shown.
THEOREM PromiseKept == Spec => KeepsChannelPromise
  <1> DEFINE All == \A m \in Messages : Recorded(m)
  <1>1. Spec => []Typed
    BY TypedInit, TypesNext, CountersNext, PTL DEF Spec, Typed
  <1>2. Spec => []All
    BY RecordedHolds
  <1>3. Typed /\ TypeOK' /\ Registered /\ Closing /\ All /\ [Next]_vars
          => [Promise!Next]_(Promise!turnVars)
    BY PromiseNext
  <1> HIDE DEF All
  <1> QED
    BY <1>1, <1>2, <1>3, PromiseInit, TypesHold, RegisteredHolds, ClosingHolds, PTL
    DEF Spec, KeepsChannelPromise, Promise!Spec

=============================================================================
