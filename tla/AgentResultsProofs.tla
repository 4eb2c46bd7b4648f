------------------------- MODULE AgentResultsProofs -------------------------
(***************************************************************************)
(* Theorems about AgentResults, for every number of handlers, requests,    *)
(* messages, parts and crashes.                                            *)
(*                                                                         *)
(* Taken: a request some handler took is "completed" in pending_tool_calls,*)
(* where complete() does not find it again.                                *)
(*                                                                         *)
(* Sound: what the command built from a message stands for (Routed), what  *)
(* is on Discord and in the history of a reply at each await of            *)
(* !toolresult (Delivery), and of the one !cleardirty takes back           *)
(* (Revocation).                                                           *)
(***************************************************************************)
EXTENDS AgentResults, FiniteSetTheorems, TLAPS

Statuses == {"pending", "completed", "expired"}

\* What got and pending hold.
GotTypes ==
    /\ got \in [Handlers -> Requests \cup {None}]
    /\ pending \in [Requests -> Statuses]

\* A request h took is completed, and no other handler took it.
TakenIsCompleted ==
    \A h \in Handlers : got[h] # None =>
        /\ pending[got[h]] = "completed"
        /\ \A g \in Handlers : g # h => got[g] # got[h]

Taken == GotTypes /\ TakenIsCompleted

LEMMA TakenInit == Init => Taken
  BY DEF Init, Taken, GotTypes, TakenIsCompleted, Statuses

\* A step that takes no request leaves got alone and makes no completed
\* record pending again.
LEMMA TakenKept ==
    ASSUME Taken, UNCHANGED got, pending' \in [Requests -> Statuses],
           \A r \in Requests : pending[r] = "completed" => pending'[r] = "completed"
    PROVE  Taken'
  BY NoneAssumption DEF Taken, GotTypes, TakenIsCompleted

\* complete() finds a pending record: no handler took that request before.
LEMMA TakenByComplete ==
    ASSUME Taken, NEW h \in Handlers, Completed(h)
    PROVE  Taken'
  <1> DEFINE r == job[h].req
  <1>1. CASE Takeable(r)
    <2>1. /\ r \in Requests /\ pending[r] = "pending"
          /\ pending' = [pending EXCEPT ![r] = "completed"]
          /\ got' = [got EXCEPT ![h] = r]
      BY <1>1 DEF Completed, Takeable
    <2>2. GotTypes'
      BY <2>1 DEF Taken, GotTypes, Statuses
    <2>3. \A g \in Handlers : got[g] # r
      BY <2>1, NoneAssumption DEF Taken, TakenIsCompleted
    <2>4. TakenIsCompleted'
      BY <2>1, <2>3, NoneAssumption DEF Taken, GotTypes, TakenIsCompleted
    <2> QED
      BY <2>2, <2>4 DEF Taken
  <1>2. CASE ~Takeable(r)
    BY <1>2, TakenKept DEF Completed, Taken, GotTypes
  <1> QED
    BY <1>1, <1>2

LEMMA TakenNext == Taken /\ [Next]_vars => Taken'
  <1> SUFFICES ASSUME Taken, [Next]_vars PROVE Taken'
    OBVIOUS
  <1> DEFINE Kept == UNCHANGED << got, pending >>
  <1>0. ASSUME Kept PROVE Taken'
    BY <1>0, TakenKept DEF Taken, GotTypes
  <1>1. CASE Arrive
    BY <1>0, <1>1 DEF Arrive, Reply
  <1>2. ASSUME NEW m \in Msgs, HandleMessage(m) PROVE Taken'
    BY <1>0, <1>2 DEF HandleMessage, PreviousFetched, PreviousNotFetched,
       Checked, BodyResolved, ApprovalPosted, ApprovalPostFails, Reply
  <1>3. ASSUME NEW h \in Handlers, Owner(h) PROVE Taken'
    BY <1>0, <1>3 DEF Owner, Press, TypeToolresult, TypeCleardirty, Start,
       Reply
  <1>4. ASSUME NEW h \in Handlers, CompleteFails(h) PROVE Taken'
    BY <1>4, TakenKept DEF CompleteFails, Takeable, Reply, Taken, GotTypes,
       Statuses
  <1>5. ASSUME NEW h \in Handlers, Handle(h) PROVE Taken'
    <2>1. CASE \/ Restored(h) \/ Edited(h) \/ EditFails(h) \/ BodyRead(h)
               \/ ReplyMade(h) \/ ReplyFails(h)
      BY <1>0, <2>1 DEF Restored, Edited, EditFails, BodyRead, ReplyMade,
         ReplyFails, Reply
    <2>2. CASE \/ PartSent(h) \/ PartSendFails(h) \/ ReplySaved(h)
               \/ ReplySaveFails(h)
      BY <1>0, <2>2 DEF PartSent, PartSendFails, ReplySaved, ReplySaveFails,
         Reply
    <2>3. CASE \/ Found(h) \/ FindFails(h) \/ PartErased(h) \/ ChannelGone(h)
               \/ Dropped(h) \/ DropFails(h)
      BY <1>0, <2>3 DEF Found, FindFails, PartErased, ChannelGone, Dropped,
         DropFails, Reply
    <2> QED
      BY <1>4, <1>5, <2>1, <2>2, <2>3, TakenByComplete DEF Handle
  <1>6. ASSUME NEW h \in Handlers, LateInsert(h) PROVE Taken'
    BY <1>0, <1>6 DEF LateInsert, Reply
  <1>7. ASSUME NEW r \in Requests, Expire(r) PROVE Taken'
    BY <1>7, TakenKept DEF Expire, Reply, Taken, GotTypes, Statuses
  <1>8. CASE Crash
    BY <1>0, <1>8 DEF Crash, Reply
  <1>9. CASE UNCHANGED vars
    BY <1>0, <1>9 DEF vars
  <1> QED
    BY <1>1, <1>2, <1>3, <1>5, <1>6, <1>7, <1>8, <1>9 DEF Next

\* No two handlers ever take the same request, however approvals, commands,
\* failures, restarts and expiries are ordered: complete() moves the record in
\* one step and only from pending.
THEOREM AnsweredOnceHolds == Spec => []AnsweredOnce
  <1>1. Taken => AnsweredOnce
    BY DEF Taken, TakenIsCompleted, AnsweredOnce
  <1> QED
    BY TakenInit, TakenNext, <1>1, PTL DEF Spec
-----------------------------------------------------------------------------
(* The invariant of the whole way of an answer: what a message, a reply    *)
(* and a !cleardirty stand for at each of their awaits.                    *)

\* The command built from message m names the request its agent meant.
Routed(m) ==
    /\ m > arrived <=> mpc[m] = "new"
    /\ mpc[m] = "previous" => script[m].kind = "file"
    /\ mpc[m] \in {"check", "body", "post"} => target[m] = script[m].req
    /\ view[m] # "none" => mpc[m] = "over" /\ target[m] = script[m].req

\* A press is of buttons that are there.
Pressed(h) ==
    pc[h] \in {"restore", "edit"} =>
        job[h].msg \in Msgs /\ view[job[h].msg] # "none"

\* No message of v's reply is left on Discord.
Cleared(v) == ToDiscord(v) => \A i \in Parts : part[v][i] # "shown"

Taking == {"idle", "restore", "edit", "body", "complete", "find"}
Revoking == {"erase", "drop"}

\* The reply of h: a request is taken for it, its parts are shown one after the
\* other, then it is saved; a reply is only deleted with its messages tried.
Delivery(h) ==
    /\ pc[h] \in Taking \cup Revoking => got[h] = None
    /\ pc[h] \in {"reply", "send", "save"} => got[h] # None
    /\ pc[h] \in Taking \cup {"reply"} => at[h] = 0
    /\ pc[h] \in Taking \cup Revoking \cup {"reply"} =>
         \A i \in Parts : part[h][i] = "none"
    /\ pc[h] \in Taking \cup Revoking \cup {"reply", "send"} => doc[h] = "none"
    /\ pc[h] = "send" => at[h] < total[h]
    /\ pc[h] = "save" => doc[h] = "flying"
    /\ pc[h] = "done" => doc[h] # "flying"
    /\ pc[h] = "done" /\ got[h] # None => doc[h] \in {"stored", "deleted"}
    /\ pc[h] = "send" \/ doc[h] # "none" =>
         \A i \in Parts : part[h][i] = "none" <=> i > at[h]
    /\ doc[h] # "none" => got[h] # None /\ at[h] = total[h]
    /\ doc[h] = "deleted" => Cleared(h)

\* !cleardirty in h: the reply it works on was saved, and so many of its
\* messages were tried.
Revocation(h) ==
    LET v == job[h].doc IN
    /\ pc[h] \in Revoking => v \in Handlers /\ doc[v] \in {"stored", "deleted"}
    /\ pc[h] = "erase" =>
         at[h] < Listed(v) /\ \A i \in 1 .. at[h] : part[v][i] # "shown"
    /\ pc[h] = "drop" => Cleared(v)

\* Each saved reply has a time stamp of its own.
Saved == {h \in Handlers : doc[h] # "none"}
Counted == clock = Cardinality(Saved)

Sound ==
    /\ TypeOK /\ Counted
    /\ \A m \in Msgs : Routed(m)
    /\ \A h \in Handlers : Pressed(h) /\ Delivery(h) /\ Revocation(h)

LEMMA ConstantTypes ==
    /\ NumHandlers \in Nat /\ MaxParts \in Nat \ {0} /\ MaxCrashes \in Nat
    /\ 1 \in Parts /\ Parts \subseteq 1 .. MaxParts
    /\ \A h \in Handlers : h \in Nat /\ h # 0
    /\ None \notin Requests
  BY BoundsAssumption, NoneAssumption DEF Parts, Handlers

LEMMA NoJobType == script \in Scripts => NoJob \in Jobs
  BY ScriptsAssumption, BoundsAssumption DEF NoJob, Jobs

LEMMA SoundInit == Init => Sound
  <1> SUFFICES ASSUME Init PROVE Sound
    OBVIOUS
  <1>1. TypeOK
    <2>1. Len(script) \in Nat
      BY ScriptsAssumption DEF Init
    <2>2. NoJob \in Jobs
      BY NoJobType DEF Init
    <2>3. 0 \in 0 .. MaxParts /\ 0 \in 0 .. NumHandlers /\ 0 \in 0 .. MaxCrashes
          /\ 0 \in 0 .. Len(script) /\ 0 \in 0 .. 0
      BY <2>1, ConstantTypes
    <2>4. job \in [Handlers -> Jobs]
      BY <2>2 DEF Init
    <2>5. stamp \in [Handlers -> 0 .. clock]
      BY <2>3 DEF Init
    <2> HIDE DEF Jobs, NoJob
    <2> QED
      BY <2>3, <2>4, <2>5 DEF Init, TypeOK, MessageAwaits, HandlerAwaits,
         HandlerEnds
  <1>2. Counted
    <2>1. Saved = {}
      BY DEF Init, Saved
    <2> QED
      BY <2>1, FS_EmptySet DEF Init, Counted
  <1>3. \A m \in Msgs : Routed(m)
    BY ScriptsAssumption DEF Init, Routed, Msgs
  <1>4. \A h \in Handlers : Pressed(h) /\ Delivery(h) /\ Revocation(h)
    BY DEF Init, Pressed, Delivery, Revocation, Taking, Revoking
  <1> QED
    BY <1>1, <1>2, <1>3, <1>4 DEF Sound

\* A handler is as it was.
SameHandler(g) ==
    /\ pc'[g] = pc[g] /\ job'[g] = job[g] /\ got'[g] = got[g]
    /\ at'[g] = at[g] /\ total'[g] = total[g]
    /\ part'[g] = part[g] /\ doc'[g] = doc[g]

\* What a saved reply was is kept by a step: it stays saved, and no message of
\* it comes back.
StaysSaved(v) ==
    doc[v] \in {"stored", "deleted"} =>
        /\ doc'[v] \in {"stored", "deleted"}
        /\ at'[v] = at[v] /\ got'[v] = got[v]
        /\ \A i \in Parts : part[v][i] # "shown" => part'[v][i] # "shown"

LEMMA RevocationKept ==
    ASSUME NEW g \in Handlers, TypeOK, Revocation(g),
           pc'[g] = pc[g], job'[g] = job[g], at'[g] = at[g],
           \A v \in Handlers : StaysSaved(v)
    PROVE  Revocation(g)'
  <1> DEFINE v == job[g].doc
  <1>1. CASE pc[g] \notin Revoking
    BY <1>1 DEF Revocation, Revoking
  <1>2. CASE pc[g] \in Revoking
    <2>1. v \in Handlers /\ doc[v] \in {"stored", "deleted"} /\ StaysSaved(v)
      BY <1>2 DEF Revocation
    <2>2. doc'[v] \in {"stored", "deleted"}
      BY <2>1 DEF StaysSaved
    <2>3. ToDiscord(v)' = ToDiscord(v) /\ Listed(v)' = Listed(v)
      BY <2>1 DEF StaysSaved, ToDiscord, Listed
    <2>4. pc[g] = "erase" => \A i \in 1 .. at[g] : part'[v][i] # "shown"
      <3> SUFFICES ASSUME pc[g] = "erase", NEW i \in 1 .. at[g]
                   PROVE  part'[v][i] # "shown"
        OBVIOUS
      <3>1. i \in Parts
        BY ConstantTypes DEF TypeOK, Parts
      <3>2. part[v][i] # "shown"
        BY DEF Revocation
      <3> QED
        BY <2>1, <3>1, <3>2 DEF StaysSaved
    <2>5. Cleared(v) => Cleared(v)'
      BY <2>1, <2>3 DEF Cleared, StaysSaved
    <2> QED
      BY <2>1, <2>2, <2>3, <2>4, <2>5 DEF Revocation
  <1> QED
    BY <1>1, <1>2

LEMMA DeliveryKept ==
    ASSUME NEW g \in Handlers, Delivery(g), SameHandler(g)
    PROVE  Delivery(g)'
  <1>1. ToDiscord(g)' = ToDiscord(g)
    BY DEF SameHandler, ToDiscord
  <1>2. Cleared(g) => Cleared(g)'
    BY <1>1 DEF SameHandler, Cleared
  <1> QED
    BY <1>2 DEF SameHandler, Delivery

\* A step of one handler that leaves the other ones alone.
LEMMA OneHandler ==
    ASSUME TypeOK, \A g \in Handlers : Delivery(g) /\ Revocation(g),
           NEW h \in Handlers, \A g \in Handlers \ {h} : SameHandler(g),
           StaysSaved(h), Delivery(h)', Revocation(h)'
    PROVE  \A g \in Handlers : Delivery(g)' /\ Revocation(g)'
  <1>1. \A v \in Handlers : StaysSaved(v)
    BY DEF SameHandler, StaysSaved
  <1> SUFFICES ASSUME NEW g \in Handlers \ {h}
               PROVE  Delivery(g)' /\ Revocation(g)'
    OBVIOUS
  <1> QED
    BY <1>1, DeliveryKept, RevocationKept DEF SameHandler

\* No handler does anything.
LEMMA NoHandler ==
    ASSUME TypeOK, \A g \in Handlers : Delivery(g) /\ Revocation(g),
           UNCHANGED << pc, job, got, at, total, part, doc >>
    PROVE  \A g \in Handlers : Delivery(g)' /\ Revocation(g)'
  <1>1. \A g \in Handlers : SameHandler(g) /\ StaysSaved(g)
    BY DEF SameHandler, StaysSaved
  <1> QED
    BY <1>1, DeliveryKept, RevocationKept DEF SameHandler

-----------------------------------------------------------------------------
(* Messages.                                                               *)

\* The buttons of approval messages stay, so a press under way stays one.
ButtonsStay == \A m \in Msgs : view[m] # "none" => view'[m] # "none"

\* A step of the handling of m.
LEMMA OneMessage ==
    ASSUME TypeOK, NEW m \in Msgs, \A n \in Msgs : Routed(n),
           UNCHANGED << script, arrived >>,
           \A n \in Msgs \ {m} : mpc'[n] = mpc[n] /\ target'[n] = target[n]
                                 /\ view'[n] = view[n],
           Routed(m)'
    PROVE  \A n \in Msgs' : Routed(n)'
  <1>1. Msgs' = Msgs
    BY DEF Msgs
  <1> QED
    BY <1>1 DEF Routed

LEMMA PressedKept ==
    ASSUME NEW g \in Handlers, Pressed(g), UNCHANGED script, ButtonsStay,
           pc'[g] = pc[g], job'[g] = job[g]
    PROVE  Pressed(g)'
  BY DEF Pressed, ButtonsStay, Msgs

LEMMA FirstStepIs ==
    \A k \in {"command", "full", "front", "file"} :
        /\ FirstStep(k) # "new" /\ FirstStep(k) # "post"
        /\ FirstStep(k) = "previous" => k = "file"
        /\ FirstStep(k) \in {"check", "body"} => k \in {"command", "full"}
        /\ FirstStep(k) \in {"over"} \cup MessageAwaits
  <1>1. FirstStep("command") = "body" /\ FirstStep("full") = "check"
        /\ FirstStep("front") = "over" /\ FirstStep("file") = "previous"
    BY DEF FirstStep
  <1> QED
    BY <1>1 DEF MessageAwaits

LEMMA ArriveRouted ==
    ASSUME TypeOK, \A m \in Msgs : Routed(m), Arrive
    PROVE  \A m \in Msgs' : Routed(m)'
  <1>0. arrived + 1 \in Msgs /\ arrived \in Nat
    BY ScriptsAssumption DEF TypeOK, Arrive, Msgs
  <1> PICK n \in Msgs : n = arrived + 1
    BY <1>0
  <1>1. Msgs' = Msgs /\ script[n] \in Message
    BY ScriptsAssumption DEF TypeOK, Arrive, Msgs
  <1>2. /\ mpc' = [mpc EXCEPT ![n] = FirstStep(script[n].kind)]
        /\ target' = [target EXCEPT ![n] =
              IF script[n].kind \in {"command", "full"} THEN script[n].req
                                                        ELSE None]
        /\ arrived' = n /\ script' = script /\ view' = view
    BY DEF Arrive
  <1>3. mpc \in [Msgs -> {"new", "over"} \cup MessageAwaits]
        /\ target \in [Msgs -> Requests \cup {None}]
    BY DEF TypeOK
  <1>4. Routed(n)'
    <2> DEFINE k == script[n].kind
    <2>1. k \in {"command", "full", "front", "file"}
      BY <1>1 DEF Message
    <2>2. mpc'[n] = FirstStep(k)
      BY <1>2, <1>3
    <2>3. k \in {"command", "full"} => target'[n] = script[n].req
      BY <1>2, <1>3
    <2>4. view'[n] = "none" /\ ~ (n > arrived')
      BY <1>0, <1>2 DEF Routed
    <2> QED
      BY <1>2, <2>1, <2>2, <2>3, <2>4, FirstStepIs DEF Routed
  <1>5. ASSUME NEW m \in Msgs \ {n} PROVE Routed(m)'
    <2>1. m > n <=> m > arrived
      BY <1>0 DEF Msgs
    <2> QED
      BY <1>2, <1>3, <2>1 DEF Routed
  <1> QED
    BY <1>1, <1>4, <1>5

\* The message before an attachment of the same author is the FrontMatter it
\* belongs to.
LEMMA PairedRequest ==
    ASSUME TypeOK, NEW m \in Msgs, script[m].kind = "file", Pairs(m)
    PROVE  script[m - 1].req = script[m].req
  <1>1. script \in Scripts /\ script \in Seq(Message) /\ PairsInOrder(script)
    BY ScriptsAssumption DEF TypeOK
  <1>2. Len(script) \in Nat /\ m \in 1 .. Len(script) /\ m > 1
        /\ script[m - 1].author = script[m].author
    BY <1>1 DEF Msgs, Pairs, PairsAnyAuthor
  <1>3. PICK i \in 1 .. m - 1 :
            /\ script[i].req = script[m].req
            /\ \A k \in i + 1 .. m - 1 : script[k].author # script[m].author
    BY <1>1, <1>2 DEF PairsInOrder
  <1>4. i = m - 1
    <2>1. m - 1 \notin i + 1 .. m - 1
      BY <1>2, <1>3
    <2> QED
      BY <1>2, <2>1
  <1> QED
    BY <1>3, <1>4

LEMMA MessageRouted ==
    ASSUME TypeOK, \A n \in Msgs : Routed(n), NEW m \in Msgs, HandleMessage(m)
    PROVE  (\A n \in Msgs' : Routed(n)') /\ ButtonsStay
  <1>1. /\ mpc \in [Msgs -> {"new", "over"} \cup MessageAwaits]
        /\ target \in [Msgs -> Requests \cup {None}]
        /\ view \in [Msgs -> {"none", "open", "approved", "rejected"}]
        /\ Routed(m)
    BY DEF TypeOK
  <1>2. UNCHANGED << script, arrived >>
    BY DEF HandleMessage, PreviousFetched, PreviousNotFetched, Checked,
       BodyResolved, ApprovalPosted, ApprovalPostFails, MessageTo, MessageOver
  <1>3. CASE PreviousFetched(m)
    <2>1. Pairs(m) => script[m - 1].req = script[m].req
      BY <1>1, <1>3, PairedRequest DEF PreviousFetched, MessageAt, Routed
    <2>2. Routed(m)' /\ UNCHANGED view
      BY <1>1, <1>2, <1>3, <2>1 DEF PreviousFetched, MessageAt, MessageOver, Routed
    <2> QED
      BY <1>1, <1>2, <1>3, <2>2, OneMessage
      DEF PreviousFetched, MessageOver, ButtonsStay
  <1>4. CASE PreviousNotFetched(m) \/ Checked(m) \/ BodyResolved(m)
    <2>1. Routed(m)' /\ UNCHANGED view
      BY <1>1, <1>2, <1>4 DEF PreviousNotFetched, Checked, BodyResolved,
         MessageAt, MessageTo, MessageOver, Routed
    <2> QED
      BY <1>1, <1>2, <1>4, <2>1, OneMessage
      DEF PreviousNotFetched, Checked, BodyResolved, MessageTo, MessageOver,
          ButtonsStay
  <1>5. CASE ApprovalPosted(m) \/ ApprovalPostFails(m)
    <2>1. Routed(m)' /\ view[m] = "none"
      BY <1>1, <1>2, <1>5 DEF ApprovalPosted, ApprovalPostFails, MessageAt,
         MessageTo, Routed
    <2>2. ButtonsStay
      BY <1>1, <1>5, <2>1 DEF ApprovalPosted, ApprovalPostFails, ButtonsStay
    <2> QED
      BY <1>1, <1>2, <1>5, <2>1, <2>2, OneMessage
      DEF ApprovalPosted, ApprovalPostFails, MessageTo
  <1> QED
    BY <1>3, <1>4, <1>5 DEF HandleMessage

-----------------------------------------------------------------------------
(* Handlers.                                                               *)

\* What the owner does starts a handler.
LEMMA OwnerStarts ==
    ASSUME TypeOK, NEW h \in Handlers, Owner(h)
    PROVE  \E j \in Jobs : \E p \in {"restore", "edit", "body", "find"} : Start(h, j, p)
  <1>1. CommandOrder[1] = "body"
    BY DEF CommandOrder
  <1>2. NoJob \in Jobs
    BY NoJobType DEF TypeOK
  <1>3. ASSUME NEW m \in Msgs
        PROVE  m \in 0 .. Len(script) /\ target[m] \in Requests \cup {None}
    <2>1. Len(script) \in Nat
      BY ScriptsAssumption DEF TypeOK
    <2>2. m \in 0 .. Len(script)
      BY <2>1 DEF Msgs
    <2> QED
      BY <2>2 DEF TypeOK
  <1>4. ASSUME NEW m \in 0 .. Len(script), NEW r \in Requests \cup {None}
        PROVE  /\ [NoJob EXCEPT !.do = "approve", !.msg = m, !.req = r] \in Jobs
               /\ [NoJob EXCEPT !.do = "reject", !.msg = m] \in Jobs
               /\ [NoJob EXCEPT !.do = "toolresult", !.req = r] \in Jobs
               /\ [NoJob EXCEPT !.do = "cleardirty"] \in Jobs
    BY <1>2 DEF Jobs
  <1>5. CASE Press(h)
    BY <1>3, <1>4, <1>5 DEF Press
  <1>6. CASE TypeToolresult(h)
    <2>1. PICK r \in Requests :
            Start(h, [NoJob EXCEPT !.do = "toolresult", !.req = r], "body")
      BY <1>1, <1>6 DEF TypeToolresult
    <2>2. 0 \in 0 .. Len(script)
      BY ScriptsAssumption DEF TypeOK
    <2> QED
      BY <1>4, <2>1, <2>2
  <1>7. CASE TypeCleardirty(h)
    <2>1. [NoJob EXCEPT !.do = "cleardirty"] \in Jobs
      BY <1>2 DEF Jobs
    <2> QED
      BY <1>7, <2>1 DEF TypeCleardirty
  <1> QED
    BY <1>5, <1>6, <1>7 DEF Owner

LEMMA StartSound ==
    ASSUME TypeOK, NEW h \in Handlers, Delivery(h), NEW j \in Jobs,
           NEW p \in {"restore", "edit", "body", "find"}, Start(h, j, p)
    PROVE  /\ Delivery(h)' /\ Revocation(h)'
           /\ StaysSaved(h)
           /\ \A g \in Handlers \ {h} : SameHandler(g)
  <1>1. /\ pc[h] = "idle" /\ pc' = [pc EXCEPT ![h] = p]
        /\ job' = [job EXCEPT ![h] = j]
        /\ UNCHANGED << got, at, total, part, doc >>
    BY DEF Start, Reply
  <1>2. pc'[h] = p
    BY <1>1 DEF TypeOK
  <1>3. Delivery(h)'
    BY <1>1, <1>2 DEF Delivery, Taking, Revoking
  <1>4. Revocation(h)' /\ StaysSaved(h)
    BY <1>1, <1>2 DEF Revocation, Revoking, StaysSaved
  <1>5. \A g \in Handlers \ {h} : SameHandler(g)
    BY <1>1 DEF SameHandler
  <1> QED
    BY <1>3, <1>4, <1>5

LEMMA AfterIs == After("body") = "complete" /\ After("complete") = "reply"
  <1>1. /\ (CHOOSE i \in 1 .. 3 : CommandOrder[i] = "body") = 1
        /\ (CHOOSE i \in 1 .. 3 : CommandOrder[i] = "complete") = 2
    BY DEF CommandOrder
  <1> QED
    BY <1>1 DEF After, CommandOrder

\* Before a request is taken.
LEMMA CommandSound ==
    ASSUME TypeOK, NEW h \in Handlers, Delivery(h),
           \/ Restored(h) \/ Edited(h) \/ EditFails(h) \/ BodyRead(h)
           \/ CompleteFails(h) \/ ReplyFails(h) \/ FindFails(h)
    PROVE  /\ Delivery(h)' /\ Revocation(h)'
           /\ StaysSaved(h)
           /\ \A g \in Handlers \ {h} : SameHandler(g)
  <1>1. After("body") = "complete"
    BY AfterIs
  <1>2. /\ UNCHANGED << got, at, total, part, doc >>
        /\ pc[h] \in Taking \cup {"reply"}
        /\ \E p \in Taking \cup {"done", "failed"} :
              /\ pc' = [pc EXCEPT ![h] = p]
              /\ pc[h] = "reply" => p = "failed"
        /\ \A g \in Handlers \ {h} : job'[g] = job[g]
    BY <1>1 DEF TypeOK, Restored, Edited, EditFails, BodyRead, CompleteFails,
       ReplyFails, FindFails, At, Goto, Over, Reply, Taking
  <1>3. Delivery(h)'
    BY <1>2 DEF TypeOK, Delivery, Taking, Revoking
  <1>4. Revocation(h)' /\ StaysSaved(h)
    BY <1>2 DEF TypeOK, Revocation, Revoking, Taking, StaysSaved
  <1>5. \A g \in Handlers \ {h} : SameHandler(g)
    BY <1>2 DEF SameHandler
  <1> QED
    BY <1>3, <1>4, <1>5

\* From the request taken to the reply saved.
LEMMA CompletedSound ==
    ASSUME TypeOK, NEW h \in Handlers, Delivery(h), Completed(h)
    PROVE  /\ Delivery(h)' /\ Revocation(h)'
           /\ StaysSaved(h)
           /\ \A g \in Handlers \ {h} : SameHandler(g)
  <1>1. After("complete") = "reply"
    BY AfterIs
  <1>2. /\ UNCHANGED << at, total, part, doc >>
        /\ pc[h] = "complete"
        /\ \/ /\ pc' = [pc EXCEPT ![h] = "reply"]
              /\ got' = [got EXCEPT ![h] = job[h].req]
              /\ job[h].req \in Requests
           \/ pc' = [pc EXCEPT ![h] = "done"] /\ UNCHANGED got
        /\ \A g \in Handlers \ {h} : job'[g] = job[g]
    BY <1>1 DEF TypeOK, Completed, At, Goto, Over, Takeable
  <1>3. Delivery(h)'
    BY <1>2, ConstantTypes DEF TypeOK, Delivery, Taking, Revoking
  <1>4. Revocation(h)' /\ StaysSaved(h)
    BY <1>2 DEF TypeOK, Delivery, Revocation, Revoking, Taking, StaysSaved
  <1>5. \A g \in Handlers \ {h} : SameHandler(g)
    BY <1>2 DEF SameHandler, TypeOK
  <1> QED
    BY <1>3, <1>4, <1>5

LEMMA ReplyMadeSound ==
    ASSUME TypeOK, NEW h \in Handlers, Delivery(h), ReplyMade(h)
    PROVE  /\ Delivery(h)' /\ Revocation(h)'
           /\ StaysSaved(h)
           /\ \A g \in Handlers \ {h} : SameHandler(g)
  <1>2. PICK n \in Parts :
        /\ UNCHANGED << job, got, at, part, doc >>
        /\ pc[h] = "reply" /\ pc' = [pc EXCEPT ![h] = "send"]
        /\ total' = [total EXCEPT ![h] = n]
    BY DEF ReplyMade, At, Goto
  <1>3. Delivery(h)'
    BY <1>2 DEF TypeOK, Delivery, Taking, Revoking, Parts
  <1>4. Revocation(h)' /\ StaysSaved(h)
    BY <1>2 DEF TypeOK, Delivery, Revocation, Revoking, Taking, StaysSaved
  <1>5. \A g \in Handlers \ {h} : SameHandler(g)
    BY <1>2 DEF SameHandler
  <1> QED
    BY <1>3, <1>4, <1>5

LEMMA PartSentSound ==
    ASSUME TypeOK, NEW h \in Handlers, Delivery(h), PartSent(h) \/ PartSendFails(h)
    PROVE  /\ Delivery(h)' /\ Revocation(h)'
           /\ StaysSaved(h)
           /\ \A g \in Handlers \ {h} : SameHandler(g)
  <1> DEFINE i == at[h] + 1
  <1>1. /\ UNCHANGED << got, total >>
        /\ pc[h] = "send" /\ doc[h] = "none" /\ got[h] # None
        /\ at[h] < total[h] /\ i \in Parts
        /\ \A k \in Parts : part[h][k] = "none" <=> k > at[h]
    BY ConstantTypes DEF TypeOK, Delivery, PartSent, PartSendFails, At, Parts,
       SaveReply, Goto, Over, Reply
  <1>2. CASE PartSent(h)
    <2>1. /\ at' = [at EXCEPT ![h] = i]
          /\ part' = [part EXCEPT ![h][i] = "shown"]
          /\ UNCHANGED job
          /\ \/ i < total[h] /\ UNCHANGED << pc, doc >>
             \/ /\ i = total[h]
                /\ pc' = [pc EXCEPT ![h] = "save"]
                /\ doc' = [doc EXCEPT ![h] = "flying"]
      BY <1>1, <1>2 DEF TypeOK, PartSent, MoreParts, SaveReply, Goto
    <2>2. /\ at'[h] = i
          /\ \A k \in Parts : part'[h][k] = IF k = i THEN "shown" ELSE part[h][k]
          /\ \A g \in Handlers \ {h} : at'[g] = at[g] /\ part'[g] = part[g]
                                       /\ pc'[g] = pc[g] /\ doc'[g] = doc[g]
      BY <1>1, <2>1 DEF TypeOK
    <2>3. ASSUME NEW k \in Parts PROVE part'[h][k] = "none" <=> k > i
      <3>1. k \in Int /\ at[h] \in Int
        BY DEF TypeOK, Parts
      <3>2. k > i <=> k # i /\ k > at[h]
        BY <3>1
      <3> HIDE DEF i
      <3> QED
        BY <1>1, <2>2, <3>2
    <2>4. Delivery(h)'
      BY <1>1, <2>1, <2>2, <2>3 DEF TypeOK, Delivery, Taking, Revoking
    <2>5. Revocation(h)' /\ StaysSaved(h)
      BY <1>1, <2>1 DEF TypeOK, Revocation, Revoking, StaysSaved
    <2>6. \A g \in Handlers \ {h} : SameHandler(g)
      BY <1>1, <2>1, <2>2 DEF SameHandler
    <2> QED
      BY <2>4, <2>5, <2>6
  <1>3. CASE PartSendFails(h)
    <2>1. /\ UNCHANGED << at, doc >>
          /\ pc' = [pc EXCEPT ![h] = "failed"]
          /\ \A g \in Handlers \ {h} : job'[g] = job[g] /\ part'[g] = part[g]
      BY <1>3 DEF TypeOK, PartSendFails, Over
    <2>2. Delivery(h)'
      BY <1>1, <2>1 DEF TypeOK, Delivery, Taking, Revoking
    <2>3. Revocation(h)' /\ StaysSaved(h)
      BY <1>1, <2>1 DEF TypeOK, Revocation, Revoking, StaysSaved
    <2>4. \A g \in Handlers \ {h} : SameHandler(g)
      BY <1>1, <2>1 DEF SameHandler, TypeOK
    <2> QED
      BY <2>2, <2>3, <2>4
  <1> QED
    BY <1>2, <1>3

LEMMA ReplySavedSound ==
    ASSUME TypeOK, NEW h \in Handlers, Delivery(h),
           ReplySaved(h) \/ ReplySaveFails(h) \/ LateInsert(h)
    PROVE  /\ Delivery(h)' /\ Revocation(h)'
           /\ StaysSaved(h)
           /\ \A g \in Handlers \ {h} : SameHandler(g)
  <1>1. /\ UNCHANGED << got, at, total, part >>
        /\ doc[h] = "flying"
        /\ \A g \in Handlers \ {h} : job'[g] = job[g]
        /\ \/ /\ doc' = [doc EXCEPT ![h] = "stored"]
              /\ pc' = [pc EXCEPT ![h] = "done"]
           \/ \E s \in {"stored", "lost"} :
                /\ doc' = [doc EXCEPT ![h] = s]
                /\ pc' = [pc EXCEPT ![h] = "failed"]
    BY DEF TypeOK, ReplySaved, ReplySaveFails, LateInsert, At, Over, Delivery,
       Reply
  <1>2. Delivery(h)'
    BY <1>1 DEF TypeOK, Delivery, Taking, Revoking
  <1>3. Revocation(h)' /\ StaysSaved(h)
    BY <1>1 DEF TypeOK, Revocation, Revoking, StaysSaved
  <1>4. \A g \in Handlers \ {h} : SameHandler(g)
    BY <1>1 DEF SameHandler, TypeOK
  <1> QED
    BY <1>2, <1>3, <1>4

-----------------------------------------------------------------------------
(* !cleardirty.                                                            *)

LEMMA FoundSound ==
    ASSUME TypeOK, \A g \in Handlers : Delivery(g), NEW h \in Handlers, Found(h)
    PROVE  /\ Delivery(h)' /\ Revocation(h)'
           /\ StaysSaved(h)
           /\ \A g \in Handlers \ {h} : SameHandler(g)
  <1>1. /\ UNCHANGED << got, at, total, part, doc >>
        /\ pc[h] = "find" /\ at[h] = 0 /\ doc[h] = "none"
        /\ \A g \in Handlers \ {h} : job'[g] = job[g]
    BY DEF TypeOK, Found, At, Over, Reply, Delivery, Taking
  <1>2. CASE pc' = [pc EXCEPT ![h] = "done"]
    <2>1. Delivery(h)'
      BY <1>1, <1>2 DEF TypeOK, Delivery, Taking, Revoking
    <2>2. Revocation(h)' /\ StaysSaved(h)
      BY <1>1, <1>2 DEF TypeOK, Revocation, Revoking, StaysSaved
    <2>3. \A g \in Handlers \ {h} : SameHandler(g)
      BY <1>1, <1>2 DEF SameHandler, TypeOK
    <2> QED
      BY <2>1, <2>2, <2>3
  <1>3. CASE \E v \in Handlers :
               /\ Newest(v)
               /\ job' = [job EXCEPT ![h].doc = v]
               /\ pc' = [pc EXCEPT ![h] = IF Listed(v) > 0 THEN "erase" ELSE "drop"]
    <2>1. PICK v \in Handlers :
            /\ doc[v] = "stored"
            /\ job' = [job EXCEPT ![h].doc = v]
            /\ pc' = [pc EXCEPT ![h] = IF Listed(v) > 0 THEN "erase" ELSE "drop"]
      BY <1>3 DEF Newest
    <2>2. pc'[h] = (IF Listed(v) > 0 THEN "erase" ELSE "drop") /\ job'[h].doc = v
      BY <2>1 DEF TypeOK, Jobs
    <2>3. Delivery(h)'
      BY <1>1, <2>2 DEF Delivery, Taking, Revoking
    <2>4. Listed(v)' = Listed(v) /\ Cleared(v)' = Cleared(v)
      BY <1>1 DEF Listed, ToDiscord, Cleared
    <2>5. ~ (Listed(v) > 0) => Cleared(v)
      <3> SUFFICES ASSUME ~ (Listed(v) > 0), ToDiscord(v), NEW i \in Parts
                   PROVE  part[v][i] = "none"
        BY DEF Cleared
      <3>1. ~ (at[v] > 0) /\ at[v] \in Nat /\ i \in Nat /\ i > 0
        BY DEF Listed, TypeOK, Parts
      <3> QED
        BY <2>1, <3>1 DEF Delivery
    <2>6. Revocation(h)'
      BY <1>1, <2>1, <2>2, <2>4, <2>5 DEF Revocation, Revoking
    <2>7. StaysSaved(h)
      BY <1>1 DEF StaysSaved
    <2>8. \A g \in Handlers \ {h} : SameHandler(g)
      BY <1>1, <2>1 DEF SameHandler, TypeOK
    <2> QED
      BY <2>3, <2>6, <2>7, <2>8
  <1> QED
    BY <1>2, <1>3 DEF Found, Over

\* h takes back the reply of v: its messages change, or its document.
LEMMA TwoHandlers ==
    ASSUME TypeOK, \A g \in Handlers : Delivery(g) /\ Revocation(g),
           NEW h \in Handlers, NEW v \in Handlers,
           \A g \in Handlers \ {h, v} : SameHandler(g),
           pc'[v] = pc[v], job'[v] = job[v], at'[v] = at[v],
           StaysSaved(h), StaysSaved(v),
           Delivery(h)', Delivery(v)', Revocation(h)'
    PROVE  \A g \in Handlers : Delivery(g)' /\ Revocation(g)'
  <1>1. \A g \in Handlers : StaysSaved(g)
    BY DEF SameHandler, StaysSaved
  <1>2. \A g \in Handlers \ {h} : Revocation(g)'
    BY <1>1, RevocationKept DEF SameHandler
  <1>3. \A g \in Handlers \ {h, v} : Delivery(g)'
    BY DeliveryKept
  <1> QED
    BY <1>2, <1>3

\* What !cleardirty in h knows of the reply of v it works on.
LEMMA RevokedReply ==
    ASSUME TypeOK, \A g \in Handlers : Delivery(g) /\ Revocation(g),
           NEW h \in Handlers, pc[h] \in Revoking
    PROVE  LET v == job[h].doc IN
           /\ v \in Handlers /\ v # h
           /\ doc[v] \in {"stored", "deleted"}
           /\ doc[h] = "none" /\ got[h] = None
           /\ pc[v] \in {"done", "failed"}
           /\ \A i \in Parts : part[v][i] = "none" <=> i > at[v]
           /\ doc[v] = "deleted" => Cleared(v)
           /\ got[v] # None /\ at[v] = total[v]
  <1> DEFINE v == job[h].doc
  <1>1. v \in Handlers /\ doc[v] \in {"stored", "deleted"}
    BY DEF Revocation
  <1>2. Delivery(v) /\ Delivery(h)
    BY <1>1
  <1>3. doc[h] = "none" /\ got[h] = None
    BY <1>2 DEF Delivery
  <1>4. pc[v] \in {"done", "failed"}
    BY <1>1, <1>2 DEF TypeOK, Delivery, Taking, Revoking, HandlerAwaits,
       HandlerEnds
  <1> QED
    BY <1>1, <1>2, <1>3, <1>4 DEF Delivery

LEMMA PartErasedSound ==
    ASSUME TypeOK, \A g \in Handlers : Delivery(g) /\ Revocation(g),
           NEW h \in Handlers, PartErased(h)
    PROVE  \A g \in Handlers : Delivery(g)' /\ Revocation(g)'
  <1>1. pc[h] = "erase" /\ pc[h] \in Revoking
    BY DEF PartErased, At, Revoking
  <1> PICK v \in Handlers : v = job[h].doc
    BY <1>1 DEF Revocation
  <1> PICK i \in Nat : i = at[h] + 1
    BY DEF TypeOK
  <1>2. /\ v \in Handlers /\ v # h /\ doc[v] \in {"stored", "deleted"}
        /\ doc[h] = "none" /\ got[h] = None /\ pc[v] \in {"done", "failed"}
        /\ \A k \in Parts : part[v][k] = "none" <=> k > at[v]
        /\ doc[v] = "deleted" => Cleared(v)
        /\ got[v] # None /\ at[v] = total[v]
    BY <1>1, RevokedReply
  <1>3. /\ at[h] < Listed(v) /\ ToDiscord(v) /\ Listed(v) = at[v]
        /\ at[h] \in Nat /\ at[v] \in Nat /\ i \in Parts /\ i <= at[v]
        /\ \A k \in 1 .. at[h] : part[v][k] # "shown"
    <2>1. at[h] < Listed(v) /\ \A k \in 1 .. at[h] : part[v][k] # "shown"
      BY <1>1 DEF Revocation
    <2>2. at[h] \in 0 .. MaxParts /\ at[v] \in 0 .. MaxParts
      BY <1>2 DEF TypeOK
    <2> QED
      BY <2>1, <2>2, ConstantTypes DEF Listed, Parts
  <1>4. PICK s \in {"erased", "stuck"} :
          /\ part' = [part EXCEPT ![v][i] = s]
          /\ at' = [at EXCEPT ![h] = i]
          /\ UNCHANGED << job, doc, got, total >>
          /\ IF i < Listed(v) THEN UNCHANGED pc
                              ELSE pc' = [pc EXCEPT ![h] = "drop"]
    BY DEF PartErased, Goto, Reply
  <1>5. /\ at'[h] = i /\ at'[v] = at[v] /\ pc'[v] = pc[v]
        /\ pc'[h] = (IF i < Listed(v) THEN "erase" ELSE "drop")
        /\ part'[h] = part[h]
        /\ \A k \in Parts : part'[v][k] = IF k = i THEN s ELSE part[v][k]
    BY <1>1, <1>2, <1>3, <1>4 DEF TypeOK
  <1>6. /\ ToDiscord(v)' = ToDiscord(v) /\ Listed(v)' = Listed(v)
        /\ ToDiscord(h)' = ToDiscord(h)
    BY <1>4, <1>5 DEF ToDiscord, Listed
  <1>7. \A k \in Parts : part[v][k] # "shown" => part'[v][k] # "shown"
    BY <1>5
  <1>8. \A k \in 1 .. i : k \in Parts => part'[v][k] # "shown"
    <2> SUFFICES ASSUME NEW k \in 1 .. i, k \in Parts PROVE part'[v][k] # "shown"
      OBVIOUS
    <2>1. k = i \/ k \in 1 .. at[h]
      BY <1>3
    <2> QED
      BY <1>3, <1>5, <2>1
  <1>9. \A k \in 1 .. i : k \in Parts
    BY <1>3, ConstantTypes DEF Parts
  <1>10. ~ (i < Listed(v)) => Cleared(v)'
    <2> SUFFICES ASSUME ~ (i < Listed(v)), NEW k \in Parts
                 PROVE  part'[v][k] # "shown"
      BY <1>4 DEF Cleared
    <2>1. k \in 1 .. i \/ (k > at[v] /\ k # i)
      BY <1>3 DEF Parts
    <2> QED
      BY <1>2, <1>5, <1>8, <2>1
  <1>11. Delivery(v)'
    <2>1. \A k \in Parts : part'[v][k] = "none" <=> k > at[v]
      <3> SUFFICES ASSUME NEW k \in Parts
                   PROVE  part'[v][k] = "none" <=> k > at[v]
        OBVIOUS
      <3>1. k = i => ~ (k > at[v])
        BY <1>3
      <3> QED
        BY <1>2, <1>5, <3>1
    <2>2. Cleared(v) => Cleared(v)'
      BY <1>6, <1>7 DEF Cleared
    <2> QED
      BY <1>2, <1>4, <1>5, <2>1, <2>2 DEF Delivery, Taking, Revoking
  <1>12. Delivery(h)'
    BY <1>1, <1>2, <1>4, <1>5 DEF Delivery, Taking, Revoking
  <1>13. Revocation(h)'
    BY <1>2, <1>4, <1>5, <1>6, <1>8, <1>9, <1>10 DEF Revocation, Revoking
  <1>14. StaysSaved(h) /\ StaysSaved(v)
    BY <1>2, <1>4, <1>5, <1>7 DEF StaysSaved
  <1>15. \A g \in Handlers \ {h, v} : SameHandler(g)
    BY <1>2, <1>4 DEF SameHandler, TypeOK
  <1>16. job' = job
    BY <1>4
  <1> QED
    BY <1>2, <1>5, <1>11, <1>12, <1>13, <1>14, <1>15, <1>16, TwoHandlers

LEMMA ChannelGoneSound ==
    ASSUME TypeOK, \A g \in Handlers : Delivery(g) /\ Revocation(g),
           NEW h \in Handlers, ChannelGone(h)
    PROVE  \A g \in Handlers : Delivery(g)' /\ Revocation(g)'
  <1>1. pc[h] = "erase" /\ pc[h] \in Revoking
    BY DEF ChannelGone, At, Revoking
  <1> PICK v \in Handlers : v = job[h].doc
    BY <1>1 DEF Revocation
  <1>2. /\ v # h /\ doc[v] \in {"stored", "deleted"}
        /\ doc[h] = "none" /\ got[h] = None /\ pc[v] \in {"done", "failed"}
        /\ \A k \in Parts : part[v][k] = "none" <=> k > at[v]
        /\ doc[v] = "deleted" => Cleared(v)
        /\ got[v] # None /\ at[v] = total[v]
    BY <1>1, RevokedReply
  <1>3. /\ part' = [part EXCEPT ![v] =
                     [k \in Parts |-> IF @[k] = "shown" THEN "stuck" ELSE @[k]]]
        /\ pc' = [pc EXCEPT ![h] = "drop"]
        /\ UNCHANGED << job, doc, got, at, total >>
    BY DEF ChannelGone, Goto, Reply
  <1>4. /\ pc'[h] = "drop" /\ pc'[v] = pc[v] /\ part'[h] = part[h]
        /\ \A k \in Parts :
             part'[v][k] = IF part[v][k] = "shown" THEN "stuck" ELSE part[v][k]
    BY <1>2, <1>3 DEF TypeOK
  <1>5. Cleared(v)' /\ \A k \in Parts : part'[v][k] # "shown"
    BY <1>4 DEF Cleared
  <1>6. \A k \in Parts : part'[v][k] = "none" <=> k > at[v]
    BY <1>2, <1>4
  <1>7. Delivery(v)'
    BY <1>2, <1>3, <1>4, <1>5, <1>6 DEF Delivery, Taking, Revoking
  <1>8. Delivery(h)'
    BY <1>1, <1>2, <1>3, <1>4 DEF Delivery, Taking, Revoking
  <1>9. Revocation(h)'
    BY <1>2, <1>3, <1>4, <1>5 DEF Revocation, Revoking
  <1>10. StaysSaved(h) /\ StaysSaved(v)
    BY <1>2, <1>3, <1>4 DEF StaysSaved
  <1>11. \A g \in Handlers \ {h, v} : SameHandler(g)
    BY <1>2, <1>3 DEF SameHandler, TypeOK
  <1> QED
    BY <1>3, <1>4, <1>7, <1>8, <1>9, <1>10, <1>11, TwoHandlers

LEMMA DroppedSound ==
    ASSUME TypeOK, \A g \in Handlers : Delivery(g) /\ Revocation(g),
           NEW h \in Handlers, Dropped(h) \/ DropFails(h)
    PROVE  \A g \in Handlers : Delivery(g)' /\ Revocation(g)'
  <1>1. pc[h] = "drop" /\ pc[h] \in Revoking
    BY DEF Dropped, DropFails, At, Revoking
  <1> PICK v \in Handlers : v = job[h].doc
    BY <1>1 DEF Revocation
  <1>2. /\ v # h /\ doc[v] \in {"stored", "deleted"}
        /\ doc[h] = "none" /\ got[h] = None /\ pc[v] \in {"done", "failed"}
        /\ \A k \in Parts : part[v][k] = "none" <=> k > at[v]
        /\ got[v] # None /\ at[v] = total[v]
    BY <1>1, RevokedReply
  <1>3. Cleared(v)
    BY <1>1 DEF Revocation
  <1>4. /\ UNCHANGED << got, at, total, part >>
        /\ \E e \in {"done", "failed"} : pc' = [pc EXCEPT ![h] = e]
        /\ job' = [job EXCEPT ![h] = NoJob]
        /\ doc' \in {doc, [doc EXCEPT ![v] = "deleted"]}
    BY DEF Dropped, DropFails, Over, Reply
  <1>5. /\ pc'[h] \in {"done", "failed"} /\ pc'[v] = pc[v] /\ job'[v] = job[v]
        /\ doc'[h] = "none" /\ doc'[v] \in {doc[v], "deleted"}
    BY <1>2, <1>4 DEF TypeOK
  <1>6. Cleared(v)'
    BY <1>3, <1>4 DEF Cleared, ToDiscord
  <1>7. Delivery(v)'
    BY <1>2, <1>4, <1>5, <1>6 DEF Delivery, Taking, Revoking
  <1>8. Delivery(h)'
    BY <1>2, <1>4, <1>5 DEF Delivery, Taking, Revoking
  <1>9. Revocation(h)'
    BY <1>5 DEF Revocation, Revoking
  <1>10. StaysSaved(h) /\ StaysSaved(v)
    BY <1>2, <1>4, <1>5 DEF StaysSaved
  <1>11. \A g \in Handlers \ {h, v} : SameHandler(g)
    BY <1>2, <1>4 DEF SameHandler, TypeOK
  <1> QED
    BY <1>4, <1>5, <1>7, <1>8, <1>9, <1>10, <1>11, TwoHandlers

LEMMA CrashSound ==
    ASSUME TypeOK, \A g \in Handlers : Delivery(g) /\ Revocation(g), Crash
    PROVE  \A g \in Handlers : Delivery(g)' /\ Revocation(g)'
  <1>1. UNCHANGED << at, part, doc, got, total >>
    BY DEF Crash, Reply
  <1> SUFFICES ASSUME NEW g \in Handlers
               PROVE  Delivery(g)' /\ Revocation(g)'
    OBVIOUS
  <1>2. \/ pc'[g] = "failed"
        \/ pc'[g] = pc[g] /\ pc[g] \notin HandlerAwaits
    BY DEF Crash
  <1>3. Cleared(g) => Cleared(g)'
    BY <1>1 DEF Cleared, ToDiscord
  <1>4. Delivery(g)
    OBVIOUS
  <1>5. Delivery(g)'
    BY <1>1, <1>2, <1>3, <1>4 DEF Delivery, Taking, Revoking, HandlerAwaits
  <1>6. Revocation(g)'
    BY <1>2 DEF Revocation, Revoking, HandlerAwaits
  <1> QED
    BY <1>5, <1>6

\* The replies and their withdrawals in every step.
LEMMA DeliveryNext ==
    ASSUME TypeOK, \A g \in Handlers : Delivery(g) /\ Revocation(g), [Next]_vars
    PROVE  \A g \in Handlers : Delivery(g)' /\ Revocation(g)'
  <1> DEFINE Goal == \A g \in Handlers : Delivery(g)' /\ Revocation(g)'
  <1> SUFFICES Goal
    OBVIOUS
  <1>0. ASSUME UNCHANGED << pc, job, got, at, total, part, doc >> PROVE Goal
    BY <1>0, NoHandler
  <1>1. ASSUME NEW h \in Handlers, Delivery(h)', Revocation(h)', StaysSaved(h),
               \A g \in Handlers \ {h} : SameHandler(g)
        PROVE  Goal
    BY <1>1, OneHandler
  <1> HIDE DEF Goal
  <1>2. CASE Arrive
    BY <1>0, <1>2 DEF Arrive, Reply
  <1>3. ASSUME NEW m \in Msgs, HandleMessage(m) PROVE Goal
    BY <1>0, <1>3 DEF HandleMessage, PreviousFetched, PreviousNotFetched,
       Checked, BodyResolved, ApprovalPosted, ApprovalPostFails, Reply
  <1>4. ASSUME NEW h \in Handlers, Owner(h) PROVE Goal
    <2>1. \E j \in Jobs : \E p \in {"restore", "edit", "body", "find"} : Start(h, j, p)
      BY <1>4, OwnerStarts
    <2> QED
      BY <1>1, <2>1, StartSound
  <1>5. ASSUME NEW h \in Handlers, Handle(h) PROVE Goal
    <2>1. CASE \/ Restored(h) \/ Edited(h) \/ EditFails(h) \/ BodyRead(h)
               \/ CompleteFails(h) \/ ReplyFails(h) \/ FindFails(h)
      BY <1>1, <2>1, CommandSound
    <2>2. CASE Completed(h) \/ ReplyMade(h)
      BY <1>1, <2>2, CompletedSound, ReplyMadeSound
    <2>3. CASE PartSent(h) \/ PartSendFails(h)
      BY <1>1, <2>3, PartSentSound
    <2>4. CASE ReplySaved(h) \/ ReplySaveFails(h)
      BY <1>1, <2>4, ReplySavedSound
    <2>5. CASE Found(h)
      BY <1>1, <2>5, FoundSound
    <2>6. CASE PartErased(h) \/ ChannelGone(h) \/ Dropped(h) \/ DropFails(h)
      BY <2>6, PartErasedSound, ChannelGoneSound, DroppedSound DEF Goal
    <2> QED
      BY <1>5, <2>1, <2>2, <2>3, <2>4, <2>5, <2>6 DEF Handle
  <1>6. ASSUME NEW h \in Handlers, LateInsert(h) PROVE Goal
    BY <1>1, <1>6, ReplySavedSound
  <1>7. ASSUME NEW r \in Requests, Expire(r) PROVE Goal
    BY <1>0, <1>7 DEF Expire, Reply
  <1>8. CASE Crash
    BY <1>8, CrashSound DEF Goal
  <1>9. CASE UNCHANGED vars
    BY <1>0, <1>9 DEF vars
  <1> QED
    BY <1>2, <1>3, <1>4, <1>5, <1>6, <1>7, <1>8, <1>9 DEF Next

-----------------------------------------------------------------------------
(* The messages and the presses in every step.                             *)

LEMMA RoutedNext ==
    ASSUME TypeOK, \A m \in Msgs : Routed(m), \A h \in Handlers : Pressed(h),
           [Next]_vars
    PROVE  /\ \A m \in Msgs' : Routed(m)'
           /\ UNCHANGED script /\ ButtonsStay
  <1> DEFINE Goal == /\ \A m \in Msgs' : Routed(m)'
                     /\ UNCHANGED script /\ ButtonsStay
  <1> SUFFICES Goal
    OBVIOUS
  <1>0. ASSUME UNCHANGED << script, arrived, mpc, target, view >> PROVE Goal
    BY <1>0 DEF Routed, Msgs, ButtonsStay
  <1>1. CASE Arrive
    BY <1>1, ArriveRouted DEF Arrive, ButtonsStay
  <1>2. ASSUME NEW m \in Msgs, HandleMessage(m) PROVE Goal
    <2>1. UNCHANGED script
      BY <1>2 DEF HandleMessage, PreviousFetched, PreviousNotFetched, Checked,
         BodyResolved, ApprovalPosted, ApprovalPostFails
    <2> QED
      BY <1>2, <2>1, MessageRouted
  \* A press disables the buttons of a message that has some.
  <1>3. ASSUME NEW h \in Handlers, Edited(h) \/ EditFails(h) PROVE Goal
    <2>1. /\ job[h].msg \in Msgs /\ view[job[h].msg] # "none"
          /\ UNCHANGED << script, arrived, mpc, target >>
          /\ \/ UNCHANGED view
             \/ \E s \in {"approved", "rejected"} :
                   view' = [view EXCEPT ![job[h].msg] = s]
      BY <1>3 DEF Edited, EditFails, At, Pressed, Agents
    <2>2. \A m \in Msgs : view'[m] = "none" <=> view[m] = "none"
      BY <2>1 DEF TypeOK
    <2> QED
      BY <2>1, <2>2 DEF Routed, Msgs, ButtonsStay
  <1> HIDE DEF Goal
  <1>4. ASSUME NEW h \in Handlers, Owner(h) PROVE Goal
    BY <1>0, <1>4 DEF Owner, Press, TypeToolresult, TypeCleardirty, Start,
       Agents
  <1>5. ASSUME NEW h \in Handlers, Handle(h) \/ LateInsert(h) PROVE Goal
    <2>1. CASE \/ Restored(h) \/ BodyRead(h) \/ Completed(h) \/ CompleteFails(h)
               \/ ReplyMade(h) \/ ReplyFails(h) \/ PartSent(h)
               \/ PartSendFails(h) \/ ReplySaved(h) \/ ReplySaveFails(h)
      BY <1>0, <2>1 DEF Restored, BodyRead, Completed, CompleteFails,
         ReplyMade, ReplyFails, PartSent, PartSendFails, ReplySaved,
         ReplySaveFails, Agents
    <2>2. CASE \/ Found(h) \/ FindFails(h) \/ PartErased(h) \/ ChannelGone(h)
               \/ Dropped(h) \/ DropFails(h) \/ LateInsert(h)
      BY <1>0, <2>2 DEF Found, FindFails, PartErased, ChannelGone, Dropped,
         DropFails, LateInsert, Agents
    <2> QED
      BY <1>3, <1>5, <2>1, <2>2 DEF Handle
  <1>6. ASSUME NEW r \in Requests, Expire(r) PROVE Goal
    BY <1>0, <1>6 DEF Expire, Agents
  \* A command whose buttons were not posted is forgotten.
  <1>7. CASE Crash
    <2>1. UNCHANGED << script, arrived, view >> /\ Msgs' = Msgs
      BY <1>7 DEF Crash, Msgs
    <2>2. ASSUME NEW m \in Msgs PROVE Routed(m)'
      <3>1. /\ mpc'[m] = IF mpc[m] = "new" THEN "new" ELSE "over"
            /\ view[m] # "none" => target'[m] = target[m]
        BY <1>7 DEF Crash
      <3>2. Routed(m)
        OBVIOUS
      <3> QED
        BY <2>1, <3>1, <3>2 DEF Routed
    <2> QED
      BY <2>1, <2>2 DEF Goal, ButtonsStay
  <1>8. CASE UNCHANGED vars
    BY <1>0, <1>8 DEF vars
  <1> QED
    BY <1>1, <1>2, <1>4, <1>5, <1>6, <1>7, <1>8 DEF Next

LEMMA PressedNext ==
    ASSUME TypeOK, \A h \in Handlers : Pressed(h), UNCHANGED script, ButtonsStay,
           [Next]_vars
    PROVE  \A h \in Handlers : Pressed(h)'
  <1> SUFFICES ASSUME NEW g \in Handlers PROVE Pressed(g)'
    OBVIOUS
  <1>0. ASSUME pc'[g] = pc[g] /\ job'[g] = job[g] PROVE Pressed(g)'
    BY <1>0, PressedKept
  <1>a. ASSUME pc'[g] \notin {"restore", "edit"} PROVE Pressed(g)'
    BY <1>a DEF Pressed
  <1>1. CASE Arrive \/ \E m \in Msgs : HandleMessage(m)
    <2>1. UNCHANGED << pc, job >>
      BY <1>1 DEF Arrive, HandleMessage, PreviousFetched, PreviousNotFetched,
         Checked, BodyResolved, ApprovalPosted, ApprovalPostFails
    <2> QED
      BY <1>0, <2>1
  <1>2. ASSUME NEW h \in Handlers, Owner(h) PROVE Pressed(g)'
    <2>1. CASE Press(h)
      <3>1. PICK m \in Msgs :
              \E j \in {[NoJob EXCEPT !.do = "approve", !.msg = m, !.req = target[m]],
                        [NoJob EXCEPT !.do = "reject", !.msg = m]} :
                /\ view[m] # "none"
                /\ pc'[h] \in {"restore", "edit"}
                /\ job' = [job EXCEPT ![h] = j]
                /\ \A k \in Handlers \ {h} : pc'[k] = pc[k] /\ job'[k] = job[k]
        BY <2>1 DEF Press, Start, TypeOK
      <3>2. /\ [NoJob EXCEPT !.do = "approve", !.msg = m, !.req = target[m]].msg = m
            /\ [NoJob EXCEPT !.do = "reject", !.msg = m].msg = m
        BY DEF NoJob
      <3>3. job'[h].msg = m
        BY <3>1, <3>2 DEF TypeOK
      <3> QED
        BY <1>0, <3>1, <3>3 DEF Pressed, ButtonsStay, Msgs
    <2>2. CASE TypeToolresult(h) \/ TypeCleardirty(h)
      <3>1. CommandOrder[1] = "body"
        BY DEF CommandOrder
      <3>2. /\ pc'[h] \in {"body", "find"}
            /\ \A k \in Handlers \ {h} : pc'[k] = pc[k] /\ job'[k] = job[k]
        BY <2>2, <3>1 DEF TypeToolresult, TypeCleardirty, Start, TypeOK
      <3> QED
        BY <1>0, <1>a, <3>2
    <2> QED
      BY <1>2, <2>1, <2>2 DEF Owner
  <1>3. ASSUME NEW h \in Handlers, Handle(h) \/ LateInsert(h) PROVE Pressed(g)'
    <2>1. After("body") = "complete" /\ After("complete") = "reply"
      BY AfterIs
    <2>2. /\ \A k \in Handlers \ {h} : pc'[k] = pc[k] /\ job'[k] = job[k]
          /\ \/ pc'[h] \notin {"restore", "edit"}
             \/ UNCHANGED job /\ pc[h] = "restore" /\ pc'[h] = "edit"
             \/ UNCHANGED << pc, job >>
      <3>1. CASE \/ Restored(h) \/ Edited(h) \/ EditFails(h) \/ BodyRead(h)
                 \/ Completed(h) \/ CompleteFails(h)
        BY <2>1, <3>1 DEF TypeOK, Restored, Edited, EditFails, BodyRead,
           Completed, CompleteFails, At, Goto, Over
      <3>2. CASE \/ ReplyMade(h) \/ ReplyFails(h) \/ PartSent(h)
                 \/ PartSendFails(h) \/ ReplySaved(h) \/ ReplySaveFails(h)
        BY <3>2 DEF TypeOK, ReplyMade, ReplyFails, PartSent, PartSendFails,
           ReplySaved, ReplySaveFails, SaveReply, At, Goto, Over
      <3>3. CASE \/ Found(h) \/ FindFails(h) \/ PartErased(h) \/ ChannelGone(h)
                 \/ Dropped(h) \/ DropFails(h) \/ LateInsert(h)
        BY <3>3 DEF TypeOK, Found, FindFails, PartErased, ChannelGone, Dropped,
           DropFails, LateInsert, At, Goto, Over
      <3> QED
        BY <1>3, <3>1, <3>2, <3>3 DEF Handle
    <2>3. CASE g # h
      BY <1>0, <2>2, <2>3
    <2>4. CASE g = h
      BY <1>0, <1>a, <2>2, <2>4 DEF Pressed, ButtonsStay, Msgs
    <2> QED
      BY <2>3, <2>4
  <1>4. ASSUME NEW r \in Requests, Expire(r) PROVE Pressed(g)'
    BY <1>0, <1>4 DEF Expire
  <1>5. CASE Crash
    BY <1>0, <1>a, <1>5 DEF Crash, HandlerAwaits
  <1>6. CASE UNCHANGED vars
    BY <1>0, <1>6 DEF vars
  <1> QED
    BY <1>1, <1>2, <1>3, <1>4, <1>5, <1>6 DEF Next

-----------------------------------------------------------------------------
(* Types.  The bounds of at, and of the clock, follow from the invariants. *)

LEMMA SavedFinite ==
    /\ IsFiniteSet(Saved) /\ Cardinality(Saved) \in Nat
    /\ \A h \in Handlers \ Saved :
         /\ Cardinality(Saved \cup {h}) = Cardinality(Saved) + 1
         /\ Cardinality(Saved) + 1 <= NumHandlers
  <1>1. IsFiniteSet(Handlers) /\ Cardinality(Handlers) = NumHandlers
    BY BoundsAssumption, FS_Interval DEF Handlers
  <1>2. IsFiniteSet(Saved)
    BY <1>1, FS_Subset DEF Saved
  <1>3. ASSUME NEW h \in Handlers \ Saved
        PROVE  /\ Cardinality(Saved \cup {h}) = Cardinality(Saved) + 1
               /\ Cardinality(Saved) + 1 <= NumHandlers
    <2>1. Cardinality(Saved \cup {h}) = Cardinality(Saved) + 1
      BY <1>2, FS_AddElement
    <2>2. Saved \cup {h} \in SUBSET Handlers
      BY DEF Saved
    <2>3. Cardinality(Saved \cup {h}) <= Cardinality(Handlers)
      BY <1>1, <2>2, FS_Subset
    <2> QED
      BY <1>1, <2>1, <2>3
  <1> QED
    BY <1>2, <1>3, FS_CardinalityType

\* A reply is saved once, and gets the next time stamp.
LEMMA CountedNext ==
    ASSUME TypeOK, Counted, \A g \in Handlers : Delivery(g) /\ Revocation(g),
           [Next]_vars
    PROVE  /\ Counted' /\ clock' \in 0 .. NumHandlers
           /\ stamp' \in [Handlers -> 0 .. clock']
  <1> DEFINE Goal == /\ Counted' /\ clock' \in 0 .. NumHandlers
                     /\ stamp' \in [Handlers -> 0 .. clock']
  <1> SUFFICES Goal
    OBVIOUS
  <1>0. ASSUME UNCHANGED << stamp, clock >>,
               \A g \in Handlers : doc'[g] = "none" <=> doc[g] = "none"
        PROVE  Goal
    <2>1. Saved' = Saved
      BY <1>0 DEF Saved
    <2> QED
      BY <1>0, <2>1 DEF Counted, TypeOK
  <1>1. ASSUME NEW h \in Handlers, PartSent(h) PROVE Goal
    <2>1. CASE MoreParts(h)
      BY <1>0, <1>1, <2>1 DEF PartSent
    <2>2. CASE ~ MoreParts(h)
      <3>1. /\ clock' = clock + 1 /\ stamp' = [stamp EXCEPT ![h] = clock + 1]
            /\ doc' = [doc EXCEPT ![h] = "flying"]
            /\ doc[h] = "none"
        BY <1>1, <2>2 DEF PartSent, SaveReply, At, Delivery
      <3>2. Saved' = Saved \cup {h} /\ h \notin Saved
        BY <3>1 DEF Saved, TypeOK
      <3>3. clock \in Nat /\ clock = Cardinality(Saved)
        BY DEF TypeOK, Counted
      <3>4. Counted' /\ clock' \in 0 .. NumHandlers
        BY <3>1, <3>2, <3>3, SavedFinite DEF Counted
      <3>5. \A g \in Handlers : stamp[g] \in 0 .. clock
        BY DEF TypeOK
      <3>6. \A k : k \in 0 .. clock => k \in 0 .. clock + 1
        BY <3>3
      <3>7. clock + 1 \in 0 .. clock + 1
        BY <3>3
      <3>8. stamp' \in [Handlers -> 0 .. clock']
        BY <3>1, <3>5, <3>6, <3>7 DEF TypeOK
      <3> QED
        BY <3>4, <3>8
    <2> QED
      BY <2>1, <2>2
  <1> HIDE DEF Goal
  <1>2. CASE Arrive \/ \E m \in Msgs : HandleMessage(m)
    BY <1>0, <1>2 DEF Arrive, HandleMessage, PreviousFetched,
       PreviousNotFetched, Checked, BodyResolved, ApprovalPosted,
       ApprovalPostFails, Reply
  <1>3. ASSUME NEW h \in Handlers, Owner(h) PROVE Goal
    BY <1>0, <1>3 DEF Owner, Press, TypeToolresult, TypeCleardirty, Start,
       Reply
  <1>4. ASSUME NEW h \in Handlers, Handle(h) \/ LateInsert(h) PROVE Goal
    <2>1. CASE \/ Restored(h) \/ Edited(h) \/ EditFails(h) \/ BodyRead(h)
               \/ Completed(h) \/ CompleteFails(h) \/ ReplyMade(h)
               \/ ReplyFails(h) \/ PartSendFails(h)
      BY <1>0, <2>1 DEF Restored, Edited, EditFails, BodyRead, Completed,
         CompleteFails, ReplyMade, ReplyFails, PartSendFails, Reply
    <2>2. CASE ReplySaved(h) \/ ReplySaveFails(h) \/ LateInsert(h)
      <3>1. /\ doc[h] # "none"
            /\ \E s \in {"stored", "lost"} : doc' = [doc EXCEPT ![h] = s]
            /\ UNCHANGED << stamp, clock >>
        BY <2>2 DEF ReplySaved, ReplySaveFails, LateInsert, At, Delivery, Reply
      <3> QED
        BY <1>0, <3>1 DEF TypeOK
    <2>3. CASE Found(h) \/ FindFails(h) \/ PartErased(h) \/ ChannelGone(h)
      BY <1>0, <2>3 DEF Found, FindFails, PartErased, ChannelGone, Reply
    <2>4. CASE Dropped(h) \/ DropFails(h)
      <3>1. /\ job[h].doc \in Handlers /\ doc[job[h].doc] # "none"
            /\ doc' \in {doc, [doc EXCEPT ![job[h].doc] = "deleted"]}
            /\ UNCHANGED << stamp, clock >>
        BY <2>4 DEF Dropped, DropFails, At, Revocation, Revoking, Reply
      <3> QED
        BY <1>0, <3>1 DEF TypeOK
    <2> QED
      BY <1>1, <1>4, <2>1, <2>2, <2>3, <2>4 DEF Handle
  <1>5. ASSUME NEW r \in Requests, Expire(r) PROVE Goal
    BY <1>0, <1>5 DEF Expire, Reply
  <1>6. CASE Crash
    BY <1>0, <1>6 DEF Crash, Reply
  <1>7. CASE UNCHANGED vars
    BY <1>0, <1>7 DEF vars
  <1> QED
    BY <1>2, <1>3, <1>4, <1>5, <1>6, <1>7 DEF Next

MessageTypes ==
    /\ script \in Scripts
    /\ arrived \in 0 .. Len(script)
    /\ mpc \in [Msgs -> {"new", "over"} \cup MessageAwaits]
    /\ target \in [Msgs -> Requests \cup {None}]
    /\ view \in [Msgs -> {"none", "open", "approved", "rejected"}]

HandlerTypes ==
    /\ pending \in [Requests -> {"pending", "completed", "expired"}]
    /\ job \in [Handlers -> Jobs]
    /\ pc \in [Handlers -> {"idle"} \cup HandlerAwaits \cup HandlerEnds]
    /\ got \in [Handlers -> Requests \cup {None}]
    /\ at \in [Handlers -> 0 .. MaxParts]
    /\ total \in [Handlers -> 0 .. MaxParts]
    /\ part \in [Handlers -> [Parts -> {"none", "shown", "stuck", "erased"}]]
    /\ doc \in [Handlers -> {"none", "flying", "stored", "lost", "deleted"}]
    /\ crashes \in 0 .. MaxCrashes

LEMMA MessageTypesNext ==
    ASSUME TypeOK, \A h \in Handlers : Pressed(h), [Next]_vars
    PROVE  MessageTypes'
  <1>0. ASSUME UNCHANGED << script, arrived, mpc, target, view >>
        PROVE  MessageTypes'
    BY <1>0 DEF TypeOK, MessageTypes, Msgs
  <1>1. Len(script) \in Nat /\ script \in Seq(Message)
    BY ScriptsAssumption DEF TypeOK
  <1>2. \A i \in Msgs : script[i] \in Message
    BY <1>1 DEF Msgs
  <1>3. \A i \in Msgs : script[i].req \in Requests
    BY <1>2 DEF Message
  <1>4. CASE Arrive
    <2>1. /\ arrived + 1 \in Msgs /\ arrived + 1 \in 0 .. Len(script)
      BY <1>1, <1>4 DEF TypeOK, Arrive, Msgs
    <2>2. FirstStep(script[arrived + 1].kind) \in {"over"} \cup MessageAwaits
      BY <1>2, <2>1, FirstStepIs DEF Message
    <2>3. mpc' \in [Msgs -> {"new", "over"} \cup MessageAwaits]
      BY <1>4, <2>2 DEF TypeOK, Arrive
    <2>4. target' \in [Msgs -> Requests \cup {None}]
      BY <1>3, <1>4, <2>1 DEF TypeOK, Arrive
    <2>5. UNCHANGED << script, view >> /\ arrived' = arrived + 1 /\ Msgs' = Msgs
      BY <1>4 DEF Arrive, Msgs
    <2> QED
      BY <2>1, <2>3, <2>4, <2>5 DEF TypeOK, MessageTypes
  <1>5. ASSUME NEW m \in Msgs, HandleMessage(m) PROVE MessageTypes'
    <2>1. UNCHANGED << script, arrived >> /\ Msgs' = Msgs
      BY <1>5 DEF HandleMessage, PreviousFetched, PreviousNotFetched, Checked,
         BodyResolved, ApprovalPosted, ApprovalPostFails, Msgs
    <2>2. CASE PreviousFetched(m)
      <3>1. Pairs(m) => m - 1 \in Msgs
        BY <1>1 DEF Pairs, PairsAnyAuthor, Msgs
      <3>2. Pairs(m) => script[m - 1].req \in Requests
        BY <1>3, <3>1
      <3> QED
        BY <2>1, <2>2, <3>2 DEF TypeOK, MessageTypes, PreviousFetched,
           MessageOver, MessageAwaits
    <2>3. CASE \/ PreviousNotFetched(m) \/ Checked(m) \/ BodyResolved(m)
               \/ ApprovalPosted(m) \/ ApprovalPostFails(m)
      <3>1. /\ \E p \in {"over"} \cup MessageAwaits : mpc' = [mpc EXCEPT ![m] = p]
            /\ target' = target \/ target' = [target EXCEPT ![m] = None]
            /\ \/ UNCHANGED view
               \/ \E s \in {"none", "open"} : view' = [view EXCEPT ![m] = s]
        BY <2>3 DEF PreviousNotFetched, Checked, BodyResolved, ApprovalPosted,
           ApprovalPostFails, MessageTo, MessageOver, MessageAwaits
      <3>2. mpc' \in [Msgs -> {"new", "over"} \cup MessageAwaits]
        BY <3>1 DEF TypeOK
      <3>3. target' \in [Msgs -> Requests \cup {None}]
        BY <3>1 DEF TypeOK
      <3>4. view' \in [Msgs -> {"none", "open", "approved", "rejected"}]
        BY <3>1 DEF TypeOK
      <3> QED
        BY <2>1, <3>2, <3>3, <3>4 DEF TypeOK, MessageTypes
    <2> QED
      BY <1>5, <2>2, <2>3 DEF HandleMessage
  <1>6. ASSUME NEW h \in Handlers, Edited(h) \/ EditFails(h) PROVE MessageTypes'
    <2>1. /\ UNCHANGED << script, arrived, mpc, target >>
          /\ \/ UNCHANGED view
             \/ \E s \in {"approved", "rejected"} :
                   view' = [view EXCEPT ![job[h].msg] = s]
      BY <1>6 DEF Edited, EditFails, Agents
    <2> QED
      BY <2>1 DEF TypeOK, MessageTypes, Msgs
  <1>7. ASSUME NEW h \in Handlers, Owner(h) PROVE MessageTypes'
    BY <1>0, <1>7 DEF Owner, Press, TypeToolresult, TypeCleardirty, Start,
       Agents
  <1>8. ASSUME NEW h \in Handlers, Handle(h) \/ LateInsert(h) PROVE MessageTypes'
    <2>1. CASE \/ Restored(h) \/ BodyRead(h) \/ Completed(h) \/ CompleteFails(h)
               \/ ReplyMade(h) \/ ReplyFails(h) \/ PartSent(h)
               \/ PartSendFails(h) \/ ReplySaved(h) \/ ReplySaveFails(h)
      BY <1>0, <2>1 DEF Restored, BodyRead, Completed, CompleteFails,
         ReplyMade, ReplyFails, PartSent, PartSendFails, ReplySaved,
         ReplySaveFails, Agents
    <2>2. CASE \/ Found(h) \/ FindFails(h) \/ PartErased(h) \/ ChannelGone(h)
               \/ Dropped(h) \/ DropFails(h) \/ LateInsert(h)
      BY <1>0, <2>2 DEF Found, FindFails, PartErased, ChannelGone, Dropped,
         DropFails, LateInsert, Agents
    <2> QED
      BY <1>6, <1>8, <2>1, <2>2 DEF Handle
  <1>9. ASSUME NEW r \in Requests, Expire(r) PROVE MessageTypes'
    BY <1>0, <1>9 DEF Expire, Agents
  <1>10. CASE Crash
    BY <1>10 DEF TypeOK, MessageTypes, Crash, Msgs
  <1>11. CASE UNCHANGED vars
    BY <1>0, <1>11 DEF vars
  <1> QED
    BY <1>4, <1>5, <1>7, <1>8, <1>9, <1>10, <1>11 DEF Next

\* A handler moves on or comes to its end, ...
LEMMA MoveTypes ==
    ASSUME TypeOK, UNCHANGED script, NEW h \in Handlers,
           job' = job \/ job' = [job EXCEPT ![h] = NoJob],
           \/ pc' = pc
           \/ \E p \in HandlerAwaits \cup HandlerEnds : pc' = [pc EXCEPT ![h] = p]
    PROVE  /\ job' \in [Handlers -> Jobs']
           /\ pc' \in [Handlers -> {"idle"} \cup HandlerAwaits \cup HandlerEnds]
  <1>1. Jobs' = Jobs
    BY DEF Jobs
  <1>2. NoJob \in Jobs
    BY NoJobType DEF TypeOK
  <1> HIDE DEF Jobs, NoJob
  <1>3. job' \in [Handlers -> Jobs']
    BY <1>1, <1>2 DEF TypeOK
  <1>4. pc' \in [Handlers -> {"idle"} \cup HandlerAwaits \cup HandlerEnds]
    BY DEF TypeOK
  <1> QED
    BY <1>3, <1>4

\* ... a document changes its state, ...
LEMMA DocTypes ==
    ASSUME TypeOK, NEW v,
           \/ doc' = doc
           \/ \E s \in {"flying", "stored", "lost", "deleted"} :
                 doc' = [doc EXCEPT ![v] = s]
    PROVE  doc' \in [Handlers -> {"none", "flying", "stored", "lost", "deleted"}]
  BY DEF TypeOK

\* ... or a part does.
LEMMA PartTypes ==
    ASSUME TypeOK, NEW v \in Handlers, NEW i,
           NEW s \in {"none", "shown", "stuck", "erased"},
           part' = [part EXCEPT ![v][i] = s]
    PROVE  part' \in [Handlers -> [Parts -> {"none", "shown", "stuck", "erased"}]]
  <1> DEFINE q == [part[v] EXCEPT ![i] = s]
  <1>1. part[v] \in [Parts -> {"none", "shown", "stuck", "erased"}]
    BY DEF TypeOK
  <1>2. q \in [Parts -> {"none", "shown", "stuck", "erased"}]
    BY <1>1
  <1>3. part' = [part EXCEPT ![v] = q]
    BY DEF TypeOK
  <1> HIDE DEF q
  <1> QED
    BY <1>2, <1>3 DEF TypeOK

LEMMA HandlerTypesNext ==
    ASSUME TypeOK, \A g \in Handlers : Delivery(g) /\ Revocation(g),
           UNCHANGED script, [Next]_vars
    PROVE  HandlerTypes'
  <1>j. Jobs' = Jobs
    BY DEF Jobs
  <1>n. NoJob \in Jobs
    BY NoJobType DEF TypeOK
  <1> HIDE DEF Jobs, NoJob
  <1> DEFINE Rest == UNCHANGED << got, at, total, part, crashes >>
  <1>0. ASSUME UNCHANGED << pending, job, pc, got, at, total, part, doc, crashes >>
        PROVE  HandlerTypes'
    BY <1>0, <1>j DEF TypeOK, HandlerTypes
  <1>1. CASE Arrive \/ \E m \in Msgs : HandleMessage(m)
    BY <1>0, <1>1 DEF Arrive, HandleMessage, PreviousFetched,
       PreviousNotFetched, Checked, BodyResolved, ApprovalPosted,
       ApprovalPostFails, Reply
  <1>2. ASSUME NEW h \in Handlers, Owner(h) PROVE HandlerTypes'
    <2>1. PICK j \in Jobs, p \in {"restore", "edit", "body", "find"} : Start(h, j, p)
      BY <1>2, OwnerStarts
    <2> QED
      BY <1>j, <2>1 DEF TypeOK, HandlerTypes, Start, Reply, HandlerAwaits
  \* The steps after which h is somewhere else, with the same parts shown.
  <1>3. ASSUME NEW h \in Handlers, Rest, UNCHANGED << pending, doc >>,
               NEW p \in HandlerAwaits \cup HandlerEnds,
               pc' = [pc EXCEPT ![h] = p],
               UNCHANGED job \/ job' = [job EXCEPT ![h] = NoJob]
        PROVE  HandlerTypes'
    BY <1>3, <1>j, <1>n DEF TypeOK, HandlerTypes
  <1>4. ASSUME NEW h \in Handlers, Handle(h) \/ LateInsert(h) PROVE HandlerTypes'
    <2>0. /\ "complete" \in HandlerAwaits /\ "edit" \in HandlerAwaits
          /\ "reply" \in HandlerAwaits /\ "send" \in HandlerAwaits
          /\ "save" \in HandlerAwaits /\ "drop" \in HandlerAwaits
          /\ "erase" \in HandlerAwaits
          /\ "done" \in HandlerEnds /\ "failed" \in HandlerEnds
      BY DEF HandlerAwaits, HandlerEnds
    <2>1. CASE \/ Restored(h) \/ Edited(h) \/ EditFails(h) \/ BodyRead(h)
               \/ ReplyFails(h) \/ FindFails(h)
      BY <1>3, <2>0, <2>1, AfterIs DEF Restored, Edited, EditFails, BodyRead,
         ReplyFails, FindFails, Goto, Over, Reply
    <2>2. CASE Completed(h) \/ CompleteFails(h)
      <3>1. /\ UNCHANGED << at, total, part, doc, crashes >>
            /\ UNCHANGED job \/ job' = [job EXCEPT ![h] = NoJob]
            /\ \E p \in HandlerAwaits \cup HandlerEnds : pc' = [pc EXCEPT ![h] = p]
            /\ pending' = pending \/ pending' = [pending EXCEPT ![job[h].req] = "completed"]
            /\ \/ UNCHANGED got
               \/ got' = [got EXCEPT ![h] = job[h].req] /\ job[h].req \in Requests
        BY <2>0, <2>2, AfterIs DEF Completed, CompleteFails, Takeable, Goto,
           Over, Reply
      <3>2. pending' \in [Requests -> {"pending", "completed", "expired"}]
        BY <3>1 DEF TypeOK
      <3>3. got' \in [Handlers -> Requests \cup {None}]
        BY <3>1 DEF TypeOK
      <3> QED
        BY <3>1, <3>2, <3>3, MoveTypes DEF TypeOK, HandlerTypes
    <2>3. CASE ReplyMade(h)
      <3>1. PICK n \in Parts :
              /\ total' = [total EXCEPT ![h] = n]
              /\ pc' = [pc EXCEPT ![h] = "send"]
              /\ UNCHANGED << pending, job, got, at, part, doc, crashes >>
        BY <2>3 DEF ReplyMade, Goto
      <3>2. n \in 0 .. MaxParts
        BY BoundsAssumption DEF Parts
      <3> QED
        BY <1>j, <2>0, <3>1, <3>2 DEF TypeOK, HandlerTypes
    <2>4. CASE PartSent(h) \/ PartSendFails(h)
      <3> PICK i \in Nat : i = at[h] + 1
        BY DEF TypeOK
      <3>1. i \in 0 .. MaxParts
        <4>1. at[h] < total[h] /\ at[h] \in 0 .. MaxParts /\ total[h] \in 0 .. MaxParts
          BY <2>4 DEF TypeOK, PartSent, PartSendFails, At, Delivery
        <4> QED
          BY <4>1, BoundsAssumption
      <3>2. /\ UNCHANGED << pending, got, total, crashes >>
            /\ UNCHANGED at \/ at' = [at EXCEPT ![h] = i]
            /\ \E s \in {"none", "shown"} : part' = [part EXCEPT ![h][i] = s]
            /\ UNCHANGED job \/ job' = [job EXCEPT ![h] = NoJob]
            /\ UNCHANGED pc \/ \E p \in HandlerAwaits \cup HandlerEnds :
                                  pc' = [pc EXCEPT ![h] = p]
            /\ UNCHANGED doc \/ doc' = [doc EXCEPT ![h] = "flying"]
        BY <2>0, <2>4 DEF PartSent, PartSendFails, SaveReply, Goto, Over, Reply
      <3>3. at' \in [Handlers -> 0 .. MaxParts]
        BY <3>1, <3>2 DEF TypeOK
      <3>4. part' \in [Handlers -> [Parts -> {"none", "shown", "stuck", "erased"}]]
        <4>1. PICK s \in {"none", "shown"} : part' = [part EXCEPT ![h][i] = s]
          BY <3>2
        <4>2. s \in {"none", "shown", "stuck", "erased"}
          OBVIOUS
        <4> QED
          BY <4>1, <4>2, PartTypes
      <3>5. doc' \in [Handlers -> {"none", "flying", "stored", "lost", "deleted"}]
        BY <3>2, DocTypes
      <3>6. /\ job' \in [Handlers -> Jobs']
            /\ pc' \in [Handlers -> {"idle"} \cup HandlerAwaits \cup HandlerEnds]
        BY <3>2, MoveTypes
      <3> QED
        BY <3>2, <3>3, <3>4, <3>5, <3>6 DEF TypeOK, HandlerTypes
    <2>5. CASE ReplySaved(h) \/ ReplySaveFails(h) \/ LateInsert(h)
      <3>1. /\ Rest /\ UNCHANGED pending
            /\ UNCHANGED job \/ job' = [job EXCEPT ![h] = NoJob]
            /\ UNCHANGED pc \/ \E p \in HandlerAwaits \cup HandlerEnds :
                                  pc' = [pc EXCEPT ![h] = p]
            /\ \E s \in {"stored", "lost"} : doc' = [doc EXCEPT ![h] = s]
        BY <2>0, <2>5 DEF ReplySaved, ReplySaveFails, LateInsert, Over, Reply
      <3> QED
        BY <3>1, MoveTypes, DocTypes DEF TypeOK, HandlerTypes
    <2>6. CASE Found(h)
      <3>1. CASE Over(h, "done")
        BY <1>3, <2>0, <2>6, <3>1 DEF Found, Over, Reply
      <3>2. CASE ~ Over(h, "done")
        <4>1. PICK v \in Handlers :
                /\ job' = [job EXCEPT ![h].doc = v]
                /\ pc' = [pc EXCEPT ![h] = IF Listed(v) > 0 THEN "erase" ELSE "drop"]
          BY <2>6, <3>2 DEF Found
        <4>2. v \in 0 .. NumHandlers
          BY BoundsAssumption DEF Handlers
        <4>3. [job[h] EXCEPT !.doc = v] \in Jobs
          <5>1. job[h] \in Jobs
            BY DEF TypeOK
          <5> QED
            BY <4>2, <5>1 DEF Jobs
        <4>4. job' \in [Handlers -> Jobs]
          <5>1. job' = [job EXCEPT ![h] = [job[h] EXCEPT !.doc = v]]
            BY <4>1 DEF TypeOK
          <5> QED
            BY <4>3, <5>1 DEF TypeOK
        <4>5. /\ Rest /\ UNCHANGED << pending, doc >>
              /\ \E p \in HandlerAwaits \cup HandlerEnds : pc' = [pc EXCEPT ![h] = p]
          BY <2>0, <2>6, <4>1 DEF Found, Reply
        <4> QED
          BY <1>j, <4>4, <4>5 DEF TypeOK, HandlerTypes
      <3> QED
        BY <3>1, <3>2
    <2>7. CASE PartErased(h)
      <3> PICK i \in Nat : i = at[h] + 1
        BY DEF TypeOK
      <3>1. i \in 0 .. MaxParts
        <4>1. pc[h] = "erase" /\ job[h].doc \in Handlers /\ at[h] < Listed(job[h].doc)
          BY <2>7 DEF PartErased, At, Revocation, Revoking
        <4>2. at[h] \in 0 .. MaxParts /\ at[job[h].doc] \in 0 .. MaxParts
          BY <4>1 DEF TypeOK
        <4> QED
          BY <4>1, <4>2, BoundsAssumption DEF Listed
      <3>2. /\ UNCHANGED << pending, job, got, total, doc, crashes >>
            /\ at' = [at EXCEPT ![h] = i]
            /\ job[h].doc \in Handlers
            /\ \E s \in {"erased", "stuck"} : part' = [part EXCEPT ![job[h].doc][i] = s]
            /\ UNCHANGED pc \/ pc' = [pc EXCEPT ![h] = "drop"]
        BY <2>7 DEF PartErased, Goto, Reply, At, Revocation, Revoking
      <3>3. at' \in [Handlers -> 0 .. MaxParts]
        BY <3>1, <3>2 DEF TypeOK
      <3>4. part' \in [Handlers -> [Parts -> {"none", "shown", "stuck", "erased"}]]
        BY <3>2, PartTypes
      <3> QED
        BY <2>0, <3>2, <3>3, <3>4, MoveTypes DEF TypeOK, HandlerTypes
    <2>8. CASE ChannelGone(h)
      <3>1. PICK v \in Handlers : v = job[h].doc
        BY <2>8 DEF ChannelGone, At, Revocation, Revoking
      <3>2. /\ UNCHANGED << pending, job, got, at, total, doc, crashes >>
            /\ part' = [part EXCEPT ![v] =
                    [i \in Parts |-> IF part[v][i] = "shown" THEN "stuck"
                                                            ELSE part[v][i]]]
            /\ pc' = [pc EXCEPT ![h] = "drop"]
        BY <2>8, <3>1 DEF ChannelGone, Goto, Reply, TypeOK
      <3> DEFINE q == [i \in Parts |-> IF part[v][i] = "shown" THEN "stuck"
                                                               ELSE part[v][i]]
      <3>3. q \in [Parts -> {"none", "shown", "stuck", "erased"}]
        BY DEF TypeOK
      <3> HIDE DEF q
      <3>4. part' = [part EXCEPT ![v] = q]
        BY <3>2 DEF q
      <3>5. part' \in [Handlers -> [Parts -> {"none", "shown", "stuck", "erased"}]]
        BY <3>3, <3>4 DEF TypeOK
      <3> QED
        BY <2>0, <3>2, <3>5, MoveTypes DEF TypeOK, HandlerTypes
    <2>9. CASE Dropped(h) \/ DropFails(h)
      <3>1. /\ Rest /\ UNCHANGED pending
            /\ job' = [job EXCEPT ![h] = NoJob]
            /\ \E p \in HandlerAwaits \cup HandlerEnds : pc' = [pc EXCEPT ![h] = p]
            /\ UNCHANGED doc \/ doc' = [doc EXCEPT ![job[h].doc] = "deleted"]
        BY <2>0, <2>9 DEF Dropped, DropFails, Over, Reply
      <3> QED
        BY <3>1, MoveTypes, DocTypes DEF TypeOK, HandlerTypes
    <2> QED
      BY <1>4, <2>1, <2>2, <2>3, <2>4, <2>5, <2>6, <2>7, <2>8, <2>9 DEF Handle
  <1>5. ASSUME NEW r \in Requests, Expire(r) PROVE HandlerTypes'
    BY <1>5, <1>j DEF Expire, Reply, TypeOK, HandlerTypes
  <1>6. CASE Crash
    <2>1. /\ UNCHANGED << pending, got, at, total, part, doc >>
          /\ crashes < MaxCrashes /\ crashes' = crashes + 1
          /\ pc' = [h \in Handlers |->
                IF pc[h] \in HandlerAwaits THEN "failed" ELSE pc[h]]
          /\ job' = [h \in Handlers |-> NoJob]
      BY <1>6 DEF Crash, Reply
    <2>2. crashes' \in 0 .. MaxCrashes
      BY <2>1, BoundsAssumption DEF TypeOK
    <2>3. job' \in [Handlers -> Jobs]
      BY <1>n, <2>1
    <2> QED
      BY <1>j, <2>1, <2>2, <2>3 DEF TypeOK, HandlerTypes, HandlerEnds
  <1>7. CASE UNCHANGED vars
    BY <1>0, <1>7 DEF vars
  <1> QED
    BY <1>1, <1>2, <1>4, <1>5, <1>6, <1>7 DEF Next

-----------------------------------------------------------------------------
(* The theorems.                                                           *)

LEMMA SoundNext == Sound /\ [Next]_vars => Sound'
  <1> SUFFICES ASSUME Sound, [Next]_vars PROVE Sound'
    OBVIOUS
  <1>1. /\ TypeOK /\ Counted
        /\ \A m \in Msgs : Routed(m)
        /\ \A h \in Handlers : Pressed(h)
        /\ \A h \in Handlers : Delivery(h) /\ Revocation(h)
    BY DEF Sound
  <1>2. /\ \A m \in Msgs' : Routed(m)'
        /\ UNCHANGED script /\ ButtonsStay
    BY <1>1, RoutedNext
  <1>3. \A h \in Handlers : Pressed(h)'
    BY <1>1, <1>2, PressedNext
  <1>4. \A h \in Handlers : Delivery(h)' /\ Revocation(h)'
    BY <1>1, DeliveryNext
  <1>5. Counted' /\ clock' \in 0 .. NumHandlers
        /\ stamp' \in [Handlers -> 0 .. clock']
    BY <1>1, CountedNext
  <1>6. MessageTypes'
    BY <1>1, MessageTypesNext
  <1>7. HandlerTypes'
    BY <1>1, <1>2, HandlerTypesNext
  <1>8. TypeOK'
    BY <1>5, <1>6, <1>7 DEF TypeOK, MessageTypes, HandlerTypes
  <1> QED
    BY <1>2, <1>3, <1>4, <1>5, <1>8 DEF Sound

LEMMA SoundHolds == Spec => []Sound
  BY SoundInit, SoundNext, PTL DEF Spec

\* Every variable keeps its type; that no more parts are sent, or tried, than
\* there are, and that there is a time stamp for each reply, needs Sound.
THEOREM TypesHold == Spec => []TypeOK
  <1>1. Sound => TypeOK
    BY DEF Sound
  <1> QED
    BY SoundHolds, <1>1, PTL

\* Whatever agents write in between, the command that the owner approves names
\* the request its agent answered: an attachment goes with the FrontMatter just
\* before it only if both have one author, and then no other is meant.
THEOREM AnswerMatches == Spec => []AnswerMatchesRequest
  <1>1. Sound => AnswerMatchesRequest
    BY DEF Sound, Routed, AnswerMatchesRequest
  <1> QED
    BY SoundHolds, <1>1, PTL

\* A request that a command took and that did not fail has its reply in the
\* history, unless a !cleardirty has taken it back since.
THEOREM TakenIsAnswered == Spec => []CompletedIsAnswered
  <1>1. Sound => CompletedIsAnswered
    BY DEF Sound, Delivery, CompletedIsAnswered
  <1> QED
    BY SoundHolds, <1>1, PTL

\* However many !cleardirty overlap, break off or start again: while a part of
\* a delivered reply is on Discord and none of them failed to delete it, the
\* document that lists it is there for the next one.
THEOREM PartsClearable == Spec => []ShownPartsClearable
  <1>1. Sound => ShownPartsClearable
    <2> SUFFICES ASSUME Sound, NEW h \in Handlers, pc[h] = "done",
                        got[h] # None, NEW i \in Parts,
                        part[h][i] = "shown", ToDiscord(h)
                 PROVE  doc[h] = "stored"
      BY DEF ShownPartsClearable
    <2>1. Delivery(h)
      BY DEF Sound
    <2> QED
      BY <2>1 DEF Delivery, Cleared
  <1> QED
    BY SoundHolds, <1>1, PTL
=============================================================================
