--------------------------- MODULE DispatcherProofs ---------------------------
(***************************************************************************)
(* Proofs that Dispatcher keeps the promises of DispatcherProperties for   *)
(* any number of requests, models, permits and messages, and that the HTTP *)
(* chat handlers, for any number of clients and iterations, keep theirs.   *)
(***************************************************************************)
EXTENDS DispatcherProperties, ChatApi, SequenceTheorems, TLAPS

\* Taking an element out of a sequence leaves a sequence over the same set.
LEMMA WithoutType ==
    ASSUME NEW S, NEW s \in Seq(S), NEW e
    PROVE  Without(s, e) \in Seq(S)
<1>1. ASSUME NEW k \in 1 .. Len(s) PROVE RemoveAt(s, k) \in Seq(S)
  BY DEF RemoveAt
<1>2. CASE \E i \in 1 .. Len(s) : s[i] = e
  <2>1. (CHOOSE i \in 1 .. Len(s) : s[i] = e) \in 1 .. Len(s)
    BY <1>2
  <2> QED
    BY <1>1, <1>2, <2>1 DEF Without
<1>3. CASE ~\E i \in 1 .. Len(s) : s[i] = e
  BY <1>3 DEF Without
<1> QED BY <1>2, <1>3

\* Short sequences, for steps that have many definitions to expand.
LEMMA TailOfOneOrTwo ==
    \A m, n : Tail(<<m>>) = << >> /\ Tail(<<m, n>>) = <<n>> /\ Head(<<m>>) = m /\ Head(<<m, n>>) = m
  OBVIOUS

\* A sequence of one message is not empty.
LEMMA SingletonNotEmpty == \A m : <<m>> # << >>
<1> SUFFICES ASSUME NEW m PROVE <<m>> # << >>
  OBVIOUS
<1>1. Len(<<m>>) = 1 /\ Len(<< >>) = 0
  OBVIOUS
<1> QED BY <1>1

\* A callback that is about to send has exactly one message, of a kind that its
\* next step tells apart.
CallbackLoaded ==
    \A r \in Req : pc[r] = "callback" => out[r] \in {<<Text>>, <<Trigger>>}

\* The initial state is well typed.
LEMMA TypeInit == Init => TypeOK
<1> SUFFICES ASSUME Init PROVE TypeOK
  OBVIOUS
<1>1. << >> \in Seq(Req) /\ << >> \in Seq(Message)
  OBVIOUS
<1>2. Len(<< >>) = 0 /\ 0 <= ChanCap
  BY SizesAssumption
<1> QED
  BY <1>1, <1>2 DEF Init, TypeOK, Phase

\* Every action keeps every variable in its type, given that a callback has its
\* message at hand when it sends.
LEMMA TypeStep == TypeOK /\ CallbackLoaded /\ [Next]_vars => TypeOK'
<1> SUFFICES ASSUME TypeOK, CallbackLoaded, [Next]_vars PROVE TypeOK'
  OBVIOUS
<1> USE SizesAssumption DEF TypeOK, shared, task, stream, history, Phase, InService, Finished
<1>queue. ASSUME NEW r \in Req PROVE Without(semQ, r) \in Seq(Req)
  BY WithoutType
<1>lock. lockQ # << >> => Tail(lockQ) \in Seq(Req)
  OBVIOUS
<1>msg. Text \in Message /\ Trigger \in Message /\ Fragment \in Message
          /\ Error \in Message /\ Done \in Message
  BY DEF Message
<1>pair. <<Error, Done>> \in Seq(Message)
  BY <1>msg
<1>release. ASSUME NEW r \in Req, Release(r)
            PROVE  /\ semQ' \in Seq(Req) /\ lockQ' \in Seq(Req)
                   /\ buf' \in [Req -> {"before", "inside", "past"}]
                   /\ out' \in [Req -> Seq(Message)] /\ made' \in [Req -> Nat]
                   /\ cut' \in [Req -> BOOLEAN] /\ solo' \in [Req -> BOOLEAN]
                   /\ since' \in [Req -> SUBSET Model]
  <2>1. << >> \in Seq(Message)
    OBVIOUS
  <2> QED
    BY <1>queue, <1>lock, <1>release, <2>1 DEF Release, HasLock
<1>deliver. ASSUME NEW r \in Req, NEW m \in Message, Deliver(r, m), CanSend(r)
            PROVE  /\ chan' \in [Req -> Seq(Message)] /\ sent' \in [Req -> Seq(Message)]
                   /\ \A q \in Req : Len(chan'[q]) <= ChanCap
  <2>1. Append(chan[r], m) \in Seq(Message) /\ Append(sent[r], m) \in Seq(Message)
    OBVIOUS
  <2>2. Recorded(sent[r], m) \in Seq(Message)
    BY <2>1 DEF Recorded
  <2>3. Len(Append(chan[r], m)) = Len(chan[r]) + 1 /\ Len(chan[r]) \in Nat
    OBVIOUS
  <2>4. rxOpen[r] => Len(Append(chan[r], m)) <= ChanCap
    BY <1>deliver, <2>3 DEF CanSend
  <2>5. CASE rxOpen[r]
    <3>1. /\ chan' = [chan EXCEPT ![r] = Append(chan[r], m)]
          /\ sent' = [sent EXCEPT ![r] = Recorded(sent[r], m)]
      BY <1>deliver, <2>5 DEF Deliver
    <3> QED
      BY <2>1, <2>2, <2>4, <2>5, <3>1
  <2>6. CASE ~rxOpen[r]
    BY <1>deliver, <2>6 DEF Deliver
  <2> QED BY <2>5, <2>6
<1>calls. ASSUME NEW r \in Req, Calls(r) PROVE made' \in [Req -> Nat]
  BY <1>calls DEF Calls
<1>1. ASSUME NEW r \in Req, DispatchStream(r) PROVE TypeOK'
  BY <1>1 DEF DispatchStream
<1>2. ASSUME NEW r \in Req, AskPermit(r) PROVE TypeOK'
  BY <1>2 DEF AskPermit
<1>3. ASSUME NEW r \in Req, Resolve(r) PROVE TypeOK'
  <2>1. CASE activeModel = None
    BY <1>3, <2>1, <1>pair DEF Resolve
  <2>2. CASE activeModel # None
    BY <1>3, <2>2 DEF Resolve
  <2> QED BY <2>1, <2>2
<1>4. ASSUME NEW r \in Req, AskLock(r) PROVE TypeOK'
  BY <1>4 DEF AskLock
<1>generate. ASSUME NEW r \in Req, Generate(r)
             PROVE  /\ pc' \in [Req -> Phase]
                    /\ semQ' \in Seq(Req) /\ lockQ' \in Seq(Req)
                    /\ buf' \in [Req -> {"before", "inside", "past"}]
                    /\ out' \in [Req -> Seq(Message)] /\ made' \in [Req -> Nat]
                    /\ cut' \in [Req -> BOOLEAN] /\ solo' \in [Req -> BOOLEAN]
                    /\ since' \in [Req -> SUBSET Model]
  <2>1. CASE Panic(r)
    BY <1>release, <2>1 DEF Panic
  <2>2. CASE ~Panic(r)
    BY <1>generate, <2>2 DEF Generate
  <2> QED BY <2>1, <2>2
<1>5. ASSUME NEW r \in Req, ReuseEngine(r) PROVE TypeOK'
  BY <1>5, <1>generate DEF ReuseEngine
<1>6. ASSUME NEW r \in Req, LoadEngine(r) PROVE TypeOK'
  <2>1. /\ cache' \in Req \cup {None} /\ live' \in SUBSET Req
        /\ UNCHANGED <<up, cancel, activeModel, path, chan, sent, rxOpen>>
    BY <1>6 DEF LoadEngine
  <2> QED
    BY <1>6, <2>1, <1>generate DEF LoadEngine
<1>7. ASSUME NEW r \in Req, LoadFails(r) PROVE TypeOK'
  <2>1. /\ cache' \in Req \cup {None} /\ live' \in SUBSET Req
        /\ UNCHANGED <<up, cancel, semQ, lockQ, activeModel, path, buf, made, stream, history>>
    BY <1>7 DEF LoadFails
  <2>2. pc' \in [Req -> Phase] /\ out' \in [Req -> Seq(Message)]
    BY <1>7, <1>pair DEF LoadFails
  <2> QED
    BY <2>1, <2>2
<1>8. ASSUME NEW r \in Req, KernelMissing(r) PROVE TypeOK'
  BY <1>8, <1>release DEF KernelMissing, Panic
<1>9. ASSUME NEW r \in Req, CallbackCancelled(r) PROVE TypeOK'
  <2>1. made' \in [Req -> Nat]
    BY <1>9, <1>calls DEF CallbackCancelled
  <2>2. pc' \in [Req -> Phase] /\ cut' \in [Req -> BOOLEAN]
    BY <1>9 DEF CallbackCancelled
  <2>3. UNCHANGED <<shared, activeModel, path, buf, out, stream, solo, since>>
    BY <1>9 DEF CallbackCancelled
  <2> QED
    BY <2>1, <2>2, <2>3
<1>10. ASSUME NEW r \in Req, CallbackText(r) PROVE TypeOK'
  <2>1. out' \in [Req -> Seq(Message)]
    <3>1. <<Text>> \in Seq(Message)
      BY <1>msg
    <3> QED
      BY <1>10, <3>1 DEF CallbackText
  <2>2. made' \in [Req -> Nat]
    BY <1>10, <1>calls DEF CallbackText
  <2>3. pc' \in [Req -> Phase]
    BY <1>10 DEF CallbackText
  <2>4. UNCHANGED <<shared, activeModel, path, buf, stream, history>>
    BY <1>10 DEF CallbackText
  <2> QED
    BY <2>1, <2>2, <2>3, <2>4
<1>11. ASSUME NEW r \in Req, CallbackHidden(r) PROVE TypeOK'
  BY <1>11 DEF CallbackHidden, Calls
<1>12. ASSUME NEW r \in Req, CallbackCloses(r) PROVE TypeOK'
  <2>1. out' \in [Req -> Seq(Message)]
    <3>1. <<Trigger>> \in Seq(Message)
      BY <1>msg
    <3> QED
      BY <1>12, <3>1 DEF CallbackCloses
  <2>3. made' \in [Req -> Nat]
    BY <1>12, <1>calls DEF CallbackCloses
  <2>4. buf' \in [Req -> {"before", "inside", "past"}] /\ pc' \in [Req -> Phase]
    BY <1>12 DEF CallbackCloses
  <2>2. UNCHANGED <<shared, activeModel, path, stream, history>>
    BY <1>12 DEF CallbackCloses
  <2> QED
    BY <2>1, <2>2, <2>3, <2>4
<1>13. ASSUME NEW r \in Req, CallbackAborts(r) PROVE TypeOK'
  <2>1. UNCHANGED <<cancel, semQ, lockQ, cache, live, activeModel, pc, path, buf,
                    out, stream, history>>
    BY <1>13 DEF CallbackAborts
  <2>2. made' \in [Req -> Nat]
    BY <1>13 DEF CallbackAborts, Calls
  <2>3. up' \in BOOLEAN
    BY <1>13, Zenon DEF CallbackAborts
  <2> QED
    BY <2>1, <2>2, <2>3
<1>head. ASSUME NEW r \in Req, out[r] # << >>
         PROVE  Head(out[r]) \in Message /\ Tail(out[r]) \in Seq(Message)
  BY <1>head
<1>14. ASSUME NEW r \in Req, CallbackSend(r) PROVE TypeOK'
  <2>1. out[r] # << >>
    <3>1. out[r] = <<Text>> \/ out[r] = <<Trigger>>
      BY <1>14, Zenon DEF CallbackSend, CallbackLoaded
    <3> QED
      BY <3>1, SingletonNotEmpty
  <2>2. Deliver(r, Head(out[r])) /\ Head(out[r]) \in Message /\ CanSend(r)
    BY <1>14, <2>1, <1>head DEF CallbackSend
  <2>3. /\ chan' \in [Req -> Seq(Message)] /\ sent' \in [Req -> Seq(Message)]
        /\ \A q \in Req : Len(chan'[q]) <= ChanCap
    BY <2>2, <1>deliver
  <2>4. out' \in [Req -> Seq(Message)] /\ pc' \in [Req -> Phase]
    BY <1>14 DEF CallbackSend
  <2> QED
    BY <1>14, <2>3, <2>4 DEF CallbackSend
<1>15. ASSUME NEW r \in Req, StoreCancel(r) PROVE TypeOK'
  BY <1>15 DEF StoreCancel
<1>16. ASSUME NEW r \in Req, GenerationEnds(r) PROVE TypeOK'
  BY <1>16, <1>msg DEF GenerationEnds
<1>17. ASSUME NEW r \in Req, FinalCheck(r) PROVE TypeOK'
  <2>1. LastMessages(r) \in Seq(Message)
    <3>1. /\ <<Trigger, Done>> \in Seq(Message) /\ <<Fragment, Done>> \in Seq(Message)
          /\ <<Done>> \in Seq(Message)
      BY <1>msg
    <3> QED
      BY <3>1 DEF LastMessages
  <2>2. pc' \in [Req -> Phase] /\ out' \in [Req -> Seq(Message)]
    BY <1>17, <2>1 DEF FinalCheck
  <2>3. UNCHANGED <<shared, activeModel, path, buf, made, stream, history>>
    BY <1>17 DEF FinalCheck
  <2> QED
    BY <2>2, <2>3
<1>18. ASSUME NEW r \in Req, TaskSend(r) PROVE TypeOK'
  BY <1>18, <1>head, <1>deliver DEF TaskSend
<1>19. ASSUME NEW r \in Req, TaskEnds(r) PROVE TypeOK'
  BY <1>19, <1>release DEF TaskEnds
<1>20. ASSUME NEW r \in Req, Receive(r) PROVE TypeOK'
  <2>1. Len(Tail(chan[r])) <= ChanCap /\ Tail(chan[r]) \in Seq(Message)
    BY <1>20 DEF Receive
  <2> QED
    BY <1>20, <2>1 DEF Receive
<1>21. ASSUME NEW r \in Req, HangUp(r) PROVE TypeOK'
  <2>1. Len(<< >>) <= ChanCap /\ << >> \in Seq(Message)
    OBVIOUS
  <2> QED
    BY <1>21, <2>1 DEF HangUp
<1>22. ASSUME NEW m \in Model \cup {None}, SwitchModel(m) PROVE TypeOK'
  BY <1>22 DEF SwitchModel
<1>23. CASE UNCHANGED vars
  BY <1>23 DEF vars
<1> HIDE DEF TypeOK, shared, task, stream, history, Phase, InService, Finished
<1> QED
  BY <1>1, <1>2, <1>3, <1>4, <1>5, <1>6, <1>7, <1>8, <1>9, <1>10, <1>11, <1>12,
     <1>13, <1>14, <1>15, <1>16, <1>17, <1>18, <1>19, <1>20, <1>21, <1>22, <1>23
     DEF Next, Task

-----------------------------------------------------------------------------
(* The engine.                                                             *)

\* A task in service holds the engine mutex, and the engine behind it is the
\* one of its own path; the request that loaded the cached engine never loads
\* another one; and no other engine exists.
EngineInv ==
    /\ \A r \in Req : pc[r] \in InService => HasLock(r) /\ CacheHit(r)
    /\ cache # None => pc[cache] \in InService \cup {"closing"} \cup Finished
    /\ live = {cache} \ {None}

\* No engine exists at first.
LEMMA EngineInit == Init => EngineInv
  BY DEF Init, EngineInv, InService

\* Taking, queueing for and releasing the mutex, loading and freeing keep the
\* engine with its holder.
LEMMA EngineStep == TypeOK /\ EngineInv /\ [Next]_vars => EngineInv'
<1> SUFFICES ASSUME TypeOK, EngineInv, [Next]_vars PROVE EngineInv'
  OBVIOUS
<1> USE NoneAssumption DEF TypeOK, EngineInv, HasLock, CacheHit, Phase, InService, Finished,
        shared, task, stream, history
<1>1. ASSUME NEW r \in Req, DispatchStream(r) PROVE EngineInv'
  BY <1>1 DEF DispatchStream
<1>2. ASSUME NEW r \in Req, AskPermit(r) PROVE EngineInv'
  BY <1>2 DEF AskPermit
<1>3. ASSUME NEW r \in Req, Resolve(r) PROVE EngineInv'
  <2>1. \A q \in Req : pc'[q] \in InService => pc[q] \in InService /\ path'[q] = path[q]
    BY <1>3 DEF Resolve
  <2>2. cache # None => cache # r /\ path'[cache] = path[cache] /\ pc'[cache] = pc[cache]
    BY <1>3 DEF Resolve
  <2>3. UNCHANGED <<lockQ, cache, live>>
    BY <1>3 DEF Resolve
  <2> QED
    BY <2>1, <2>2, <2>3
<1>4. ASSUME NEW r \in Req, AskLock(r) PROVE EngineInv'
  <2>1. lockQ # << >> => lockQ' # << >> /\ Head(lockQ') = Head(lockQ)
    <3>1. lockQ' = Append(lockQ, r) /\ lockQ \in Seq(Req)
      BY <1>4 DEF AskLock
    <3> HIDE DEF TypeOK
    <3> QED
      BY <3>1, HeadTailAppend, AppendProperties
  <2>2. \A q \in Req : pc'[q] \in InService => pc[q] \in InService
    BY <1>4 DEF AskLock
  <2>3. cache # None => cache # r /\ pc'[cache] = pc[cache]
    BY <1>4 DEF AskLock
  <2>4. UNCHANGED <<path, cache, live>>
    BY <1>4 DEF AskLock
  <2> QED
    BY <2>1, <2>2, <2>3, <2>4
<1>5. ASSUME NEW r \in Req, ReuseEngine(r) PROVE EngineInv'
  <2>1. /\ pc[r] = "waiting" /\ HasLock(r) /\ CacheHit(r) /\ Generate(r)
        /\ UNCHANGED <<path, cache, live>>
    BY <1>5 DEF ReuseEngine
  <2>2. \A q \in Req : pc[q] \notin InService
    BY <2>1
  <2>3. CASE Panic(r)
    <3>1. pc' = [pc EXCEPT ![r] = "panicked"]
      BY <2>3 DEF Panic
    <3> QED
      BY <2>1, <2>2, <3>1
  <2>4. CASE ~Panic(r)
    <3>1. pc' = [pc EXCEPT ![r] = "generating"] /\ UNCHANGED lockQ
      BY <2>1, <2>4 DEF Generate
    <3> QED
      BY <2>1, <2>2, <3>1
  <2> QED BY <2>3, <2>4
<1>6. ASSUME NEW r \in Req, LoadEngine(r) PROVE EngineInv'
  <2>1. ASSUME NEW q \in Req PROVE pc[q] \notin InService
    <3>1. pc[r] = "waiting" /\ HasLock(r) /\ ~CacheHit(r)
      BY <1>6 DEF LoadEngine
    <3>2. pc[q] \in InService => q = r
      BY <3>1
    <3> QED
      BY <3>1, <3>2
  <2>2. cache' = r /\ live' = {r} /\ r # None /\ path' = path
    BY <1>6 DEF LoadEngine
  <2>3. pc'[r] \in {"generating", "panicked"}
    BY <1>6 DEF LoadEngine, Generate, Panic
  <2>4. \A q \in Req : pc'[q] \in InService => q = r
    BY <1>6, <2>1 DEF LoadEngine, Generate, Panic
  <2>5. pc'[r] = "generating" => lockQ' = lockQ
    BY <1>6 DEF LoadEngine, Generate, Panic
  <2>6. HasLock(r)
    BY <1>6 DEF LoadEngine
  <2> QED
    BY <2>2, <2>3, <2>4, <2>5, <2>6
<1>7. ASSUME NEW r \in Req, LoadFails(r) PROVE EngineInv'
  BY <1>7 DEF LoadFails
<1>8. ASSUME NEW r \in Req, KernelMissing(r) PROVE EngineInv'
  BY <1>8 DEF KernelMissing, Panic, Release
<1>9. ASSUME NEW r \in Req, CallbackCancelled(r) PROVE EngineInv'
  BY <1>9 DEF CallbackCancelled, Calls
<1>10. ASSUME NEW r \in Req, CallbackText(r) PROVE EngineInv'
  BY <1>10 DEF CallbackText, Calls
<1>11. ASSUME NEW r \in Req, CallbackHidden(r) PROVE EngineInv'
  BY <1>11 DEF CallbackHidden, Calls
<1>12. ASSUME NEW r \in Req, CallbackCloses(r) PROVE EngineInv'
  BY <1>12 DEF CallbackCloses, Calls
<1>13. ASSUME NEW r \in Req, CallbackAborts(r) PROVE EngineInv'
  BY <1>13 DEF CallbackAborts, Calls
<1>14. ASSUME NEW r \in Req, CallbackSend(r) PROVE EngineInv'
  BY <1>14 DEF CallbackSend
<1>15. ASSUME NEW r \in Req, StoreCancel(r) PROVE EngineInv'
  BY <1>15 DEF StoreCancel
<1>16. ASSUME NEW r \in Req, GenerationEnds(r) PROVE EngineInv'
  BY <1>16 DEF GenerationEnds
<1>17. ASSUME NEW r \in Req, FinalCheck(r) PROVE EngineInv'
  BY <1>17 DEF FinalCheck, LastMessages
<1>18. ASSUME NEW r \in Req, TaskSend(r) PROVE EngineInv'
  BY <1>18 DEF TaskSend
<1>19. ASSUME NEW r \in Req, TaskEnds(r) PROVE EngineInv'
  BY <1>19 DEF TaskEnds, Release
<1>20. ASSUME NEW r \in Req, Receive(r) PROVE EngineInv'
  BY <1>20 DEF Receive
<1>21. ASSUME NEW r \in Req, HangUp(r) PROVE EngineInv'
  BY <1>21 DEF HangUp
<1>22. ASSUME NEW m \in Model \cup {None}, SwitchModel(m) PROVE EngineInv'
  BY <1>22 DEF SwitchModel
<1>23. CASE UNCHANGED vars
  BY <1>23 DEF vars
<1> HIDE DEF TypeOK, shared, task, stream, history, Phase, InService, Finished
<1> QED
  BY <1>1, <1>2, <1>3, <1>4, <1>5, <1>6, <1>7, <1>8, <1>9, <1>10, <1>11, <1>12,
     <1>13, <1>14, <1>15, <1>16, <1>17, <1>18, <1>19, <1>20, <1>21, <1>22, <1>23
     DEF Next, Task

-----------------------------------------------------------------------------
(* The model.                                                              *)

\* The configured model is among those that a request in progress may run on,
\* and so is the one it resolved.
SinceInv ==
    \A r \in Req :
      /\ InProgress(r) /\ activeModel # None => activeModel \in since[r]
      /\ pc[r] \in {"resolved", "waiting"} \cup InService => path[r] \in since[r]

\* No request has resolved a model at first.
LEMMA SinceInit == Init => SinceInv
  BY DEF Init, SinceInv, InService, Finished, InProgress

\* A request keeps up with the models configured while it is in progress.
LEMMA SinceStep == TypeOK /\ SinceInv /\ [Next]_vars => SinceInv'
<1> SUFFICES ASSUME TypeOK, SinceInv, [Next]_vars PROVE SinceInv'
  OBVIOUS
<1> USE NoneAssumption DEF TypeOK, SinceInv, Phase, InService, Finished, InProgress,
        shared, task, stream, history
<1>1. ASSUME NEW r \in Req, DispatchStream(r) PROVE SinceInv'
  BY <1>1 DEF DispatchStream
<1>2. ASSUME NEW r \in Req, AskPermit(r) PROVE SinceInv'
  BY <1>2 DEF AskPermit
<1>3. ASSUME NEW r \in Req, Resolve(r) PROVE SinceInv'
  <2>1. \A q \in Req : q # r => pc'[q] = pc[q] /\ path'[q] = path[q]
    BY <1>3 DEF Resolve
  <2>2. pc[r] = "queued" /\ UNCHANGED <<activeModel, since>>
    BY <1>3 DEF Resolve
  <2>3. CASE activeModel = None
    <3>1. pc' = [pc EXCEPT ![r] = "closing"]
      BY <1>3, <2>3, Zenon DEF Resolve
    <3>2. pc'[r] = "closing"
      BY <3>1
    <3> QED
      BY <2>1, <2>2, <3>2
  <2>4. CASE activeModel # None
    <3>1. pc'[r] = "resolved" /\ path'[r] = activeModel
      BY <1>3, <2>4 DEF Resolve
    <3> QED
      BY <2>1, <2>2, <2>4, <3>1
  <2> QED BY <2>3, <2>4
<1>4. ASSUME NEW r \in Req, AskLock(r) PROVE SinceInv'
  BY <1>4 DEF AskLock
<1>generate. ASSUME NEW r \in Req, pc[r] = "waiting", UNCHANGED <<activeModel, path>>, Generate(r)
             PROVE  SinceInv'
  <2>1. CASE Panic(r)
    BY <1>generate, <2>1 DEF Panic, Release
  <2>2. CASE pc' = [pc EXCEPT ![r] = "generating"] /\ UNCHANGED since
    BY <1>generate, <2>2
  <2> QED
    BY <1>generate, <2>1, <2>2 DEF Generate
<1>5. ASSUME NEW r \in Req, ReuseEngine(r) PROVE SinceInv'
  BY <1>5, <1>generate DEF ReuseEngine
<1>6. ASSUME NEW r \in Req, LoadEngine(r) PROVE SinceInv'
  BY <1>6, <1>generate DEF LoadEngine
<1>7. ASSUME NEW r \in Req, LoadFails(r) PROVE SinceInv'
  BY <1>7 DEF LoadFails
<1>8. ASSUME NEW r \in Req, KernelMissing(r) PROVE SinceInv'
  BY <1>8 DEF KernelMissing, Panic, Release
<1>9. ASSUME NEW r \in Req, CallbackCancelled(r) PROVE SinceInv'
  BY <1>9 DEF CallbackCancelled, Calls
<1>10. ASSUME NEW r \in Req, CallbackText(r) PROVE SinceInv'
  BY <1>10 DEF CallbackText, Calls
<1>11. ASSUME NEW r \in Req, CallbackHidden(r) PROVE SinceInv'
  BY <1>11 DEF CallbackHidden, Calls
<1>12. ASSUME NEW r \in Req, CallbackCloses(r) PROVE SinceInv'
  BY <1>12 DEF CallbackCloses, Calls
<1>13. ASSUME NEW r \in Req, CallbackAborts(r) PROVE SinceInv'
  BY <1>13 DEF CallbackAborts, Calls
<1>14. ASSUME NEW r \in Req, CallbackSend(r) PROVE SinceInv'
  BY <1>14 DEF CallbackSend
<1>15. ASSUME NEW r \in Req, StoreCancel(r) PROVE SinceInv'
  BY <1>15 DEF StoreCancel
<1>16. ASSUME NEW r \in Req, GenerationEnds(r) PROVE SinceInv'
  BY <1>16 DEF GenerationEnds
<1>17. ASSUME NEW r \in Req, FinalCheck(r) PROVE SinceInv'
  BY <1>17 DEF FinalCheck, LastMessages
<1>18. ASSUME NEW r \in Req, TaskSend(r) PROVE SinceInv'
  BY <1>18 DEF TaskSend
<1>19. ASSUME NEW r \in Req, TaskEnds(r) PROVE SinceInv'
  BY <1>19 DEF TaskEnds, Release
<1>20. ASSUME NEW r \in Req, Receive(r) PROVE SinceInv'
  BY <1>20 DEF Receive
<1>21. ASSUME NEW r \in Req, HangUp(r) PROVE SinceInv'
  BY <1>21 DEF HangUp
<1>22. ASSUME NEW m \in Model \cup {None}, SwitchModel(m) PROVE SinceInv'
  BY <1>22 DEF SwitchModel
<1>23. CASE UNCHANGED vars
  BY <1>23 DEF vars
<1> HIDE DEF TypeOK, shared, task, stream, history, Phase, InService, Finished
<1> QED
  BY <1>1, <1>2, <1>3, <1>4, <1>5, <1>6, <1>7, <1>8, <1>9, <1>10, <1>11, <1>12,
     <1>13, <1>14, <1>15, <1>16, <1>17, <1>18, <1>19, <1>20, <1>21, <1>22, <1>23
     DEF Next, Task

-----------------------------------------------------------------------------
(* The stream.                                                             *)

\* What a task has left to send, by where it is.
OutShape ==
    \A r \in Req :
      out[r] \in CASE pc[r] = "callback" -> {<<Text>>, <<Trigger>>}
                   [] pc[r] = "returned" -> {<< >>, <<Error>>}
                   [] pc[r] = "closing"  -> {<< >>, <<Done>>, <<Error, Done>>,
                                             <<Trigger, Done>>, <<Fragment, Done>>}
                   [] OTHER -> {<< >>}

\* Nothing is left to send at first.
LEMMA OutInit == Init => OutShape
  BY DEF Init, OutShape

\* Every step leaves a task with the messages its place allows.
LEMMA OutStep == TypeOK /\ OutShape /\ [Next]_vars => OutShape'
<1> SUFFICES ASSUME TypeOK, OutShape, [Next]_vars PROVE OutShape'
  OBVIOUS
<1> USE DEF TypeOK, OutShape, Phase, InService, Finished, shared, task, stream, history
<1>panic. ASSUME NEW r \in Req, Panic(r) PROVE OutShape'
  <2>1. \A q \in Req : q # r => out'[q] = out[q] /\ pc'[q] = pc[q]
    BY <1>panic DEF Panic, Release
  <2>2. out'[r] = << >> /\ pc'[r] = "panicked"
    BY <1>panic DEF Panic, Release
  <2> QED
    BY <2>1, <2>2
<1>generate. ASSUME NEW r \in Req, pc[r] = "waiting", Generate(r) PROVE OutShape'
  <2>1. CASE Panic(r)
    BY <2>1, <1>panic
  <2>2. CASE ~Panic(r)
    BY <1>generate, <2>2 DEF Generate
  <2> QED BY <2>1, <2>2
<1>1. ASSUME NEW r \in Req, DispatchStream(r) PROVE OutShape'
  BY <1>1 DEF DispatchStream
<1>2. ASSUME NEW r \in Req, AskPermit(r) PROVE OutShape'
  BY <1>2 DEF AskPermit
<1>3. ASSUME NEW r \in Req, Resolve(r) PROVE OutShape'
  <2>1. CASE activeModel = None
    <3>1. out' = [out EXCEPT ![r] = <<Error, Done>>] /\ pc' = [pc EXCEPT ![r] = "closing"]
      BY <1>3, <2>1 DEF Resolve
    <3> QED
      BY <3>1
  <2>2. CASE activeModel # None
    BY <1>3, <2>2 DEF Resolve
  <2> QED BY <2>1, <2>2
<1>4. ASSUME NEW r \in Req, AskLock(r) PROVE OutShape'
  BY <1>4 DEF AskLock
<1>5. ASSUME NEW r \in Req, ReuseEngine(r) PROVE OutShape'
  BY <1>5, <1>generate DEF ReuseEngine
<1>6. ASSUME NEW r \in Req, LoadEngine(r) PROVE OutShape'
  BY <1>6, <1>generate DEF LoadEngine
<1>7. ASSUME NEW r \in Req, LoadFails(r) PROVE OutShape'
  <2>1. \A q \in Req : q # r => out'[q] = out[q] /\ pc'[q] = pc[q]
    BY <1>7 DEF LoadFails
  <2>2. out'[r] = <<Error, Done>> /\ pc'[r] = "closing"
    BY <1>7 DEF LoadFails
  <2> QED
    BY <2>1, <2>2
<1>8. ASSUME NEW r \in Req, KernelMissing(r) PROVE OutShape'
  BY <1>8, <1>panic DEF KernelMissing
<1>9. ASSUME NEW r \in Req, CallbackCancelled(r) PROVE OutShape'
  BY <1>9 DEF CallbackCancelled, Calls
<1>10. ASSUME NEW r \in Req, CallbackText(r) PROVE OutShape'
  BY <1>10 DEF CallbackText, Calls
<1>11. ASSUME NEW r \in Req, CallbackHidden(r) PROVE OutShape'
  BY <1>11 DEF CallbackHidden, Calls
<1>12. ASSUME NEW r \in Req, CallbackCloses(r) PROVE OutShape'
  BY <1>12 DEF CallbackCloses, Calls
<1>13. ASSUME NEW r \in Req, CallbackAborts(r) PROVE OutShape'
  BY <1>13 DEF CallbackAborts, Calls
<1>14. ASSUME NEW r \in Req, CallbackSend(r) PROVE OutShape'
  BY <1>14 DEF CallbackSend
<1>15. ASSUME NEW r \in Req, StoreCancel(r) PROVE OutShape'
  BY <1>15 DEF StoreCancel
<1>16. ASSUME NEW r \in Req, GenerationEnds(r) PROVE OutShape'
  BY <1>16 DEF GenerationEnds
<1>17. ASSUME NEW r \in Req, FinalCheck(r) PROVE OutShape'
  BY <1>17 DEF FinalCheck, LastMessages
<1>18. ASSUME NEW r \in Req, TaskSend(r) PROVE OutShape'
  <2>1. out'[r] = Tail(out[r]) /\ pc' = pc /\ \A q \in Req : q # r => out'[q] = out[q]
    BY <1>18 DEF TaskSend
  <2>2. CASE pc[r] = "returned"
    <3>1. out[r] = <<Error>>
      BY <1>18, <2>2 DEF TaskSend
    <3>2. out'[r] = << >>
      BY <2>1, <3>1, Tail(<<Error>>) = << >>
    <3> QED
      BY <2>1, <2>2, <3>2
  <2>3. CASE pc[r] = "closing"
    <3>1. out[r] = <<Done>> \/ \E m \in Message : out[r] = <<m, Done>>
      BY <1>18, <2>3 DEF TaskSend, Message
    <3>2. Tail(<<Done>>) = << >> /\ \A m \in Message : Tail(<<m, Done>>) = <<Done>>
      BY TailOfOneOrTwo
    <3>3. out'[r] = << >> \/ out'[r] = <<Done>>
      BY <2>1, <3>1, <3>2
    <3> QED
      BY <2>1, <2>3, <3>3
  <2> QED
    BY <1>18, <2>2, <2>3 DEF TaskSend
<1>19. ASSUME NEW r \in Req, TaskEnds(r) PROVE OutShape'
  BY <1>19 DEF TaskEnds, Release
<1>20. ASSUME NEW r \in Req, Receive(r) PROVE OutShape'
  BY <1>20 DEF Receive
<1>21. ASSUME NEW r \in Req, HangUp(r) PROVE OutShape'
  BY <1>21 DEF HangUp
<1>22. ASSUME NEW m \in Model \cup {None}, SwitchModel(m) PROVE OutShape'
  BY <1>22 DEF SwitchModel
<1>23. CASE UNCHANGED vars
  BY <1>23 DEF vars
<1> HIDE DEF TypeOK, shared, task, stream, history, Phase, InService, Finished
<1> QED
  BY <1>1, <1>2, <1>3, <1>4, <1>5, <1>6, <1>7, <1>8, <1>9, <1>10, <1>11, <1>12,
     <1>13, <1>14, <1>15, <1>16, <1>17, <1>18, <1>19, <1>20, <1>21, <1>22, <1>23
     DEF Next, Task

\* Where "[DONE]" is in a stream.
NoDone(log) == \A i \in 1 .. Len(log) : log[i] # Done
DoneLast(log) == \A i \in 1 .. Len(log) : log[i] = Done => i = Len(log)

\* Recording another message brings no "[DONE]" into a stream.
LEMMA RecordedOther ==
    ASSUME NEW log \in Seq(Message), NEW m \in Message, m # Done, NoDone(log)
    PROVE  NoDone(Recorded(log, m))
<1>1. \A i \in 1 .. Len(Append(log, m)) : i \in 1 .. Len(log) \/ i = Len(log) + 1
  BY AppendProperties
<1>2. NoDone(Append(log, m))
  BY <1>1, AppendProperties DEF NoDone
<1> QED
  BY <1>2 DEF Recorded

\* Recording the first "[DONE]" makes it the last message.
LEMMA RecordedDone ==
    ASSUME NEW log \in Seq(Message), NoDone(log)
    PROVE  /\ DoneLast(Recorded(log, Done)) /\ Recorded(log, Done) # << >>
           /\ Recorded(log, Done)[Len(Recorded(log, Done))] = Done
<1>1. Recorded(log, Done) = Append(log, Done) /\ Done \in Message
  BY DEF Recorded, Done, Text, Message
<1>2. Len(Append(log, Done)) = Len(log) + 1 /\ Append(log, Done)[Len(log) + 1] = Done
  BY <1>1, AppendProperties
<1>3. \A i \in 1 .. Len(log) : Append(log, Done)[i] # Done
  BY <1>1, AppendProperties DEF NoDone
<1>4. Append(log, Done) # << >>
  BY <1>1, AppendProperties
<1>5. DoneLast(Append(log, Done))
  BY <1>2, <1>3 DEF DoneLast
<1> QED
  BY <1>1, <1>2, <1>4, <1>5

\* "[DONE]" is sent when the messages of a closing task are all sent, never
\* before, and nothing follows it.
StreamInv ==
    \A r \in Req :
      /\ DoneLast(sent[r])
      /\ (pc[r] \notin {"closing", "ended"} \/ out[r] # << >>) => NoDone(sent[r])
      /\ pc[r] \in {"closing", "ended"} /\ out[r] = << >> /\ rxOpen[r] =>
           sent[r] # << >> /\ sent[r][Len(sent[r])] = Done

\* Every stream is empty at first.
LEMMA StreamInit == Init => StreamInv
<1> SUFFICES ASSUME Init PROVE StreamInv
  OBVIOUS
<1>1. NoDone(<< >>) /\ DoneLast(<< >>)
  BY DEF NoDone, DoneLast
<1> QED
  BY <1>1 DEF Init, StreamInv

\* Every step keeps "[DONE]" at the end of its stream.
LEMMA StreamStep == TypeOK /\ OutShape /\ StreamInv /\ [Next]_vars => StreamInv'
<1> SUFFICES ASSUME TypeOK, OutShape, StreamInv, [Next]_vars PROVE StreamInv'
  OBVIOUS
<1> USE DEF TypeOK, StreamInv, Phase, InService, Finished, shared, task, stream, history
<1>1. ASSUME NEW r \in Req, DispatchStream(r) PROVE StreamInv'
  BY <1>1 DEF DispatchStream
<1>2. ASSUME NEW r \in Req, AskPermit(r) PROVE StreamInv'
  BY <1>2 DEF AskPermit
<1>3. ASSUME NEW r \in Req, Resolve(r) PROVE StreamInv'
  <2>1. /\ UNCHANGED <<sent, rxOpen>> /\ pc[r] = "queued"
        /\ \A q \in Req : q # r => pc'[q] = pc[q] /\ out'[q] = out[q]
    BY <1>3 DEF Resolve
  <2>2. CASE activeModel = None
    <3>1. out'[r] = <<Error, Done>> /\ pc'[r] = "closing"
      BY <1>3, <2>2 DEF Resolve
    <3>2. out'[r] # << >>
      BY <3>1, Len(<< >>) = 0, Len(<<Error, Done>>) = 2
    <3> QED
      BY <2>1, <3>1, <3>2
  <2>3. CASE activeModel # None
    <3>1. pc'[r] = "resolved"
      BY <1>3, <2>3 DEF Resolve
    <3> QED
      BY <2>1, <3>1
  <2> QED BY <2>2, <2>3
<1>4. ASSUME NEW r \in Req, AskLock(r) PROVE StreamInv'
  BY <1>4 DEF AskLock
<1>5. ASSUME NEW r \in Req, ReuseEngine(r) PROVE StreamInv'
  <2>1. UNCHANGED <<sent, rxOpen>> /\ pc[r] = "waiting"
    BY <1>5 DEF ReuseEngine
  <2>2. \A q \in Req : q # r => pc'[q] = pc[q] /\ out'[q] = out[q]
    BY <1>5 DEF ReuseEngine, Generate, Panic, Release
  <2>3. pc'[r] \notin {"closing", "ended"}
    BY <1>5 DEF ReuseEngine, Generate, Panic, Release
  <2> QED
    BY <2>1, <2>2, <2>3
<1>6. ASSUME NEW r \in Req, LoadEngine(r) PROVE StreamInv'
  <2>1. UNCHANGED <<sent, rxOpen>> /\ pc[r] = "waiting"
    BY <1>6 DEF LoadEngine
  <2>2. \A q \in Req : q # r => pc'[q] = pc[q] /\ out'[q] = out[q]
    BY <1>6 DEF LoadEngine, Generate, Panic, Release
  <2>3. pc'[r] \notin {"closing", "ended"}
    BY <1>6 DEF LoadEngine, Generate, Panic, Release
  <2> QED
    BY <2>1, <2>2, <2>3
<1>7. ASSUME NEW r \in Req, LoadFails(r) PROVE StreamInv'
  <2>1. /\ UNCHANGED <<sent, rxOpen>> /\ pc'[r] = "closing"
        /\ pc[r] \notin {"closing", "ended"}
        /\ \A q \in Req : q # r => pc'[q] = pc[q] /\ out'[q] = out[q]
    BY <1>7 DEF LoadFails
  <2>2. out'[r] # << >>
    <3>1. \A m : <<m, Done>> # << >> /\ <<m>> # << >>
      BY SingletonNotEmpty, Len(<< >>) = 0, \A m : Len(<<m, Done>>) = 2
    <3> QED
      BY <1>7, <3>1 DEF LoadFails
  <2> QED
    BY <2>1, <2>2
<1>8. ASSUME NEW r \in Req, KernelMissing(r) PROVE StreamInv'
  <2>1. UNCHANGED <<sent, rxOpen>> /\ pc[r] = "waiting"
    BY <1>8 DEF KernelMissing
  <2>2. \A q \in Req : q # r => pc'[q] = pc[q] /\ out'[q] = out[q]
    BY <1>8 DEF KernelMissing, Generate, Panic, Release
  <2>3. pc'[r] \notin {"closing", "ended"}
    BY <1>8 DEF KernelMissing, Generate, Panic, Release
  <2> QED
    BY <2>1, <2>2, <2>3
<1>9. ASSUME NEW r \in Req, CallbackCancelled(r) PROVE StreamInv'
  BY <1>9 DEF CallbackCancelled, Calls
<1>10. ASSUME NEW r \in Req, CallbackText(r) PROVE StreamInv'
  BY <1>10 DEF CallbackText, Calls
<1>11. ASSUME NEW r \in Req, CallbackHidden(r) PROVE StreamInv'
  BY <1>11 DEF CallbackHidden, Calls
<1>12. ASSUME NEW r \in Req, CallbackCloses(r) PROVE StreamInv'
  BY <1>12 DEF CallbackCloses, Calls
<1>13. ASSUME NEW r \in Req, CallbackAborts(r) PROVE StreamInv'
  BY <1>13 DEF CallbackAborts, Calls
<1>14. ASSUME NEW r \in Req, CallbackSend(r) PROVE StreamInv'
  <2>1. PICK m \in {Text, Trigger} : out[r] = <<m>>
    BY <1>14 DEF CallbackSend, OutShape
  <2>2. Head(out[r]) = m /\ m # Done
    BY <2>1 DEF Text, Trigger, Done
  <2>3. NoDone(sent[r])
    BY <1>14 DEF CallbackSend
  <2>4. NoDone(Recorded(sent[r], m))
    BY <2>1, <2>2, <2>3, RecordedOther DEF Message
  <2>5. /\ NoDone(sent'[r]) /\ rxOpen' = rxOpen
        /\ \A q \in Req : q # r => sent'[q] = sent[q] /\ out'[q] = out[q] /\ pc'[q] = pc[q]
    BY <1>14, <2>2, <2>3, <2>4 DEF CallbackSend, Deliver
  <2>6. pc'[r] \notin {"closing", "ended"}
    BY <1>14 DEF CallbackSend
  <2>7. DoneLast(sent'[r])
    BY <2>5 DEF NoDone, DoneLast
  <2> QED
    BY <2>5, <2>6, <2>7
<1>15. ASSUME NEW r \in Req, StoreCancel(r) PROVE StreamInv'
  BY <1>15 DEF StoreCancel
<1>16. ASSUME NEW r \in Req, GenerationEnds(r) PROVE StreamInv'
  BY <1>16 DEF GenerationEnds
<1>17. ASSUME NEW r \in Req, FinalCheck(r) PROVE StreamInv'
  <2>1. /\ UNCHANGED <<sent, rxOpen>> /\ pc'[r] = "closing"
        /\ pc[r] \notin {"closing", "ended"}
        /\ \A q \in Req : q # r => pc'[q] = pc[q] /\ out'[q] = out[q]
    BY <1>17 DEF FinalCheck
  <2>2. out'[r] # << >>
    <3>1. \A m : <<m, Done>> # << >> /\ <<m>> # << >>
      BY SingletonNotEmpty, Len(<< >>) = 0, \A m : Len(<<m, Done>>) = 2
    <3> QED
      BY <1>17, <3>1 DEF FinalCheck, LastMessages
  <2> QED
    BY <2>1, <2>2
<1>18. ASSUME NEW r \in Req, TaskSend(r) PROVE StreamInv'
  <2>1. /\ NoDone(sent[r]) /\ UNCHANGED <<pc, rxOpen>> /\ pc[r] \in {"returned", "closing"}
        /\ out[r] # << >> /\ out'[r] = Tail(out[r])
        /\ \A q \in Req : q # r => sent'[q] = sent[q] /\ out'[q] = out[q]
    BY <1>18 DEF TaskSend, Deliver
  <2>2. sent'[r] = IF rxOpen[r] THEN Recorded(sent[r], Head(out[r])) ELSE sent[r]
    BY <1>18 DEF TaskSend, Deliver
  <2>3. CASE out[r] = <<Done>>
    <3>1. Head(out[r]) = Done /\ out'[r] = << >>
      BY <2>1, <2>3, TailOfOneOrTwo
    <3>2. DoneLast(sent'[r]) /\ (rxOpen[r] => sent'[r] # << >> /\ sent'[r][Len(sent'[r])] = Done)
      BY <2>1, <2>2, <3>1, RecordedDone DEF DoneLast, NoDone
    <3>3. pc[r] = "closing"
      <4>1. pc[r] = "returned" => out[r] \in {<< >>, <<Error>>}
        BY DEF OutShape
      <4>2. <<Done>> # <<Error>>
        <5>1. <<Done>>[1] # <<Error>>[1]
          BY DEF Error, Done
        <5> QED BY <5>1
      <4> QED
        BY <2>1, <2>3, <4>1, <4>2
    <3> QED
      BY <2>1, <3>1, <3>2, <3>3
  <2>4. CASE out[r] # <<Done>>
    <3>1. PICK m \in {Error, Trigger, Fragment} :
             \/ out[r] = <<m>> /\ pc[r] = "returned"
             \/ out[r] = <<m, Done>> /\ pc[r] = "closing"
      <4>1. pc[r] = "returned" => out[r] \in {<< >>, <<Error>>}
        BY DEF OutShape
      <4>2. pc[r] = "closing" => out[r] \in {<< >>, <<Done>>, <<Error, Done>>,
                                            <<Trigger, Done>>, <<Fragment, Done>>}
        BY DEF OutShape
      <4> DEFINE Left(m) == \/ out[r] = <<m>> /\ pc[r] = "returned"
                            \/ out[r] = <<m, Done>> /\ pc[r] = "closing"
      <4>3. Left(Error) \/ Left(Trigger) \/ Left(Fragment)
        <5>1. CASE pc[r] = "returned"
          BY <2>1, <4>1, <5>1
        <5>2. CASE pc[r] = "closing"
          BY <2>1, <2>4, <4>2, <5>2
        <5> QED BY <2>1, <5>1, <5>2
      <4> HIDE DEF Left
      <4>4. \E m \in {Error, Trigger, Fragment} : Left(m)
        BY <4>3
      <4> QED
        BY <4>4 DEF Left
    <3>2. Head(out[r]) = m /\ m # Done /\ m \in Message
      BY <3>1, TailOfOneOrTwo DEF Error, Trigger, Fragment, Done, Message
    <3>3. NoDone(sent'[r]) /\ DoneLast(sent'[r])
      <4>1. NoDone(Recorded(sent[r], m))
        BY <2>1, <3>2, RecordedOther
      <4> QED
        BY <2>1, <2>2, <3>2, <4>1 DEF NoDone, DoneLast
    <3>4. pc[r] = "closing" => out'[r] = <<Done>>
      <4>1. Tail(<<m, Done>>) = <<Done>>
        BY TailOfOneOrTwo
      <4> QED
        BY <2>1, <3>1, <4>1
    <3>5. pc[r] = "closing" => out'[r] # << >>
      BY <3>4, SingletonNotEmpty
    <3> QED
      BY <2>1, <3>3, <3>5
  <2> QED
    BY <2>3, <2>4
<1>19. ASSUME NEW r \in Req, TaskEnds(r) PROVE StreamInv'
  BY <1>19 DEF TaskEnds, Release
<1>20. ASSUME NEW r \in Req, Receive(r) PROVE StreamInv'
  BY <1>20 DEF Receive
<1>21. ASSUME NEW r \in Req, HangUp(r) PROVE StreamInv'
  <2>1. /\ sent'[r] = << >> /\ rxOpen'[r] = FALSE /\ UNCHANGED <<pc, out>>
        /\ \A q \in Req : q # r => sent'[q] = sent[q] /\ rxOpen'[q] = rxOpen[q]
    BY <1>21 DEF HangUp
  <2>2. NoDone(<< >>) /\ DoneLast(<< >>)
    BY DEF NoDone, DoneLast
  <2> QED
    BY <2>1, <2>2
<1>22. ASSUME NEW m \in Model \cup {None}, SwitchModel(m) PROVE StreamInv'
  BY <1>22 DEF SwitchModel
<1>23. CASE UNCHANGED vars
  BY <1>23 DEF vars
<1> HIDE DEF TypeOK, shared, task, stream, history, Phase, InService, Finished
<1> QED
  BY <1>1, <1>2, <1>3, <1>4, <1>5, <1>6, <1>7, <1>8, <1>9, <1>10, <1>11, <1>12,
     <1>13, <1>14, <1>15, <1>16, <1>17, <1>18, <1>19, <1>20, <1>21, <1>22, <1>23
     DEF Next, Task

-----------------------------------------------------------------------------
(* The cancel flag.                                                        *)

\* The triggers in a stream.
TriggerAt(log, i) == log[i] \in {Trigger, Fragment}
NoTrigger(log) == \A i \in 1 .. Len(log) : ~TriggerAt(log, i)
OneTrigger(log) ==
    \A i, j \in 1 .. Len(log) : TriggerAt(log, i) /\ TriggerAt(log, j) => i = j

\* A message that is no trigger leaves the triggers of a stream as they are.
LEMMA RecordedPlain ==
    ASSUME NEW log \in Seq(Message), NEW m \in Message \ {Trigger, Fragment}
    PROVE  /\ NoTrigger(log) => NoTrigger(Recorded(log, m))
           /\ OneTrigger(log) => OneTrigger(Recorded(log, m))
<1>1. \A i \in 1 .. Len(Append(log, m)) :
        \/ i \in 1 .. Len(log) /\ Append(log, m)[i] = log[i]
        \/ i = Len(log) + 1 /\ Append(log, m)[i] = m
  BY AppendProperties
<1>2. \A i \in 1 .. Len(Append(log, m)) :
        TriggerAt(Append(log, m), i) => i \in 1 .. Len(log) /\ TriggerAt(log, i)
  BY <1>1 DEF TriggerAt
<1>3. NoTrigger(log) => NoTrigger(Append(log, m))
  BY <1>2 DEF NoTrigger
<1>4. OneTrigger(log) => OneTrigger(Append(log, m))
  BY <1>2 DEF OneTrigger
<1> QED
  BY <1>3, <1>4 DEF Recorded

\* The first trigger is the only one.
LEMMA RecordedTrigger ==
    ASSUME NEW log \in Seq(Message), NEW m \in Message, NoTrigger(log)
    PROVE  OneTrigger(Recorded(log, m))
<1>1. \A i \in 1 .. Len(Append(log, m)) :
        \/ i \in 1 .. Len(log) /\ Append(log, m)[i] = log[i]
        \/ i = Len(log) + 1
  BY AppendProperties
<1>2. \A i \in 1 .. Len(Append(log, m)) : TriggerAt(Append(log, m), i) => i = Len(log) + 1
  BY <1>1 DEF TriggerAt, NoTrigger
<1>3. OneTrigger(Append(log, m)) /\ OneTrigger(log)
  BY <1>2 DEF OneTrigger, NoTrigger
<1> QED
  BY <1>3 DEF Recorded

\* What protects a request that is alone: the flag is only raised by its own
\* callback, once the generation is over, and then it stays up until the final
\* check has seen that the trigger was handed over.
Held(r) ==
    /\ InProgress(r) /\ \A q \in Req : InProgress(q) => q = r
    /\ ~cut[r]
    /\ cancel => pc[r] \in {"returned", "closing"}
    /\ OneTrigger(sent[r])
    /\ \/ NoTrigger(sent[r])
       \/ pc[r] = "storing"
       \/ pc[r] = "returned" /\ cancel
       \/ pc[r] = "closing" /\ out[r] \in {<< >>, <<Done>>}
Untouched(r) == sent[r] = << >> /\ ~cut[r]
SoloInv ==
    \A r \in Req : (solo[r] => Held(r)) /\ (pc[r] = "idle" => Untouched(r))

\* No request is alone at first, since none is in progress.
LEMMA SoloInit == Init => SoloInv
  BY DEF Init, SoloInv, Untouched

\* Every step of every request keeps the one that is alone safe from the flag.
LEMMA SoloStep == TypeOK /\ OutShape /\ SoloInv /\ [Next]_vars => SoloInv'
<1> SUFFICES ASSUME TypeOK, OutShape, SoloInv, [Next]_vars PROVE SoloInv'
  OBVIOUS
<1> DEFINE Others(r) ==
        /\ pc'[r] # "idle"
        /\ \A q \in Req : q # r => pc'[q] = pc[q] /\ sent'[q] = sent[q] /\ cut'[q] = cut[q]
<1>task. ASSUME NEW r \in Req, InProgress(r), solo' \in {solo, [solo EXCEPT ![r] = FALSE]},
                solo[r] /\ solo'[r] => Held(r)', Others(r)
         PROVE  SoloInv'
  <2>1. ASSUME NEW q \in Req, solo'[q] PROVE Held(q)'
    <3>1. solo[q]
      BY <1>task, <2>1 DEF TypeOK
    <3>2. q = r
      BY <1>task, <3>1 DEF SoloInv, Held
    <3> QED
      BY <1>task, <2>1, <3>1, <3>2
  <2>2. ASSUME NEW q \in Req, pc'[q] = "idle" PROVE Untouched(q)'
    BY <1>task, <2>2 DEF SoloInv, Untouched
  <2> QED
    BY <2>1, <2>2 DEF SoloInv
<1>quiet. ASSUME NEW r \in Req, pc[r] \notin {"storing", "returned", "closing"},
                 UNCHANGED <<cancel, sent, cut>>, pc'[r] \notin {"idle"} \cup Finished,
                 \A q \in Req : q # r => pc'[q] = pc[q]
          PROVE  solo[r] => Held(r)'
  <2> SUFFICES ASSUME solo[r] PROVE Held(r)'
    OBVIOUS
  <2>1. Held(r) /\ ~cancel
    BY <1>quiet DEF SoloInv, Held
  <2>2. NoTrigger(sent'[r]) /\ OneTrigger(sent'[r]) /\ ~cut'[r] /\ ~cancel'
    BY <1>quiet, <2>1 DEF Held
  <2>3. InProgress(r)' /\ \A q \in Req : InProgress(q)' => q = r
    BY <1>quiet, <2>1 DEF Held, InProgress
  <2> QED
    BY <2>2, <2>3 DEF Held
<1>generate. ASSUME NEW r \in Req, pc[r] = "waiting", UNCHANGED <<cancel, sent>>, Generate(r)
             PROVE  SoloInv'
  <2>1. CASE Panic(r)
    <3>1. InProgress(r) /\ solo' = [solo EXCEPT ![r] = FALSE] /\ ~solo'[r] /\ Others(r)
      BY <1>generate, <2>1 DEF Panic, Release, InProgress, Finished, TypeOK
    <3> QED
      BY <3>1, <1>task
  <2>2. CASE pc' = [pc EXCEPT ![r] = "generating"] /\ UNCHANGED history
    <3>1. InProgress(r) /\ UNCHANGED <<cut, solo>>
      BY <1>generate, <2>2 DEF InProgress, Finished, history
    <3>2. pc'[r] \notin {"idle"} \cup Finished /\ \A q \in Req : q # r => pc'[q] = pc[q]
      BY <2>2 DEF Finished, TypeOK
    <3>3. solo[r] => Held(r)'
      BY <1>generate, <3>1, <3>2, <1>quiet
    <3>4. Others(r)
      BY <1>generate, <2>2, <3>1, <3>2
    <3> QED
      BY <3>1, <3>3, <3>4, <1>task
  <2> QED
    BY <1>generate, <2>1, <2>2 DEF Generate
<1> HIDE DEF Others
<1> USE DEF TypeOK, SoloInv, Held, Untouched, InProgress, Phase, InService, Finished,
        shared, task, stream, history
<1>1. ASSUME NEW r \in Req, DispatchStream(r) PROVE SoloInv'
  <2>1. /\ cancel' = FALSE /\ UNCHANGED <<cut, sent, out>> /\ pc[r] = "idle"
        /\ pc' = [pc EXCEPT ![r] = "spawned"]
        /\ solo' = [q \in Req |-> IF q = r THEN \A p \in Req : ~InProgress(p)
                                         ELSE solo[q] /\ ~InProgress(q)]
    BY <1>1 DEF DispatchStream
  <2>5. ASSUME NEW q \in Req, pc'[q] = "idle" PROVE Untouched(q)'
    BY <2>1, <2>5
  <2> SUFFICES ASSUME NEW q \in Req, solo'[q] PROVE Held(q)'
    BY <2>5
  <2>2. q = r /\ \A p \in Req : ~InProgress(p)
    <3>1. q # r => solo[q] /\ ~InProgress(q)
      BY <2>1
    <3>2. solo[q] => InProgress(q)
      BY Zenon DEF SoloInv, Held
    <3> QED
      BY <2>1, <3>1, <3>2
  <2>3. InProgress(r)' /\ \A p \in Req : InProgress(p)' => p = r
    BY <2>1, <2>2
  <2>4. NoTrigger(sent[r]) /\ OneTrigger(sent[r]) /\ ~cut[r]
    BY <2>1 DEF NoTrigger, OneTrigger
  <2> QED
    BY <2>1, <2>2, <2>3, <2>4
<1>2. ASSUME NEW r \in Req, AskPermit(r) PROVE SoloInv'
  <2>1. /\ UNCHANGED <<cancel, sent, cut, solo>> /\ \A q \in Req : q # r => pc'[q] = pc[q]
        /\ pc[r] \notin {"storing", "returned", "closing"} /\ InProgress(r)
    BY <1>2 DEF AskPermit
  <2>2. pc'[r] \notin {"idle"} \cup Finished
    BY <1>2 DEF AskPermit
  <2>3. Others(r)
    BY <1>2 DEF AskPermit, Others
  <2> QED
    BY <2>1, <2>2, <1>quiet, <2>3, <1>task
<1>3. ASSUME NEW r \in Req, Resolve(r) PROVE SoloInv'
  <2>1. /\ UNCHANGED <<cancel, sent, cut, solo>> /\ \A q \in Req : q # r => pc'[q] = pc[q]
        /\ pc[r] \notin {"storing", "returned", "closing"} /\ InProgress(r)
    BY <1>3 DEF Resolve
  <2>2. pc'[r] \notin {"idle"} \cup Finished
    BY <1>3 DEF Resolve
  <2>3. Others(r)
    BY <1>3 DEF Resolve, Others
  <2> QED
    BY <2>1, <2>2, <1>quiet, <2>3, <1>task
<1>4. ASSUME NEW r \in Req, AskLock(r) PROVE SoloInv'
  <2>1. /\ UNCHANGED <<cancel, sent, cut, solo>> /\ \A q \in Req : q # r => pc'[q] = pc[q]
        /\ pc[r] \notin {"storing", "returned", "closing"} /\ InProgress(r)
    BY <1>4 DEF AskLock
  <2>2. pc'[r] \notin {"idle"} \cup Finished
    BY <1>4 DEF AskLock
  <2>3. Others(r)
    BY <1>4 DEF AskLock, Others
  <2> QED
    BY <2>1, <2>2, <1>quiet, <2>3, <1>task
<1>5. ASSUME NEW r \in Req, ReuseEngine(r) PROVE SoloInv'
  <2>1. /\ UNCHANGED <<cancel, sent>>
        /\ pc[r] \notin {"storing", "returned", "closing"} /\ InProgress(r)
    BY <1>5 DEF ReuseEngine, InProgress, Finished
  <2> QED
    BY <1>5, <2>1, <1>generate DEF ReuseEngine
<1>6. ASSUME NEW r \in Req, LoadEngine(r) PROVE SoloInv'
  <2>1. /\ UNCHANGED <<cancel, sent>>
        /\ pc[r] \notin {"storing", "returned", "closing"} /\ InProgress(r)
    BY <1>6 DEF LoadEngine, InProgress, Finished
  <2> QED
    BY <1>6, <2>1, <1>generate DEF LoadEngine
<1>7. ASSUME NEW r \in Req, LoadFails(r) PROVE SoloInv'
  <2>1. /\ UNCHANGED <<cancel, sent, cut, solo>> /\ \A q \in Req : q # r => pc'[q] = pc[q]
        /\ pc[r] \notin {"storing", "returned", "closing"} /\ InProgress(r)
    BY <1>7 DEF LoadFails
  <2>2. pc'[r] \notin {"idle"} \cup Finished
    BY <1>7 DEF LoadFails
  <2>3. Others(r)
    BY <1>7 DEF LoadFails, Others
  <2> QED
    BY <2>1, <2>2, <1>quiet, <2>3, <1>task
<1>8. ASSUME NEW r \in Req, KernelMissing(r) PROVE SoloInv'
  <2>1. InProgress(r) /\ solo' \in {solo, [solo EXCEPT ![r] = FALSE]}
    BY <1>8 DEF KernelMissing, Panic, Release
  <2>2. solo[r] /\ solo'[r] => Held(r)'
    BY <1>8 DEF KernelMissing, Panic, Release
  <2>3. Others(r)
    BY <1>8 DEF KernelMissing, Panic, Release, Others
  <2> QED
    BY <2>1, <2>2, <2>3, <1>task
<1>9. ASSUME NEW r \in Req, CallbackCancelled(r) PROVE SoloInv'
  <2>1. InProgress(r) /\ solo' \in {solo, [solo EXCEPT ![r] = FALSE]}
    BY <1>9 DEF CallbackCancelled, Calls
  <2>2. solo[r] /\ solo'[r] => Held(r)'
    BY <1>9 DEF CallbackCancelled, Calls
  <2>3. Others(r)
    BY <1>9 DEF CallbackCancelled, Calls, Others
  <2> QED
    BY <2>1, <2>2, <2>3, <1>task
<1>10. ASSUME NEW r \in Req, CallbackText(r) PROVE SoloInv'
  <2>1. /\ UNCHANGED <<cancel, sent, cut, solo>> /\ \A q \in Req : q # r => pc'[q] = pc[q]
        /\ pc[r] \notin {"storing", "returned", "closing"} /\ InProgress(r)
    BY <1>10 DEF CallbackText, Calls
  <2>2. pc'[r] \notin {"idle"} \cup Finished
    BY <1>10 DEF CallbackText, Calls
  <2>3. Others(r)
    BY <1>10 DEF CallbackText, Calls, Others
  <2> QED
    BY <2>1, <2>2, <1>quiet, <2>3, <1>task
<1>11. ASSUME NEW r \in Req, CallbackHidden(r) PROVE SoloInv'
  <2>1. /\ UNCHANGED <<cancel, sent, cut, solo>> /\ \A q \in Req : q # r => pc'[q] = pc[q]
        /\ pc[r] \notin {"storing", "returned", "closing"} /\ InProgress(r)
    BY <1>11 DEF CallbackHidden, Calls
  <2>2. pc'[r] \notin {"idle"} \cup Finished
    BY <1>11 DEF CallbackHidden, Calls
  <2>3. Others(r)
    BY <1>11 DEF CallbackHidden, Calls, Others
  <2> QED
    BY <2>1, <2>2, <1>quiet, <2>3, <1>task
<1>12. ASSUME NEW r \in Req, CallbackCloses(r) PROVE SoloInv'
  <2>1. /\ UNCHANGED <<cancel, sent, cut, solo>> /\ \A q \in Req : q # r => pc'[q] = pc[q]
        /\ pc[r] \notin {"storing", "returned", "closing"} /\ InProgress(r)
    BY <1>12 DEF CallbackCloses, Calls
  <2>2. pc'[r] \notin {"idle"} \cup Finished
    BY <1>12 DEF CallbackCloses, Calls
  <2>3. Others(r)
    BY <1>12 DEF CallbackCloses, Calls, Others
  <2> QED
    BY <2>1, <2>2, <1>quiet, <2>3, <1>task
<1>13. ASSUME NEW r \in Req, CallbackAborts(r) PROVE SoloInv'
  <2>1. InProgress(r) /\ solo' \in {solo, [solo EXCEPT ![r] = FALSE]}
    BY <1>13 DEF CallbackAborts, Calls
  <2>2. solo[r] /\ solo'[r] => Held(r)'
    BY <1>13 DEF CallbackAborts, Calls
  <2>3. Others(r)
    BY <1>13 DEF CallbackAborts, Calls, Others
  <2> QED
    BY <2>1, <2>2, <2>3, <1>task
<1>14. ASSUME NEW r \in Req, CallbackSend(r) PROVE SoloInv'
  <2>1. PICK m \in {Text, Trigger} : out[r] = <<m>>
    BY <1>14 DEF CallbackSend, OutShape
  <2>2. Head(out[r]) = m /\ m \in Message /\ Text # Trigger /\ Text # Fragment
    BY <2>1, TailOfOneOrTwo DEF Text, Trigger, Fragment, Message
  <2>3. /\ pc[r] = "callback" /\ UNCHANGED <<cancel, cut, solo>>
        /\ \A q \in Req : q # r => pc'[q] = pc[q]
    BY <1>14 DEF CallbackSend
  <2>4. sent'[r] = Recorded(sent[r], m) \/ sent'[r] = sent[r]
    BY <1>14, <2>2 DEF CallbackSend, Deliver
  <2>5. pc'[r] = IF m = Trigger THEN "storing" ELSE IF rxOpen[r] THEN "generating" ELSE "returned"
    BY <1>14, <2>2 DEF CallbackSend
  <2>6. solo[r] => Held(r)'
    <3> SUFFICES ASSUME solo[r] PROVE Held(r)'
      OBVIOUS
    <3>1. NoTrigger(sent[r]) /\ OneTrigger(sent[r]) /\ ~cancel /\ ~cut[r]
      BY <2>3
    <3>2. OneTrigger(sent'[r])
      BY <2>2, <2>4, <3>1, RecordedTrigger
    <3>3. m = Text => NoTrigger(sent'[r])
      BY <2>2, <2>4, <3>1, RecordedPlain
    <3>4. NoTrigger(sent'[r]) \/ pc'[r] = "storing"
      BY <2>5, <3>3
    <3>5. InProgress(r)' /\ \A q \in Req : InProgress(q)' => q = r
      BY <2>3, <2>5
    <3> QED
      BY <2>3, <3>1, <3>2, <3>4, <3>5
  <2>7. Others(r)
    BY <1>14 DEF CallbackSend, Deliver, Others
  <2> QED
    BY <2>3, <2>6, <2>7, <1>task
<1>15. ASSUME NEW r \in Req, StoreCancel(r) PROVE SoloInv'
  <2>1. InProgress(r) /\ solo' \in {solo, [solo EXCEPT ![r] = FALSE]}
    BY <1>15 DEF StoreCancel
  <2>2. solo[r] /\ solo'[r] => Held(r)'
    BY <1>15 DEF StoreCancel
  <2>3. Others(r)
    BY <1>15 DEF StoreCancel, Others
  <2> QED
    BY <2>1, <2>2, <2>3, <1>task
<1>16. ASSUME NEW r \in Req, GenerationEnds(r) PROVE SoloInv'
  <2>1. /\ UNCHANGED <<cancel, sent, cut, solo>> /\ \A q \in Req : q # r => pc'[q] = pc[q]
        /\ pc[r] \notin {"storing", "returned", "closing"} /\ InProgress(r)
    BY <1>16 DEF GenerationEnds
  <2>2. pc'[r] \notin {"idle"} \cup Finished
    BY <1>16 DEF GenerationEnds
  <2>3. Others(r)
    BY <1>16 DEF GenerationEnds, Others
  <2> QED
    BY <2>1, <2>2, <1>quiet, <2>3, <1>task
<1>17. ASSUME NEW r \in Req, FinalCheck(r) PROVE SoloInv'
  <2>1. /\ UNCHANGED <<cancel, sent, cut, solo>> /\ \A q \in Req : q # r => pc'[q] = pc[q]
        /\ pc[r] = "returned" /\ pc'[r] = "closing"
    BY <1>17 DEF FinalCheck
  <2>2. cancel => out'[r] = <<Done>>
    <3>1. out'[r] = LastMessages(r)
      BY <1>17 DEF FinalCheck
    <3>2. cancel => LastMessages(r) = <<Done>>
      BY Zenon DEF LastMessages
    <3> QED BY <3>1, <3>2
  <2>3. solo[r] => Held(r)'
    <3> SUFFICES ASSUME solo[r] PROVE Held(r)'
      OBVIOUS
    <3>1. NoTrigger(sent[r]) \/ cancel
      BY <2>1
    <3>2. NoTrigger(sent'[r]) \/ out'[r] = <<Done>>
      BY <2>1, <2>2, <3>1
    <3> QED
      BY <2>1, <3>2
  <2>4. Others(r)
    BY <1>17 DEF FinalCheck, Others
  <2> QED
    BY <2>1, <2>3, <2>4, <1>task
<1>18. ASSUME NEW r \in Req, TaskSend(r) PROVE SoloInv'
  <2>1. /\ UNCHANGED <<cancel, cut, solo, pc>> /\ pc[r] \in {"returned", "closing"}
        /\ out[r] # << >> /\ out'[r] = Tail(out[r])
    BY <1>18 DEF TaskSend
  <2>2. sent'[r] = Recorded(sent[r], Head(out[r])) \/ sent'[r] = sent[r]
    BY <1>18 DEF TaskSend, Deliver
  <2>3. solo[r] => Held(r)'
    <3> SUFFICES ASSUME solo[r] PROVE Held(r)'
      OBVIOUS
    <3>1. CASE out[r] \in {<<Trigger, Done>>, <<Fragment, Done>>} /\ pc[r] = "closing"
      <4>1. PICK m \in {Trigger, Fragment} : out[r] = <<m, Done>>
        BY <3>1
      <4>2. Head(<<m, Done>>) = m /\ Tail(<<m, Done>>) = <<Done>>
        BY TailOfOneOrTwo
      <4>3. Head(out[r]) = m /\ m \in Message /\ out'[r] = <<Done>>
        BY <2>1, <4>1, <4>2 DEF Message
      <4>4. out[r] # << >> /\ out[r] # <<Done>>
        <5>1. Len(<<Done>>) = 1 /\ Len(<< >>) = 0 /\ Len(<<m, Done>>) = 2
          OBVIOUS
        <5> QED BY <4>1, <5>1
      <4>5. NoTrigger(sent[r])
        BY <3>1, <4>4
      <4>6. OneTrigger(sent'[r])
        BY <2>2, <4>3, <4>5, RecordedTrigger
      <4> QED
        BY <2>1, <3>1, <4>3, <4>6
    <3>2. CASE ~(out[r] \in {<<Trigger, Done>>, <<Fragment, Done>>} /\ pc[r] = "closing")
      <4>1. out[r] = <<Done>> \/ out[r] = <<Error>> \/ out[r] = <<Error, Done>>
        BY <2>1, <3>2 DEF OutShape
      <4>2. Head(out[r]) \in Message \ {Trigger, Fragment}
        BY <4>1, TailOfOneOrTwo DEF Message, Error, Done, Trigger, Fragment
      <4>3. /\ OneTrigger(sent[r]) => OneTrigger(sent'[r])
            /\ NoTrigger(sent[r]) => NoTrigger(sent'[r])
        BY <2>2, <4>2, RecordedPlain
      <4>4. out[r] \in {<< >>, <<Done>>} => out'[r] = << >>
        <5>1. Tail(<<Done>>) = << >>
          BY TailOfOneOrTwo
        <5> QED BY <2>1, <5>1
      <4> QED
        BY <2>1, <4>3, <4>4
    <3> QED
      BY <3>1, <3>2
  <2>4. Others(r)
    BY <1>18 DEF TaskSend, Deliver, Others
  <2> QED
    BY <2>1, <2>3, <2>4, <1>task
<1>19. ASSUME NEW r \in Req, TaskEnds(r) PROVE SoloInv'
  <2>1. InProgress(r) /\ solo' \in {solo, [solo EXCEPT ![r] = FALSE]}
    BY <1>19 DEF TaskEnds, Release
  <2>2. solo[r] /\ solo'[r] => Held(r)'
    BY <1>19 DEF TaskEnds, Release
  <2>3. Others(r)
    BY <1>19 DEF TaskEnds, Release, Others
  <2> QED
    BY <2>1, <2>2, <2>3, <1>task
<1>20. ASSUME NEW r \in Req, Receive(r) PROVE SoloInv'
  BY <1>20 DEF Receive
<1>21. ASSUME NEW r \in Req, HangUp(r) PROVE SoloInv'
  <2>1. /\ UNCHANGED <<cancel, cut, solo, pc, out>> /\ sent'[r] = << >>
        /\ \A q \in Req : q # r => sent'[q] = sent[q]
    BY <1>21 DEF HangUp
  <2>2. NoTrigger(<< >>) /\ OneTrigger(<< >>)
    BY DEF NoTrigger, OneTrigger
  <2>3. ASSUME NEW q \in Req, solo[q] PROVE Held(q)'
    <3>1. CASE q = r
      BY <2>1, <2>2, <2>3, <3>1
    <3>2. CASE q # r
      BY <2>1, <2>3, <3>2
    <3> QED BY <3>1, <3>2
  <2>4. ASSUME NEW q \in Req, pc[q] = "idle" PROVE Untouched(q)'
    BY <2>1, <2>4
  <2> QED
    BY <2>1, <2>3, <2>4
<1>22. ASSUME NEW m \in Model \cup {None}, SwitchModel(m) PROVE SoloInv'
  BY <1>22 DEF SwitchModel
<1>23. CASE UNCHANGED vars
  BY <1>23 DEF vars
<1> HIDE DEF TypeOK, shared, task, stream, history, Phase, InService, Finished
<1> QED
  BY <1>1, <1>2, <1>3, <1>4, <1>5, <1>6, <1>7, <1>8, <1>9, <1>10, <1>11, <1>12,
     <1>13, <1>14, <1>15, <1>16, <1>17, <1>18, <1>19, <1>20, <1>21, <1>22, <1>23
     DEF Next, Task

-----------------------------------------------------------------------------
(* The implementation of InferenceService.                                 *)

\* What phaseOf makes of one program counter.
PhaseName(p) ==
    IF p = "idle" THEN "new"
    ELSE IF p \in InService THEN "serving"
    ELSE IF p \in Finished \cup {"closing"} THEN "over" ELSE "pending"

\* The initial states map to the service's.
LEMMA ServiceInit == Init => Service!Init
  BY DEF Init, Service!Init, phaseOf, loadedModel

\* Every step of the dispatcher is a step of the service, or changes nothing
\* that the service knows of.
LEMMA ServiceStep ==
    TypeOK /\ EngineInv /\ SinceInv /\ [Next]_vars => [Service!Next]_(Service!vars)
<1> SUFFICES ASSUME TypeOK, EngineInv, SinceInv, [Next]_vars
             PROVE  [Service!Next]_(Service!vars)
  OBVIOUS
<1> USE DEF TypeOK, Phase, InService, Finished, shared, task, stream, history
<1>at. ASSUME NEW r \in Req, \A q \in Req : q # r => pc'[q] = pc[q]
       PROVE  phaseOf' = [phaseOf EXCEPT ![r] = PhaseName(pc'[r])]
  BY <1>at DEF phaseOf, PhaseName
<1>same. ASSUME UNCHANGED <<cache, path, pc>> PROVE [Service!Next]_(Service!vars)
  BY <1>same DEF phaseOf, loadedModel, Service!vars
<1>stutter. ASSUME NEW r \in Req, UNCHANGED <<cache, path>>, PhaseName(pc'[r]) = PhaseName(pc[r]),
                   \A q \in Req : q # r => pc'[q] = pc[q]
            PROVE  [Service!Next]_(Service!vars)
  <2>1. phaseOf' = [phaseOf EXCEPT ![r] = PhaseName(pc[r])]
    BY <1>stutter, <1>at
  <2>2. phaseOf' = phaseOf
    BY <2>1 DEF phaseOf, PhaseName
  <2>3. loadedModel' = loadedModel
    BY <1>stutter DEF loadedModel
  <2> QED
    BY <2>2, <2>3 DEF Service!vars
\* The holder of the engine mutex that waits for an engine is the only one
\* that could be served.
<1>quiet. ASSUME NEW r \in Req, pc[r] = "waiting", HasLock(r) PROVE Service!Quiet
  BY <1>quiet DEF EngineInv, HasLock, Service!Quiet, phaseOf
<1>generate. ASSUME NEW r \in Req, pc[r] = "waiting", HasLock(r), Generate(r), UNCHANGED path,
                    loadedModel' = path[r], loadedModel' = loadedModel \/ Service!Quiet
             PROVE  [Service!Next]_(Service!vars)
  <2>1. path[r] \in Model
    BY <1>generate DEF SinceInv
  <2>2. phaseOf[r] = "pending" /\ Service!Quiet
    BY <1>generate, <1>quiet DEF phaseOf
  <2>3. CASE Panic(r)
    <3>1. phaseOf' = [phaseOf EXCEPT ![r] = "over"]
      BY <2>3, <1>at DEF Panic, PhaseName
    <3>2. Service!Refuse(r)
      BY <1>generate, <2>1, <2>2, <3>1 DEF Service!Refuse
    <3> QED
      BY <3>2 DEF Service!Next
  <2>4. CASE pc' = [pc EXCEPT ![r] = "generating"]
    <3>1. phaseOf' = [phaseOf EXCEPT ![r] = "serving"]
      BY <2>4, <1>at DEF PhaseName
    <3>2. Service!Serve(r)
      BY <1>generate, <2>1, <2>2, <3>1 DEF Service!Serve
    <3> QED
      BY <3>2 DEF Service!Next
  <2> QED
    BY <1>generate, <2>3, <2>4 DEF Generate
<1>1. ASSUME NEW r \in Req, DispatchStream(r) PROVE [Service!Next]_(Service!vars)
  <2>1. /\ UNCHANGED <<cache, path>> /\ pc[r] = "idle" /\ pc'[r] = "spawned"
        /\ \A q \in Req : q # r => pc'[q] = pc[q]
    BY <1>1 DEF DispatchStream
  <2>2. phaseOf[r] = "new" /\ phaseOf' = [phaseOf EXCEPT ![r] = "pending"]
    BY <2>1, <1>at DEF phaseOf, PhaseName
  <2>3. Service!Submit(r)
    BY <2>1, <2>2 DEF Service!Submit, loadedModel
  <2> QED
    BY <2>3 DEF Service!Next
<1>2. ASSUME NEW r \in Req, AskPermit(r) PROVE [Service!Next]_(Service!vars)
  <2>1. UNCHANGED <<cache, path>> /\ \A q \in Req : q # r => pc'[q] = pc[q]
    BY <1>2 DEF AskPermit
  <2>2. PhaseName(pc'[r]) = PhaseName(pc[r])
    BY <1>2 DEF AskPermit, PhaseName
  <2> QED
    BY <2>1, <2>2, <1>stutter
<1>3. ASSUME NEW r \in Req, Resolve(r) PROVE [Service!Next]_(Service!vars)
  <2>1. /\ pc[r] = "queued" /\ cache' = cache
        /\ \A q \in Req : q # r => pc'[q] = pc[q] /\ path'[q] = path[q]
    BY <1>3 DEF Resolve
  <2>2. loadedModel' = loadedModel
    BY <2>1 DEF loadedModel, EngineInv
  <2>3. CASE activeModel = None
    <3>1. pc'[r] = "closing"
      <4>1. pc' = [pc EXCEPT ![r] = "closing"]
        BY <1>3, <2>3, Zenon DEF Resolve
      <4> QED BY <4>1
    <3>2. phaseOf[r] = "pending" /\ phaseOf' = [phaseOf EXCEPT ![r] = "over"]
      BY <2>1, <3>1, <1>at DEF phaseOf, PhaseName
    <3>3. Service!Refuse(r)
      BY <2>2, <3>2 DEF Service!Refuse
    <3> QED
      BY <3>3 DEF Service!Next
  <2>4. CASE activeModel # None
    <3>1. pc'[r] = "resolved"
      BY <1>3, <2>4 DEF Resolve
    <3>2. phaseOf' = phaseOf
      <4>1. phaseOf' = [phaseOf EXCEPT ![r] = "pending"]
        BY <2>1, <3>1, <1>at DEF PhaseName
      <4> QED
        BY <2>1, <4>1 DEF phaseOf
    <3> QED
      BY <2>2, <3>2 DEF Service!vars
  <2> QED BY <2>3, <2>4
<1>4. ASSUME NEW r \in Req, AskLock(r) PROVE [Service!Next]_(Service!vars)
  <2>1. UNCHANGED <<cache, path>> /\ \A q \in Req : q # r => pc'[q] = pc[q]
    BY <1>4 DEF AskLock
  <2>2. PhaseName(pc'[r]) = PhaseName(pc[r])
    BY <1>4 DEF AskLock, PhaseName
  <2> QED
    BY <2>1, <2>2, <1>stutter
<1>5. ASSUME NEW r \in Req, ReuseEngine(r) PROVE [Service!Next]_(Service!vars)
  <2>1. pc[r] = "waiting" /\ HasLock(r) /\ Generate(r) /\ UNCHANGED path
    BY <1>5 DEF ReuseEngine
  <2>2. loadedModel' = path[r]
    BY <1>5, NoneAssumption DEF ReuseEngine, loadedModel, CacheHit
  <2>3. loadedModel' = loadedModel
    BY <1>5 DEF ReuseEngine, loadedModel
  <2> QED
    BY <2>1, <2>2, <2>3, <1>generate
<1>6. ASSUME NEW r \in Req, LoadEngine(r) PROVE [Service!Next]_(Service!vars)
  <2>1. pc[r] = "waiting" /\ HasLock(r) /\ Generate(r) /\ UNCHANGED path
    BY <1>6 DEF LoadEngine
  <2>2. loadedModel' = path[r]
    BY <1>6, NoneAssumption DEF LoadEngine, loadedModel, CacheHit
  <2>3. Service!Quiet
    BY <2>1, <1>quiet
  <2> QED
    BY <2>1, <2>2, <2>3, <1>generate
<1>7. ASSUME NEW r \in Req, LoadFails(r) PROVE [Service!Next]_(Service!vars)
  <2>1. /\ pc[r] = "waiting" /\ HasLock(r) /\ cache' = None
        /\ pc'[r] \in {"closing", "panicked"} /\ \A q \in Req : q # r => pc'[q] = pc[q]
    BY <1>7 DEF LoadFails
  <2>2. phaseOf[r] = "pending" /\ phaseOf' = [phaseOf EXCEPT ![r] = "over"]
    BY <2>1, <1>at DEF phaseOf, PhaseName
  <2>3. Service!Refuse(r)
    BY <2>1, <2>2, <1>quiet DEF Service!Refuse, loadedModel
  <2> QED
    BY <2>3 DEF Service!Next
<1>8. ASSUME NEW r \in Req, KernelMissing(r) PROVE [Service!Next]_(Service!vars)
  <2>1. /\ pc[r] = "waiting" /\ HasLock(r) /\ cache' = None
        /\ pc'[r] \in {"closing", "panicked"} /\ \A q \in Req : q # r => pc'[q] = pc[q]
    BY <1>8 DEF KernelMissing, Panic
  <2>2. phaseOf[r] = "pending" /\ phaseOf' = [phaseOf EXCEPT ![r] = "over"]
    BY <2>1, <1>at DEF phaseOf, PhaseName
  <2>3. Service!Refuse(r)
    BY <2>1, <2>2, <1>quiet DEF Service!Refuse, loadedModel
  <2> QED
    BY <2>3 DEF Service!Next
<1>9. ASSUME NEW r \in Req, CallbackCancelled(r) PROVE [Service!Next]_(Service!vars)
  <2>1. UNCHANGED <<cache, path>> /\ \A q \in Req : q # r => pc'[q] = pc[q]
    BY <1>9 DEF CallbackCancelled, Calls
  <2>2. PhaseName(pc'[r]) = PhaseName(pc[r])
    BY <1>9 DEF CallbackCancelled, Calls, PhaseName
  <2> QED
    BY <2>1, <2>2, <1>stutter
<1>10. ASSUME NEW r \in Req, CallbackText(r) PROVE [Service!Next]_(Service!vars)
  <2>1. UNCHANGED <<cache, path>> /\ \A q \in Req : q # r => pc'[q] = pc[q]
    BY <1>10 DEF CallbackText, Calls
  <2>2. PhaseName(pc'[r]) = PhaseName(pc[r])
    BY <1>10 DEF CallbackText, Calls, PhaseName
  <2> QED
    BY <2>1, <2>2, <1>stutter
<1>11. ASSUME NEW r \in Req, CallbackHidden(r) PROVE [Service!Next]_(Service!vars)
  <2>1. UNCHANGED <<cache, path>> /\ \A q \in Req : q # r => pc'[q] = pc[q]
    BY <1>11 DEF CallbackHidden, Calls
  <2>2. PhaseName(pc'[r]) = PhaseName(pc[r])
    BY <1>11 DEF CallbackHidden, Calls, PhaseName
  <2> QED
    BY <2>1, <2>2, <1>stutter
<1>12. ASSUME NEW r \in Req, CallbackCloses(r) PROVE [Service!Next]_(Service!vars)
  <2>1. UNCHANGED <<cache, path>> /\ \A q \in Req : q # r => pc'[q] = pc[q]
    BY <1>12 DEF CallbackCloses, Calls
  <2>2. PhaseName(pc'[r]) = PhaseName(pc[r])
    BY <1>12 DEF CallbackCloses, Calls, PhaseName
  <2> QED
    BY <2>1, <2>2, <1>stutter
<1>13. ASSUME NEW r \in Req, CallbackAborts(r) PROVE [Service!Next]_(Service!vars)
  <2>1. UNCHANGED <<cache, path>> /\ \A q \in Req : q # r => pc'[q] = pc[q]
    BY <1>13 DEF CallbackAborts, Calls
  <2>2. PhaseName(pc'[r]) = PhaseName(pc[r])
    BY <1>13 DEF CallbackAborts, Calls, PhaseName
  <2> QED
    BY <2>1, <2>2, <1>stutter
<1>14. ASSUME NEW r \in Req, CallbackSend(r) PROVE [Service!Next]_(Service!vars)
  <2>1. UNCHANGED <<cache, path>> /\ \A q \in Req : q # r => pc'[q] = pc[q]
    BY <1>14 DEF CallbackSend
  <2>2. PhaseName(pc'[r]) = PhaseName(pc[r])
    BY <1>14 DEF CallbackSend, PhaseName
  <2> QED
    BY <2>1, <2>2, <1>stutter
<1>15. ASSUME NEW r \in Req, StoreCancel(r) PROVE [Service!Next]_(Service!vars)
  <2>1. UNCHANGED <<cache, path>> /\ \A q \in Req : q # r => pc'[q] = pc[q]
    BY <1>15 DEF StoreCancel
  <2>2. PhaseName(pc'[r]) = PhaseName(pc[r])
    BY <1>15 DEF StoreCancel, PhaseName
  <2> QED
    BY <2>1, <2>2, <1>stutter
<1>16. ASSUME NEW r \in Req, GenerationEnds(r) PROVE [Service!Next]_(Service!vars)
  <2>1. UNCHANGED <<cache, path>> /\ \A q \in Req : q # r => pc'[q] = pc[q]
    BY <1>16 DEF GenerationEnds
  <2>2. PhaseName(pc'[r]) = PhaseName(pc[r])
    BY <1>16 DEF GenerationEnds, PhaseName
  <2> QED
    BY <2>1, <2>2, <1>stutter
<1>17. ASSUME NEW r \in Req, FinalCheck(r) PROVE [Service!Next]_(Service!vars)
  <2>1. /\ UNCHANGED <<cache, path>> /\ pc[r] = "returned" /\ pc'[r] = "closing"
        /\ \A q \in Req : q # r => pc'[q] = pc[q]
    BY <1>17 DEF FinalCheck
  <2>2. phaseOf[r] = "serving" /\ phaseOf' = [phaseOf EXCEPT ![r] = "over"]
    BY <2>1, <1>at DEF phaseOf, PhaseName
  <2>3. Service!Finish(r)
    BY <2>1, <2>2 DEF Service!Finish, loadedModel
  <2> QED
    BY <2>3 DEF Service!Next
<1>18. ASSUME NEW r \in Req, TaskSend(r) PROVE [Service!Next]_(Service!vars)
  <2>1. UNCHANGED <<cache, path>> /\ \A q \in Req : q # r => pc'[q] = pc[q]
    BY <1>18 DEF TaskSend
  <2>2. PhaseName(pc'[r]) = PhaseName(pc[r])
    BY <1>18 DEF TaskSend, PhaseName
  <2> QED
    BY <2>1, <2>2, <1>stutter
<1>19. ASSUME NEW r \in Req, TaskEnds(r) PROVE [Service!Next]_(Service!vars)
  <2>1. UNCHANGED <<cache, path>> /\ \A q \in Req : q # r => pc'[q] = pc[q]
    BY <1>19 DEF TaskEnds
  <2>2. PhaseName(pc'[r]) = PhaseName(pc[r])
    BY <1>19 DEF TaskEnds, PhaseName
  <2> QED
    BY <2>1, <2>2, <1>stutter
<1>20. ASSUME NEW r \in Req, Receive(r) PROVE [Service!Next]_(Service!vars)
  <2>1. UNCHANGED <<cache, path, pc>>
    BY <1>20 DEF Receive
  <2> QED
    BY <2>1, <1>same
<1>21. ASSUME NEW r \in Req, HangUp(r) PROVE [Service!Next]_(Service!vars)
  <2>1. UNCHANGED <<cache, path, pc>>
    BY <1>21 DEF HangUp
  <2> QED
    BY <2>1, <1>same
<1>22. ASSUME NEW m \in Model \cup {None}, SwitchModel(m) PROVE [Service!Next]_(Service!vars)
  <2>1. UNCHANGED <<cache, path, pc>>
    BY <1>22 DEF SwitchModel
  <2> QED
    BY <2>1, <1>same
<1>23. CASE UNCHANGED vars
  BY <1>23, <1>same DEF vars
<1> HIDE DEF TypeOK, shared, task, stream, history, Phase, InService, Finished
<1> QED
  BY <1>1, <1>2, <1>3, <1>4, <1>5, <1>6, <1>7, <1>8, <1>9, <1>10, <1>11, <1>12,
     <1>13, <1>14, <1>15, <1>16, <1>17, <1>18, <1>19, <1>20, <1>21, <1>22, <1>23
     DEF Next, Task

-----------------------------------------------------------------------------
(* The theorems.                                                           *)

IInv == TypeOK /\ OutShape /\ EngineInv /\ SinceInv /\ StreamInv /\ SoloInv

\* IInv is an inductive invariant of the dispatcher.
THEOREM Inductive == Spec => []IInv
<1>1. Init => IInv
  BY TypeInit, OutInit, EngineInit, SinceInit, StreamInit, SoloInit DEF IInv
<1>2. IInv /\ [Next]_vars => IInv'
  <2> SUFFICES ASSUME IInv, [Next]_vars PROVE IInv'
    OBVIOUS
  <2>1. CallbackLoaded
    BY DEF IInv, OutShape, CallbackLoaded
  <2> QED
    BY <2>1, TypeStep, OutStep, EngineStep, SinceStep, StreamStep, SoloStep DEF IInv
<1> QED
  BY <1>1, <1>2, PTL DEF Spec

\* Every variable keeps its type, and no channel exceeds its capacity.
THEOREM TypeCorrect == Spec => []TypeOK
<1>1. IInv => TypeOK
  BY DEF IInv
<1> QED
  BY <1>1, Inductive, PTL

\* The engine a generation runs on is not freed, replaced or shared under it
\* (cached_engine, its mutex and cluaiz_kernel_free in dispatch_stream).
THEOREM EngineIsSafe == Spec => []EngineSafe
<1>1. IInv => EngineSafe
  BY DEF IInv, EngineInv, EngineSafe, HasLock, CacheHit
<1> QED
  BY <1>1, Inductive, PTL

\* No request runs on a model that was never configured while it was in
\* progress (resolve_active_model_path against the cached path).
THEOREM ModelIsFresh == Spec => []FreshModel
<1>1. IInv => FreshModel
  BY DEF IInv, EngineInv, SinceInv, FreshModel, CacheHit
<1> QED
  BY <1>1, Inductive, PTL

\* "[DONE]" ends every stream, once, unless the task panicked.
THEOREM DoneEndsStream == Spec => []DoneIsLast
<1>1. IInv => DoneIsLast
  <2> SUFFICES ASSUME IInv, NEW r \in Req
               PROVE  /\ \A i \in DOMAIN sent[r] : sent[r][i] = Done => i = Len(sent[r])
                      /\ pc[r] = "ended" /\ rxOpen[r] =>
                           sent[r] # << >> /\ sent[r][Len(sent[r])] = Done
    BY DEF DoneIsLast
  <2>1. DOMAIN sent[r] = 1 .. Len(sent[r])
    BY DEF IInv, TypeOK
  <2>2. pc[r] = "ended" => out[r] = << >>
    BY DEF IInv, OutShape
  <2> QED
    BY <2>1, <2>2 DEF IInv, StreamInv, DoneLast
<1> QED
  BY <1>1, Inductive, PTL

\* The shared cancel flag does no harm to a request that is alone.
THEOREM SoloIsUndisturbed == Spec => []SoloUndisturbed
<1>1. IInv => SoloUndisturbed
  <2> SUFFICES ASSUME IInv, NEW r \in Req, solo[r]
               PROVE  /\ ~cut[r]
                      /\ \A i, j \in DOMAIN sent[r] :
                           {sent[r][i], sent[r][j]} \subseteq {Trigger, Fragment} => i = j
    BY DEF SoloUndisturbed
  <2>1. DOMAIN sent[r] = 1 .. Len(sent[r])
    BY DEF IInv, TypeOK
  <2>2. ~cut[r] /\ OneTrigger(sent[r])
    BY DEF IInv, SoloInv, Held
  <2> QED
    BY <2>1, <2>2 DEF OneTrigger, TriggerAt
<1> QED
  BY <1>1, Inductive, PTL

\* The dispatcher implements the abstract service: requests are served one at a
\* time, each by the model loaded for it.
THEOREM DispatcherImplementsService == Spec => ImplementsService
<1>1. IInv /\ [Next]_vars => [Service!Next]_(Service!vars)
  BY ServiceStep DEF IInv
<1> QED
  BY <1>1, ServiceInit, Inductive, PTL DEF Spec, ImplementsService, Service!Spec

-----------------------------------------------------------------------------
(***************************************************************************)
(* The HTTP chat handlers: what was shown of the dispatcher holds under    *)
(* them, no receiver is forgotten, and no tool runs twice for a dispatch.  *)
(***************************************************************************)

\* A receiver that the handler of c can reach.
Holds(c, r) == r \in {rx[c], newRx[c]}
Serving(c) == at[c] \notin {"new", "finished"}

\* Receivers are handed out once: an unused dispatch has none, no two handlers
\* share one, and whoever has an open one still serves its client.
ReceiverInv ==
    /\ \A r \in Req : pc[r] = "idle" => ~rxOpen[r]
    /\ \A c \in Client, r \in Req : Holds(c, r) => pc[r] # "idle"
    /\ \A c \in Client : at[c] = "new" => rx[c] = None
    /\ \A c \in Client : newRx[c] # None <=> at[c] = "switching"
    /\ \A c, d \in Client, r \in Req : Holds(c, r) /\ Holds(d, r) => c = d
    /\ \A r \in Req : rxOpen[r] => \E c \in Client : Serving(c) /\ Holds(c, r)

\* Tools and iterations add up, and the stream that a handler reads or is going
\* to read has run none yet.
ToolInv ==
    /\ \A c \in Client : at[c] = "new" => left[c] = MaxIters /\ Len(tools[c]) = 0
    /\ \A c \in Client : Len(tools[c]) + left[c] <= MaxIters
    /\ \A c \in Client : at[c] = "reading" => Len(tools[c]) + left[c] + 1 <= MaxIters
    /\ \A c \in Client : \A i \in 1 .. Len(tools[c]) :
         /\ pc[tools[c][i]] # "idle"
         /\ at[c] = "reading" => tools[c][i] # rx[c]
         /\ at[c] = "switching" => tools[c][i] # newRx[c]
    /\ \A c \in Client : \A i, j \in 1 .. Len(tools[c]) : tools[c][i] = tools[c][j] => i = j

HandlerInv == ChatTypeOK /\ ReceiverInv /\ ToolInv

\* A step of a task neither opens nor closes a receiver, and makes no name free.
LEMMA TaskEffect ==
    ASSUME TypeOK, NEW r \in Req, Task(r)
    PROVE  rxOpen' = rxOpen /\ \A q \in Req : pc'[q] = "idle" <=> pc[q] = "idle"
<1> USE DEF TypeOK, shared, task, stream, history
<1>panic. ASSUME Panic(r), pc[r] # "idle"
          PROVE  \A q \in Req : pc'[q] = "idle" <=> pc[q] = "idle"
  BY <1>panic DEF Panic
<1>gen. ASSUME Generate(r), pc[r] # "idle"
        PROVE  \A q \in Req : pc'[q] = "idle" <=> pc[q] = "idle"
  <2>1. CASE pc' = [pc EXCEPT ![r] = "generating"]
    BY <1>gen, <2>1
  <2>2. CASE Panic(r)
    BY <1>panic, <1>gen, <2>2
  <2> QED BY <1>gen, <2>1, <2>2 DEF Generate
<1>1. CASE AskPermit(r)
  BY <1>1 DEF AskPermit
<1>2. CASE Resolve(r)
  BY <1>2 DEF Resolve
<1>3. CASE AskLock(r)
  BY <1>3 DEF AskLock
<1>4. CASE ReuseEngine(r)
  BY <1>4, <1>gen DEF ReuseEngine
<1>5. CASE LoadEngine(r)
  BY <1>5, <1>gen DEF LoadEngine
<1>6. CASE LoadFails(r)
  BY <1>6 DEF LoadFails
<1>7. CASE KernelMissing(r)
  BY <1>7, <1>panic DEF KernelMissing
<1>8. CASE CallbackCancelled(r)
  BY <1>8 DEF CallbackCancelled, Calls
<1>9. CASE CallbackText(r)
  BY <1>9 DEF CallbackText, Calls
<1>10. CASE CallbackHidden(r)
  BY <1>10 DEF CallbackHidden
<1>11. CASE CallbackCloses(r)
  BY <1>11 DEF CallbackCloses, Calls
<1>12. CASE CallbackAborts(r)
  BY <1>12 DEF CallbackAborts
<1>13. CASE CallbackSend(r)
  BY <1>13 DEF CallbackSend
<1>14. CASE StoreCancel(r)
  BY <1>14 DEF StoreCancel
<1>15. CASE GenerationEnds(r)
  BY <1>15 DEF GenerationEnds
<1>16. CASE FinalCheck(r)
  BY <1>16 DEF FinalCheck
<1>17. CASE TaskSend(r)
  BY <1>17 DEF TaskSend
<1>18. CASE TaskEnds(r)
  BY <1>18 DEF TaskEnds
<1> QED
  BY <1>1, <1>2, <1>3, <1>4, <1>5, <1>6, <1>7, <1>8, <1>9, <1>10, <1>11, <1>12, <1>13,
     <1>14, <1>15, <1>16, <1>17, <1>18 DEF Task

\* What the handlers' own calls do to the names and the receivers.
LEMMA CallEffect ==
    ASSUME TypeOK, NEW r \in Req
    PROVE  /\ DispatchStream(r) => /\ pc[r] = "idle"
                                   /\ pc' = [pc EXCEPT ![r] = "spawned"]
                                   /\ rxOpen' = [rxOpen EXCEPT ![r] = TRUE]
           /\ Receive(r) => pc' = pc /\ rxOpen' = rxOpen
           /\ HangUp(r) => pc' = pc /\ rxOpen' = [rxOpen EXCEPT ![r] = FALSE]
  BY DEF DispatchStream, Receive, HangUp, task

\* A handler that serves its client has a receiver to read, and one that is
\* about to switch has the next.
LEMMA HasReceiver ==
    ASSUME HandlerInv, NEW c \in Client
    PROVE  /\ Serving(c) => rx[c] \in Req
           /\ at[c] = "switching" => newRx[c] \in Req
  BY DEF HandlerInv, ChatTypeOK, ReceiverInv, Serving

\* Every step of the handlers is a step of the dispatcher.
LEMMA ChatStepIsDispatcherStep ==
    HandlerInv /\ [ChatNext]_allVars => [Next]_vars
<1> SUFFICES ASSUME HandlerInv, ChatNext PROVE Next
  BY DEF allVars
<1>1. ASSUME NEW r \in Req, Task(r) PROVE Next
  BY <1>1 DEF ChatNext, Next
<1>2. ASSUME NEW r \in Req, DispatchStream(r) \/ Receive(r) \/ HangUp(r) PROVE Next
  BY <1>2 DEF ChatNext, Next
<1>3. ASSUME NEW c \in Client, Handler(c) \/ Disconnect(c) PROVE Next
  <2>1. Serving(c) => rx[c] \in Req
    BY HasReceiver
  <2>2. CASE Begin(c)
    BY <1>2, <2>2 DEF Begin
  <2>3. CASE Forward(c)
    BY <1>2, <2>1, <2>3 DEF Forward, Reading, Serving
  <2>4. CASE RunTool(c)
    BY <1>2, <2>1, <2>4 DEF RunTool, Reading, Serving
  <2>5. CASE Resume(c)
    BY <1>2, <2>5 DEF Resume
  <2>6. CASE Switch(c)
    BY <1>2, <2>1, <2>6 DEF Switch, Serving
  <2>7. CASE Leave(c)
    BY <1>2, <2>1, <2>7 DEF Leave, Reading, Serving
  <2>8. CASE Disconnect(c)
    BY <1>2, <2>1, <2>8 DEF Disconnect, Serving
  <2> QED
    BY <1>3, <2>2, <2>3, <2>4, <2>5, <2>6, <2>7, <2>8 DEF Handler
<1> QED
  BY <1>1, <1>3 DEF ChatNext

\* The handlers start without a receiver.
LEMMA HandlerInit == ChatInit => HandlerInv
<1> SUFFICES ASSUME ChatInit PROVE HandlerInv
  OBVIOUS
<1> USE NoneAssumption, MaxItersAssumption DEF ChatInit
<1>1. ChatTypeOK
  <2>1. << >> \in Seq(Req) /\ MaxIters \in 0 .. MaxIters
    OBVIOUS
  <2>2. tools \in [Client -> Seq(Req)] /\ left \in [Client -> 0 .. MaxIters]
    BY <2>1
  <2> QED BY <2>2 DEF ChatTypeOK
<1>2. ReceiverInv
  BY DEF ReceiverInv, Init, Holds
<1>3. ToolInv
  <2>1. \A c \in Client : tools[c] = << >> /\ left[c] = MaxIters /\ at[c] = "new"
    OBVIOUS
  <2>2. Len(<< >>) = 0
    OBVIOUS
  <2>3. \A c \in Client : Len(tools[c]) = 0
    BY <2>1, <2>2
  <2>4. \A c \in Client : 1 .. Len(tools[c]) = {}
    BY <2>3
  <2>5. \A c \in Client : Len(tools[c]) + left[c] <= MaxIters
    BY <2>1, <2>3
  <2>6. \A c \in Client : at[c] # "reading"
    BY <2>1
  <2> QED BY <2>1, <2>3, <2>4, <2>5, <2>6 DEF ToolInv
<1> QED BY <1>1, <1>2, <1>3 DEF HandlerInv

\* Handlers keep their types: an iteration is only taken while there is one.
LEMMA HandlerTypeStep == TypeOK /\ HandlerInv /\ [ChatNext]_allVars => ChatTypeOK'
<1> SUFFICES ASSUME TypeOK, HandlerInv, ChatNext PROVE ChatTypeOK'
  BY DEF HandlerInv, ChatTypeOK, allVars, chat
<1> USE MaxItersAssumption, NoneAssumption DEF HandlerInv, ChatTypeOK
<1>1. ASSUME NEW r \in Req, Task(r), UNCHANGED chat PROVE ChatTypeOK'
  BY <1>1 DEF chat
<1>2. ASSUME NEW c \in Client, Handler(c) \/ Disconnect(c) PROVE ChatTypeOK'
  <2>1. Serving(c) => rx[c] \in Req
    BY HasReceiver
  <2>2. CASE Begin(c)
    <3>1. left[c] = MaxIters
      BY <2>2 DEF Begin, ToolInv
    <3> QED BY <2>2, <3>1 DEF Begin
  <2>3. CASE Forward(c)
    BY <2>3 DEF Forward, chat
  <2>4. CASE RunTool(c)
    <3>1. Append(tools[c], rx[c]) \in Seq(Req)
      BY <2>1, <2>4 DEF RunTool, Reading, Serving
    <3> QED BY <2>4, <3>1 DEF RunTool
  <2>5. CASE Resume(c)
    BY <2>5 DEF Resume
  <2>6. CASE Switch(c)
    <3>1. newRx[c] \in Req
      BY <2>6, HasReceiver DEF Switch
    <3>2. UNCHANGED <<mode, tools>> /\ rx' = [rx EXCEPT ![c] = newRx[c]]
          /\ newRx' = [newRx EXCEPT ![c] = None]
      BY <2>6 DEF Switch
    <3>3. CASE MoreIterations(c)
      <4>1. left' = [left EXCEPT ![c] = left[c] - 1] /\ at' = [at EXCEPT ![c] = "reading"]
        BY <2>6, <3>3 DEF Switch
      <4>2. left[c] - 1 \in 0 .. MaxIters
        BY <3>3 DEF MoreIterations
      <4> QED BY <3>1, <3>2, <4>1, <4>2
    <3>4. CASE ~MoreIterations(c)
      <4>1. left' = left /\ at' = [at EXCEPT ![c] = "leaving"]
        BY <2>6, <3>4 DEF Switch
      <4> QED BY <3>1, <3>2, <4>1
    <3> QED BY <3>3, <3>4
  <2>7. CASE Leave(c)
    BY <2>7 DEF Leave, Reading
  <2>8. CASE Disconnect(c)
    BY <2>8 DEF Disconnect
  <2> QED
    BY <1>2, <2>2, <2>3, <2>4, <2>5, <2>6, <2>7, <2>8 DEF Handler
<1> QED
  BY <1>1, <1>2 DEF ChatNext

\* Receivers go from the dispatcher to one handler, and are dropped with it or
\* with the stream it leaves.
LEMMA ReceiverStep == TypeOK /\ HandlerInv /\ [ChatNext]_allVars => ReceiverInv'
<1> SUFFICES ASSUME TypeOK, HandlerInv, ChatNext PROVE ReceiverInv'
  <2>1. ASSUME UNCHANGED allVars, HandlerInv PROVE ReceiverInv'
    BY <2>1 DEF HandlerInv, ReceiverInv, Holds, Serving, allVars, vars, chat, task, stream
  <2> QED BY <2>1
<1> USE NoneAssumption DEF HandlerInv, ChatTypeOK, ReceiverInv, Holds, Serving
<1>types. pc \in [Req -> Phase] /\ rxOpen \in [Req -> BOOLEAN]
  BY DEF TypeOK
<1>1. ASSUME NEW r \in Req, Task(r), UNCHANGED chat PROVE ReceiverInv'
  <2>1. rxOpen' = rxOpen /\ \A q \in Req : pc'[q] = "idle" <=> pc[q] = "idle"
    BY <1>1, TaskEffect
  <2> QED BY <1>1, <2>1 DEF chat
<1>2. ASSUME NEW c \in Client, Handler(c) \/ Disconnect(c) PROVE ReceiverInv'
  <2>1. Serving(c) => rx[c] \in Req
    BY HasReceiver
  <2>2. CASE Begin(c)
    <3>1. PICK r \in Req : DispatchStream(r) /\ rx' = [rx EXCEPT ![c] = r]
      BY <2>2 DEF Begin
    <3>2. /\ pc[r] = "idle" /\ pc' = [pc EXCEPT ![r] = "spawned"]
          /\ rxOpen' = [rxOpen EXCEPT ![r] = TRUE]
      BY <3>1, CallEffect
    <3>3. at[c] = "new" /\ at' = [at EXCEPT ![c] = "reading"] /\ newRx' = newRx
      BY <2>2 DEF Begin
    <3> QED BY <1>types, <3>1, <3>2, <3>3
  <2>3. CASE Forward(c)
    <3>1. pc' = pc /\ rxOpen' = rxOpen
      BY <2>1, <2>3, CallEffect DEF Forward, Reading
    <3> QED BY <2>3, <3>1 DEF Forward, chat
  <2>4. CASE RunTool(c)
    <3>1. pc' = pc /\ rxOpen' = rxOpen
      BY <2>1, <2>4, CallEffect DEF RunTool, Reading
    <3>2. /\ at[c] = "reading" /\ at' = [at EXCEPT ![c] = "tool"]
          /\ UNCHANGED <<rx, newRx>>
      BY <2>4 DEF RunTool, Reading
    <3> QED BY <3>1, <3>2
  <2>5. CASE Resume(c)
    <3>1. PICK r \in Req : DispatchStream(r) /\ newRx' = [newRx EXCEPT ![c] = r]
      BY <2>5 DEF Resume
    <3>2. /\ pc[r] = "idle" /\ pc' = [pc EXCEPT ![r] = "spawned"]
          /\ rxOpen' = [rxOpen EXCEPT ![r] = TRUE]
      BY <3>1, CallEffect
    <3>3. at[c] = "tool" /\ at' = [at EXCEPT ![c] = "switching"] /\ rx' = rx
      BY <2>5 DEF Resume
    <3>4. r # None /\ newRx[c] = None
      BY <3>3
    <3> QED BY <1>types, <3>1, <3>2, <3>3, <3>4
  <2>6. CASE Switch(c)
    <3>1. rx[c] \in Req /\ newRx[c] \in Req
      BY <2>6, HasReceiver DEF Switch
    <3>2. pc' = pc /\ rxOpen' = [rxOpen EXCEPT ![rx[c]] = FALSE]
      BY <2>6, <3>1, CallEffect DEF Switch
    <3>3. /\ at[c] = "switching"
          /\ rx' = [rx EXCEPT ![c] = newRx[c]] /\ newRx' = [newRx EXCEPT ![c] = None]
      BY <2>6 DEF Switch
    <3>4. PICK t \in {"reading", "leaving"} : at' = [at EXCEPT ![c] = t]
      BY <2>6 DEF Switch
    <3> QED BY <1>types, <3>1, <3>2, <3>3, <3>4
  <2>7. ASSUME at[c] \notin {"new", "switching", "finished"}, HangUp(rx[c]),
               at' = [at EXCEPT ![c] = "finished"], UNCHANGED <<rx, newRx>>
        PROVE  ReceiverInv'
    <3>1. rx[c] \in Req /\ newRx[c] = None
      BY <2>1, <2>7
    <3>2. pc' = pc /\ rxOpen' = [rxOpen EXCEPT ![rx[c]] = FALSE]
      BY <2>7, <3>1, CallEffect
    <3> QED BY <1>types, <2>7, <3>1, <3>2
  <2>8. CASE Leave(c)
    BY <2>7, <2>8 DEF Leave, Reading
  <2>9. CASE Disconnect(c)
    BY <2>7, <2>9 DEF Disconnect
  <2> QED
    BY <1>2, <2>2, <2>3, <2>4, <2>5, <2>6, <2>8, <2>9 DEF Handler
<1> QED
  BY <1>1, <1>2 DEF ChatNext

\* A tool is counted against the iteration it runs in, and a stream that is new
\* to its handler has run none.
LEMMA ToolStep == TypeOK /\ HandlerInv /\ [ChatNext]_allVars => ToolInv'
<1> SUFFICES ASSUME TypeOK, HandlerInv, ChatNext PROVE ToolInv'
  <2>1. ASSUME UNCHANGED allVars, HandlerInv PROVE ToolInv'
    BY <2>1 DEF HandlerInv, ToolInv, allVars, vars, chat, task
  <2> QED BY <2>1
<1> USE NoneAssumption, MaxItersAssumption DEF HandlerInv, ChatTypeOK, ToolInv
<1>types. pc \in [Req -> Phase]
  BY DEF TypeOK
<1>len. \A d \in Client : Len(tools[d]) \in Nat /\ left[d] \in Nat
          /\ \A i \in 1 .. Len(tools[d]) : tools[d][i] \in Req
  OBVIOUS
<1>1. ASSUME NEW r \in Req, Task(r), UNCHANGED chat PROVE ToolInv'
  <2>1. \A q \in Req : pc'[q] = "idle" <=> pc[q] = "idle"
    BY <1>1, TaskEffect
  <2>2. UNCHANGED <<at, rx, newRx, left, tools>>
    BY <1>1 DEF chat
  <2>3. \A d \in Client : \A i \in 1 .. Len(tools[d]) : pc'[tools[d][i]] # "idle"
    BY <1>len, <2>1
  <2> QED BY <2>2, <2>3
<1>2. ASSUME NEW c \in Client, Handler(c) \/ Disconnect(c) PROVE ToolInv'
  <2>1. Serving(c) => rx[c] \in Req
    BY HasReceiver
  <2>2. CASE Begin(c)
    <3>1. PICK r \in Req : DispatchStream(r) /\ rx' = [rx EXCEPT ![c] = r]
      BY <2>2 DEF Begin
    <3>2. pc[r] = "idle" /\ pc' = [pc EXCEPT ![r] = "spawned"]
      BY <3>1, CallEffect
    <3>3. /\ at[c] = "new" /\ at' = [at EXCEPT ![c] = "reading"]
          /\ left' = [left EXCEPT ![c] = left[c] - 1] /\ UNCHANGED <<newRx, tools>>
      BY <2>2 DEF Begin
    <3>4. left'[c] = MaxIters - 1 /\ Len(tools'[c]) = 0 /\ 1 .. Len(tools'[c]) = {}
      BY <3>3
    <3>5. \A d \in Client : d # c => /\ at'[d] = at[d] /\ left'[d] = left[d]
                                     /\ tools'[d] = tools[d] /\ rx'[d] = rx[d]
                                     /\ newRx'[d] = newRx[d]
      BY <3>1, <3>3
    <3>6. at'[c] = "reading"
      BY <3>3
    <3>7. \A q \in Req : pc[q] # "idle" => pc'[q] # "idle"
      BY <1>types, <3>2
    <3>8. ASSUME NEW d \in Client
          PROVE  /\ at'[d] = "new" => left'[d] = MaxIters /\ Len(tools'[d]) = 0
                 /\ Len(tools'[d]) + left'[d] <= MaxIters
                 /\ at'[d] = "reading" => Len(tools'[d]) + left'[d] + 1 <= MaxIters
      <4>1. CASE d = c
        BY <3>4, <3>6, <4>1
      <4>2. CASE d # c
        BY <3>5, <4>2
      <4> QED BY <4>1, <4>2
    <3>9. ASSUME NEW d \in Client, NEW i \in 1 .. Len(tools'[d])
          PROVE  /\ d # c /\ tools'[d] = tools[d] /\ tools[d][i] \in Req
                 /\ i \in 1 .. Len(tools[d])
      BY <1>len, <3>4, <3>5
    <3>10. ASSUME NEW d \in Client, NEW i \in 1 .. Len(tools'[d])
           PROVE  /\ pc'[tools'[d][i]] # "idle"
                  /\ at'[d] = "reading" => tools'[d][i] # rx'[d]
                  /\ at'[d] = "switching" => tools'[d][i] # newRx'[d]
      <4>1. /\ d # c /\ tools'[d] = tools[d] /\ tools[d][i] \in Req
            /\ i \in 1 .. Len(tools[d])
        BY <3>9
      <4>2. /\ at'[d] = at[d] /\ rx'[d] = rx[d] /\ newRx'[d] = newRx[d]
        BY <3>5, <4>1
      <4>3. /\ pc[tools[d][i]] # "idle"
            /\ at[d] = "reading" => tools[d][i] # rx[d]
            /\ at[d] = "switching" => tools[d][i] # newRx[d]
        BY <4>1
      <4> QED BY <3>7, <4>1, <4>2, <4>3
    <3>11. ASSUME NEW d \in Client, NEW i \in 1 .. Len(tools'[d]), NEW j \in 1 .. Len(tools'[d]),
                  tools'[d][i] = tools'[d][j]
           PROVE  i = j
      BY <3>9, <3>11
    <3> QED BY <3>8, <3>10, <3>11
  <2>3. CASE Forward(c)
    <3>1. pc' = pc
      BY <2>1, <2>3, CallEffect DEF Forward, Reading, Serving
    <3> QED BY <2>3, <3>1 DEF Forward, chat
  <2>4. CASE RunTool(c)
    <3>1. pc' = pc /\ rx[c] \in Req
      BY <2>1, <2>4, CallEffect DEF RunTool, Reading, Serving
    <3>2. /\ at[c] = "reading" /\ at' = [at EXCEPT ![c] = "tool"]
          /\ tools' = [tools EXCEPT ![c] = Append(tools[c], rx[c])]
          /\ UNCHANGED <<rx, newRx, left>>
      BY <2>4 DEF RunTool, Reading
    <3>3. \A d \in Client : d # c => at'[d] = at[d] /\ tools'[d] = tools[d]
      BY <3>2
    <3>4. at'[c] = "tool" /\ tools'[c] = Append(tools[c], rx[c])
      BY <3>2
    <3>5. /\ Len(tools'[c]) = Len(tools[c]) + 1
          /\ tools'[c][Len(tools[c]) + 1] = rx[c]
          /\ \A i \in 1 .. Len(tools[c]) : tools'[c][i] = tools[c][i]
          /\ \A i \in 1 .. Len(tools'[c]) : i \in 1 .. Len(tools[c]) \/ i = Len(tools[c]) + 1
      BY <3>1, <3>4, <1>len
    <3>6. pc[rx[c]] # "idle"
      BY <3>1 DEF ReceiverInv, Holds
    <3>7. ASSUME NEW d \in Client
          PROVE  /\ at'[d] = "new" => left'[d] = MaxIters /\ Len(tools'[d]) = 0
                 /\ Len(tools'[d]) + left'[d] <= MaxIters
                 /\ at'[d] = "reading" => Len(tools'[d]) + left'[d] + 1 <= MaxIters
      BY <1>len, <3>2, <3>3, <3>4, <3>5
    <3>8. ASSUME NEW d \in Client, NEW i \in 1 .. Len(tools'[d])
          PROVE  /\ pc'[tools'[d][i]] # "idle"
                 /\ at'[d] = "reading" => tools'[d][i] # rx'[d]
                 /\ at'[d] = "switching" => tools'[d][i] # newRx'[d]
      BY <3>1, <3>2, <3>3, <3>4, <3>5, <3>6
    <3>9. ASSUME NEW d \in Client, NEW i \in 1 .. Len(tools'[d]), NEW j \in 1 .. Len(tools'[d]),
                 tools'[d][i] = tools'[d][j]
          PROVE  i = j
      BY <3>2, <3>3, <3>5, <3>9
    <3> QED BY <3>7, <3>8, <3>9
  <2>5. CASE Resume(c)
    <3>1. PICK r \in Req : DispatchStream(r) /\ newRx' = [newRx EXCEPT ![c] = r]
      BY <2>5 DEF Resume
    <3>2. pc[r] = "idle" /\ pc' = [pc EXCEPT ![r] = "spawned"]
      BY <3>1, CallEffect
    <3>3. /\ at[c] = "tool" /\ at' = [at EXCEPT ![c] = "switching"]
          /\ UNCHANGED <<rx, left, tools>>
      BY <2>5 DEF Resume
    <3>4. \A q \in Req : pc[q] # "idle" => pc'[q] # "idle"
      BY <1>types, <3>2
    <3>5. \A d \in Client : d # c => at'[d] = at[d] /\ newRx'[d] = newRx[d]
      BY <3>1, <3>3
    <3>6. at'[c] = "switching" /\ newRx'[c] = r
      BY <3>1, <3>3
    <3>7. ASSUME NEW d \in Client, NEW i \in 1 .. Len(tools[d])
          PROVE  /\ pc'[tools[d][i]] # "idle"
                 /\ at'[d] = "reading" => tools[d][i] # rx[d]
                 /\ at'[d] = "switching" => tools[d][i] # newRx'[d]
      <4>1. pc'[tools[d][i]] # "idle" /\ tools[d][i] # r
        BY <1>len, <3>2, <3>4
      <4>2. CASE d = c
        BY <3>6, <4>1, <4>2
      <4>3. CASE d # c
        BY <3>5, <4>1, <4>3
      <4> QED BY <4>2, <4>3
    <3>8. ASSUME NEW d \in Client
          PROVE  /\ at'[d] = "new" => left[d] = MaxIters /\ Len(tools[d]) = 0
                 /\ at'[d] = "reading" => Len(tools[d]) + left[d] + 1 <= MaxIters
      BY <3>5, <3>6
    <3> QED BY <3>3, <3>7, <3>8
  <2>6. CASE Switch(c)
    <3>1. rx[c] \in Req /\ pc' = pc
      BY <2>1, <2>6, CallEffect DEF Switch, Serving
    <3>2. /\ at[c] = "switching" /\ rx' = [rx EXCEPT ![c] = newRx[c]]
          /\ newRx' = [newRx EXCEPT ![c] = None] /\ tools' = tools
      BY <2>6 DEF Switch
    <3>3. CASE MoreIterations(c)
      <4>1. /\ left' = [left EXCEPT ![c] = left[c] - 1]
            /\ at' = [at EXCEPT ![c] = "reading"]
        BY <2>6, <3>3 DEF Switch
      <4>2. left[c] > 0
        BY <3>3 DEF MoreIterations
      <4> QED BY <1>len, <3>1, <3>2, <4>1, <4>2
    <3>4. CASE ~MoreIterations(c)
      <4>1. left' = left /\ at' = [at EXCEPT ![c] = "leaving"]
        BY <2>6, <3>4 DEF Switch
      <4> QED BY <1>len, <3>1, <3>2, <4>1
    <3> QED BY <3>3, <3>4
  <2>7. ASSUME rx[c] \in Req, HangUp(rx[c]), at' = [at EXCEPT ![c] = "finished"],
               UNCHANGED <<rx, newRx, left, tools>>
        PROVE  ToolInv'
    <3>1. pc' = pc
      BY <2>7, CallEffect
    <3> QED BY <2>7, <3>1
  <2>8. CASE Leave(c)
    BY <2>1, <2>7, <2>8 DEF Leave, Reading, Serving
  <2>9. CASE Disconnect(c)
    BY <2>1, <2>7, <2>9 DEF Disconnect, Serving
  <2> QED
    BY <1>2, <2>2, <2>3, <2>4, <2>5, <2>6, <2>8, <2>9 DEF Handler
<1> QED
  BY <1>1, <1>2 DEF ChatNext

\* Under the handlers the dispatcher and the handlers keep their invariants.
THEOREM HandlersInductive == ChatSpec => [](IInv /\ HandlerInv)
<1>1. ChatInit => IInv /\ HandlerInv
  <2>1. Init => IInv
    BY TypeInit, OutInit, EngineInit, SinceInit, StreamInit, SoloInit DEF IInv
  <2> QED BY <2>1, HandlerInit DEF ChatInit
<1>2. IInv /\ HandlerInv /\ [ChatNext]_allVars => (IInv /\ HandlerInv)'
  <2> SUFFICES ASSUME IInv, HandlerInv, [ChatNext]_allVars PROVE (IInv /\ HandlerInv)'
    OBVIOUS
  <2>1. [Next]_vars /\ TypeOK
    BY ChatStepIsDispatcherStep DEF IInv
  <2>4. CallbackLoaded
    <3>1. ASSUME NEW r \in Req, pc[r] = "callback" PROVE out[r] \in {<<Text>>, <<Trigger>>}
      BY <3>1 DEF IInv, OutShape
    <3> QED BY <3>1 DEF CallbackLoaded
  <2>2. IInv'
    BY <2>1, <2>4, TypeStep, OutStep, EngineStep, SinceStep, StreamStep, SoloStep DEF IInv
  <2>3. HandlerInv'
    BY <2>1, HandlerTypeStep, ReceiverStep, ToolStep DEF HandlerInv
  <2> QED BY <2>2, <2>3
<1> QED
  BY <1>1, <1>2, PTL DEF ChatSpec

\* Seen from the dispatcher, the handlers are callers like any others: every
\* promise of the dispatcher holds for them.
THEOREM HandlersUseDispatcher == ChatSpec => Spec
<1>1. ChatInit => Init
  BY DEF ChatInit
<1>2. HandlerInv /\ [ChatNext]_allVars => [Next]_vars
  BY ChatStepIsDispatcherStep
<1> QED
  BY <1>1, <1>2, HandlersInductive, PTL DEF ChatSpec, Spec

\* Handlers keep their types (chat_completions and its siblings).
THEOREM HandlersTyped == ChatSpec => []ChatTypeOK
<1>1. HandlerInv => ChatTypeOK
  BY DEF HandlerInv
<1> QED
  BY <1>1, HandlersInductive, PTL

\* No receiver is left open by a handler that nobody serves any more: a leaked
\* one would block the engine mutex as soon as its channel is full.
THEOREM ReceiversAreKept == ChatSpec => []NoForgottenReceiver
<1>1. HandlerInv => NoForgottenReceiver
  BY DEF HandlerInv, ReceiverInv, NoForgottenReceiver, Serving, Holds
<1> QED
  BY <1>1, HandlersInductive, PTL

\* A completion runs the tool of a dispatch once and at most MaxIters tools,
\* whatever the dispatcher sends it (the loop over max_iters in chat_completions).
THEOREM ToolsRunOnce == ChatSpec => []ToolOnce
<1>1. HandlerInv => ToolOnce
  <2> SUFFICES ASSUME HandlerInv, NEW c \in Client
               PROVE  /\ Len(tools[c]) <= MaxIters
                      /\ \A i, j \in DOMAIN tools[c] : tools[c][i] = tools[c][j] => i = j
    BY DEF ToolOnce
  <2>1. tools[c] \in Seq(Req) /\ left[c] \in Nat /\ MaxIters \in Nat
    BY MaxItersAssumption DEF HandlerInv, ChatTypeOK
  <2>2. DOMAIN tools[c] = 1 .. Len(tools[c]) /\ Len(tools[c]) \in Nat
    BY <2>1
  <2> QED BY <2>1, <2>2 DEF HandlerInv, ToolInv
<1> QED
  BY <1>1, HandlersInductive, PTL
=============================================================================
