---------------------------- MODULE MytbfProofs ----------------------------
(***************************************************************************)
(* Proofs about Mytbf for any number of threads, structs and slots.        *)
(***************************************************************************)
EXTENDS Mytbf, TLAPS

\* Clamping a count that grew leaves it between 0 and the burst.
LEMMA ClampBound ==
  ASSUME NEW n \in Nat, NEW limit \in Nat
  PROVE  Clamp(n, limit) \in 0 .. limit
  BY DEF Clamp

\* min(a, b) of two counts is a count that is at most each.
LEMMA MinimumBound ==
  ASSUME NEW a \in Nat, NEW b \in Nat
  PROVE  Minimum(a, b) \in 0 .. a /\ Minimum(a, b) \in 0 .. b
  BY DEF Minimum

\* Initially nothing is registered, allocated or under way.
LEMMA InitSound == Init => Sound
<1> SUFFICES ASSUME Init PROVE Sound
  OBVIOUS
<1>1. Registered = {}
  BY DEF Init, Registered
<1>2. TypeOK
  <2>1. /\ job \in [Slot -> Bucket \cup {NULL}] /\ heap \subseteq Bucket
        /\ mut_job \in BOOLEAN /\ alarm \in AlarmState
    BY DEF Init, AlarmState
  <2>2. scan \in 0 .. MYTBF_MAX /\ pos \in [Bucket -> Slot]
    BY SizesAssumption DEF Init, Slot
  <2>3. token \in [Bucket -> 0 .. MaxBurst] /\ cps \in [Bucket -> 1 .. MaxCps]
    BY SizesAssumption DEF Init
  <2>4. burst \in [Bucket -> 1 .. MaxBurst] /\ size \in [Thread -> 0 .. MaxSize]
    BY SizesAssumption DEF Init
  <2>5. pc \in [Thread -> CallState] /\ me \in [Thread -> Bucket \cup {NULL}]
    BY DEF Init, CallState
  <2> QED
    BY <2>1, <2>2, <2>3, <2>4, <2>5 DEF TypeOK
<1>3. SlotOwned /\ Registered \subseteq heap /\ UsersRegistered
      /\ OwnersUnregistered /\ SoleOwner /\ NoLeak
  BY <1>1 DEF Init, SlotOwned, UsersRegistered, OwnersUnregistered, SoleOwner,
              NoLeak, Holding, Owning
<1>4. TokenWithinBurst /\ NoLostWakeup /\ PublishedEmpty
  BY DEF Init, TokenWithinBurst, NoLostWakeup, PublishedEmpty
<1>5. ExitAlone /\ ExitReleasesAll
  BY DEF Init, ExitAlone, ExitReleasesAll, Unloading
<1> QED
  BY <1>1, <1>2, <1>3, <1>4, <1>5 DEF Sound

\* get_free_pos_unlock and job[pos] = me add exactly that bucket ...
LEMMA RegisterAdds ==
  ASSUME TypeOK, NEW i \in Slot, NEW b \in Bucket, job[i] = NULL,
         job' = [job EXCEPT ![i] = b]
  PROVE  Registered' = Registered \cup {b}
  BY NullAssumption DEF TypeOK, Registered

\* ... and job[me->pos] = NULL removes exactly that bucket.
LEMMA UnregisterRemoves ==
  ASSUME TypeOK, SlotOwned, NEW b \in Registered,
         job' = [job EXCEPT ![pos[b]] = NULL]
  PROVE  Registered' = Registered \ {b}
  BY NullAssumption DEF TypeOK, Registered, SlotOwned

\* A step of mytbf_init preserves the invariant.
LEMMA InitCallSound ==
  ASSUME Sound, NEW t \in Thread, InitAlloc(t) \/ InitRegister(t) \/ InitFull(t)
  PROVE  Sound'
<1>1. CASE InitAlloc(t)
  <2>1. Registered' = Registered
    BY <1>1 DEF InitAlloc, Registered
  <2>2. TypeOK'
    <3>1. alarm' \in AlarmState
      BY <1>1 DEF Sound, TypeOK, InitAlloc, StartAlarm, AlarmState
    <3>2. CASE UNCHANGED <<heap, token, cps, burst, callVars>>
      BY <1>1, <3>1, <3>2 DEF Sound, InitAlloc, TypeOK, callVars
    <3>3. CASE ~ UNCHANGED <<heap, token, cps, burst, callVars>>
      BY <1>1, <3>1, <3>3, SizesAssumption DEF Sound, InitAlloc, TypeOK, CallState
    <3> QED
      BY <3>2, <3>3
  <2>3. /\ SlotOwned' /\ (Registered \subseteq heap)' /\ UsersRegistered'
        /\ OwnersUnregistered' /\ SoleOwner' /\ NoLeak'
    BY <1>1, <2>1 DEF Sound, InitAlloc, SlotOwned, UsersRegistered, TypeOK,
       OwnersUnregistered, SoleOwner, NoLeak, Holding, Owning, callVars
  <2>4. TokenWithinBurst' /\ NoLostWakeup' /\ PublishedEmpty'
    BY <1>1, <2>1 DEF Sound, InitAlloc, TokenWithinBurst, NoLostWakeup,
       PublishedEmpty, TypeOK, UsersRegistered, OwnersUnregistered, Holding, Owning, callVars
  <2>5. ExitAlone' /\ ExitReleasesAll'
    BY <1>1, <2>1 DEF Sound, InitAlloc, ExitAlone, ExitReleasesAll, Exiting,
       Unloading, TypeOK, callVars
  <2> QED
    BY <2>1, <2>2, <2>3, <2>4, <2>5 DEF Sound
<1>2. CASE InitRegister(t)
  <2>1. PICK i \in Slot : /\ job[i] = NULL
                         /\ job' = [job EXCEPT ![i] = me[t]]
                         /\ pos' = [pos EXCEPT ![me[t]] = i]
    BY <1>2 DEF InitRegister
  <2>2. me[t] \in heap \ Registered /\ me[t] \in Bucket
    BY <1>2 DEF Sound, TypeOK, OwnersUnregistered, Owning, InitRegister
  <2>3. Registered' = Registered \cup {me[t]}
    BY <2>1, <2>2, RegisterAdds DEF Sound
  <2>4. TypeOK'
    BY <1>2, <2>1, <2>2 DEF Sound, InitRegister, TypeOK, CallState, alarmVars
  <2>5. SlotOwned' /\ (Registered \subseteq heap)'
    BY <1>2, <2>1, <2>2, <2>3 DEF Sound, InitRegister, SlotOwned, TypeOK, Registered
  <2>6. UsersRegistered' /\ OwnersUnregistered' /\ SoleOwner' /\ NoLeak'
    BY <1>2, <2>2, <2>3 DEF Sound, InitRegister, TypeOK, UsersRegistered,
       OwnersUnregistered, SoleOwner, NoLeak, Holding, Owning
  <2>7. TokenWithinBurst' /\ NoLostWakeup' /\ PublishedEmpty'
    BY <1>2 DEF Sound, InitRegister, TypeOK, TokenWithinBurst, NoLostWakeup,
       PublishedEmpty
  <2>8. ExitAlone' /\ ExitReleasesAll'
    BY <1>2 DEF Sound, InitRegister, TypeOK, ExitAlone, ExitReleasesAll, Unloading
  <2> QED
    BY <2>3, <2>4, <2>5, <2>6, <2>7, <2>8 DEF Sound
<1>3. CASE InitFull(t)
  <2>1. Registered' = Registered /\ me[t] \in heap \ Registered
    BY <1>3 DEF InitFull, Registered, Sound, OwnersUnregistered, Owning
  <2>2. TypeOK'
    BY <1>3 DEF Sound, InitFull, TypeOK, CallState, alarmVars, fields
  <2>3. /\ SlotOwned' /\ (Registered \subseteq heap)' /\ UsersRegistered'
        /\ OwnersUnregistered' /\ SoleOwner' /\ NoLeak'
    BY <1>3, <2>1 DEF Sound, InitFull, TypeOK, SlotOwned, UsersRegistered,
       OwnersUnregistered, SoleOwner, NoLeak, Holding, Owning, fields
  <2>4. TokenWithinBurst' /\ NoLostWakeup' /\ PublishedEmpty'
    BY <1>3 DEF Sound, InitFull, TypeOK, TokenWithinBurst, NoLostWakeup,
       PublishedEmpty, fields
  <2>5. ExitAlone' /\ ExitReleasesAll'
    BY <1>3 DEF Sound, InitFull, TypeOK, ExitAlone, ExitReleasesAll, Unloading
  <2> QED
    BY <2>1, <2>2, <2>3, <2>4, <2>5 DEF Sound
<1> QED
  BY <1>1, <1>2, <1>3

\* A step of mytbf_fetchtoken or mytbf_returntoken preserves it.
LEMMA TokenCallSound ==
  ASSUME Sound, NEW t \in Thread,
         \/ \E b \in Bucket, n \in 1 .. MaxSize : FetchCall(t, b, n)
         \/ FetchSleep(t) \/ SpuriousWakeup(t) \/ FetchTake(t) \/ UseAll(t)
         \/ \E n \in 1 .. MaxSize : ReturnToken(t, n)
  PROVE  Sound'
<1>1. CASE \E b \in Bucket, n \in 1 .. MaxSize : FetchCall(t, b, n)
  <2>1. PICK b \in Bucket, n \in 1 .. MaxSize : FetchCall(t, b, n)
    BY <1>1
  <2>2. Registered' = Registered
    BY <2>1 DEF FetchCall, Registered
  <2>3. TypeOK'
    BY <2>1, SizesAssumption DEF Sound, FetchCall, TypeOK, CallState, alarmVars, fields
  <2>4. /\ SlotOwned' /\ (Registered \subseteq heap)' /\ UsersRegistered'
        /\ OwnersUnregistered' /\ SoleOwner' /\ NoLeak'
    BY <2>1, <2>2 DEF Sound, FetchCall, TypeOK, SlotOwned, UsersRegistered,
       OwnersUnregistered, SoleOwner, NoLeak, Holding, Owning, fields
  <2>5. TokenWithinBurst' /\ NoLostWakeup' /\ PublishedEmpty'
    BY <2>1 DEF Sound, FetchCall, TypeOK, TokenWithinBurst, NoLostWakeup,
       PublishedEmpty, fields
  <2>6. ExitAlone' /\ ExitReleasesAll'
    BY <2>1, <2>2 DEF Sound, FetchCall, TypeOK, ExitAlone, ExitReleasesAll,
       Exiting, Unloading
  <2> QED
    BY <2>2, <2>3, <2>4, <2>5, <2>6 DEF Sound
<1>2. CASE FetchSleep(t) \/ SpuriousWakeup(t) \/ UseAll(t)
  <2>1. Registered' = Registered
    BY <1>2 DEF FetchSleep, SpuriousWakeup, UseAll, Registered
  <2>2. TypeOK'
    BY <1>2 DEF Sound, FetchSleep, SpuriousWakeup, UseAll, TypeOK, CallState,
       alarmVars, fields
  <2>3. /\ SlotOwned' /\ (Registered \subseteq heap)' /\ UsersRegistered'
        /\ OwnersUnregistered' /\ SoleOwner' /\ NoLeak'
    BY <1>2, <2>1 DEF Sound, FetchSleep, SpuriousWakeup, UseAll, TypeOK, SlotOwned,
       UsersRegistered, OwnersUnregistered, SoleOwner, NoLeak, Holding, Owning, fields
  <2>4. TokenWithinBurst' /\ PublishedEmpty'
    BY <1>2 DEF Sound, FetchSleep, SpuriousWakeup, UseAll, TypeOK,
       TokenWithinBurst, PublishedEmpty, fields
  <2>5. NoLostWakeup'
    <3>1. pc[t] = "fetch" => me[t] \in Bucket
      BY DEF Sound, TypeOK, UsersRegistered, Holding, Registered
    <3> QED
      BY <1>2, <3>1 DEF Sound, FetchSleep, SpuriousWakeup, UseAll, TypeOK, NoLostWakeup
  <2>6. ExitAlone' /\ ExitReleasesAll'
    BY <1>2, <2>1 DEF Sound, FetchSleep, SpuriousWakeup, UseAll, TypeOK, ExitAlone,
       ExitReleasesAll, Unloading
  <2> QED
    BY <2>1, <2>2, <2>3, <2>4, <2>5, <2>6 DEF Sound
<1>3. CASE FetchTake(t)
  <2> DEFINE n == Minimum(token[me[t]], size[t])
  <2>1. me[t] \in Bucket /\ me[t] \in Registered /\ me[t] \in heap
    BY <1>3 DEF Sound, TypeOK, UsersRegistered, Holding, FetchTake
  <2>2. n \in 0 .. token[me[t]] /\ n \in 0 .. MaxSize
    <3>1. token[me[t]] \in Nat /\ size[t] \in Nat /\ size[t] \in 0 .. MaxSize
      BY <2>1, SizesAssumption DEF Sound, TypeOK
    <3>2. n \in 0 .. token[me[t]] /\ n \in 0 .. size[t]
      BY <3>1, MinimumBound
    <3> QED
      BY <3>1, <3>2, SizesAssumption
  <2>3. /\ token' = [token EXCEPT ![me[t]] = @ - n] /\ size' = [size EXCEPT ![t] = n]
        /\ token[me[t]] - n \in 0 .. token[me[t]]
    BY <1>3, <2>1, <2>2 DEF FetchTake, Sound, TypeOK
  <2> HIDE DEF n
  <2>4. Registered' = Registered
    BY <1>3 DEF FetchTake, Registered
  <2>5. TypeOK'
    <3>1. token' \in [Bucket -> 0 .. MaxBurst] /\ size' \in [Thread -> 0 .. MaxSize]
      BY <2>1, <2>2, <2>3, SizesAssumption DEF Sound, TypeOK
    <3> QED
      BY <1>3, <3>1 DEF Sound, TypeOK, FetchTake, CallState, alarmVars, fields
  <2>6. /\ SlotOwned' /\ (Registered \subseteq heap)' /\ UsersRegistered'
        /\ OwnersUnregistered' /\ SoleOwner' /\ NoLeak'
    BY <1>3, <2>4 DEF Sound, FetchTake, TypeOK, SlotOwned, UsersRegistered,
       OwnersUnregistered, SoleOwner, NoLeak, Holding, Owning, fields
  <2>7. TokenWithinBurst' /\ PublishedEmpty'
    BY <1>3, <2>1, <2>3 DEF Sound, FetchTake, TypeOK, TokenWithinBurst,
       PublishedEmpty, OwnersUnregistered, Owning, fields
  <2>8. NoLostWakeup'
    BY <1>3, <2>1, <2>3 DEF Sound, FetchTake, TypeOK, NoLostWakeup,
       UsersRegistered, Holding
  <2>9. ExitAlone' /\ ExitReleasesAll'
    BY <1>3, <2>4 DEF Sound, FetchTake, TypeOK, ExitAlone, ExitReleasesAll, Unloading
  <2> QED
    BY <2>4, <2>5, <2>6, <2>7, <2>8, <2>9 DEF Sound
<1>4. CASE \E n \in 1 .. MaxSize : ReturnToken(t, n)
  <2>1. PICK n \in 1 .. MaxSize : ReturnToken(t, n)
    BY <1>4
  <2> DEFINE filled == Clamp(token[me[t]] + n, burst[me[t]])
  <2>2. me[t] \in Bucket /\ me[t] \in Registered /\ me[t] \in heap
    BY <2>1 DEF Sound, TypeOK, UsersRegistered, Holding, ReturnToken
  <2>3. filled \in 0 .. burst[me[t]]
    <3>1. token[me[t]] + n \in Nat /\ burst[me[t]] \in Nat
      BY <2>2, SizesAssumption DEF Sound, TypeOK
    <3> QED
      BY <3>1, ClampBound
  <2>4. token' = [token EXCEPT ![me[t]] = filled]
    BY <2>1, <2>2 DEF ReturnToken, Sound, TypeOK
  <2>5. \A u \in Thread : pc'[u] = IF u = t THEN "idle"
                                  ELSE IF pc[u] = "wait" /\ me[u] = me[t]
                                       THEN "fetch" ELSE pc[u]
    BY <2>1 DEF ReturnToken
  <2> HIDE DEF filled
  <2>6. Registered' = Registered
    BY <2>1 DEF ReturnToken, Registered
  <2>7. TypeOK'
    <3>1. token' \in [Bucket -> 0 .. MaxBurst]
      BY <2>2, <2>3, <2>4, SizesAssumption DEF Sound, TypeOK
    <3>2. pc' \in [Thread -> CallState]
      BY <2>1, <2>5 DEF ReturnToken, Sound, TypeOK, CallState
    <3> QED
      BY <2>1, <3>1, <3>2 DEF Sound, TypeOK, ReturnToken, alarmVars, fields
  <2>8. /\ SlotOwned' /\ (Registered \subseteq heap)' /\ UsersRegistered'
        /\ OwnersUnregistered' /\ SoleOwner' /\ NoLeak'
    BY <2>1, <2>5, <2>6 DEF Sound, ReturnToken, TypeOK, SlotOwned, UsersRegistered,
       OwnersUnregistered, SoleOwner, NoLeak, Holding, Owning, fields
  <2>9. TokenWithinBurst' /\ PublishedEmpty'
    BY <2>1, <2>2, <2>3, <2>4, <2>5 DEF Sound, ReturnToken, TypeOK,
       TokenWithinBurst, PublishedEmpty, OwnersUnregistered, Owning, fields
  <2>10. NoLostWakeup'
    BY <2>1, <2>2, <2>4, <2>5 DEF Sound, ReturnToken, TypeOK, NoLostWakeup,
       UsersRegistered, Holding
  <2>11. ExitAlone' /\ ExitReleasesAll'
    BY <2>1, <2>5, <2>6 DEF Sound, ReturnToken, TypeOK, ExitAlone,
       ExitReleasesAll, Unloading
  <2> QED
    BY <2>6, <2>7, <2>8, <2>9, <2>10, <2>11 DEF Sound
<1> QED
  BY <1>1, <1>2, <1>3, <1>4

\* A step of mytbf_destory or of module_unload preserves it.
LEMMA DestroySound ==
  ASSUME Sound, NEW t \in Thread,
         \/ \E b \in Bucket : DestroyUnregister(t, b)
         \/ DestroyFree(t) \/ Exit(t) \/ UnloadJoin(t) \/ UnloadDestroy(t)
         \/ UnloadFree(t) \/ UnloadDone(t)
  PROVE  Sound'
<1>1. CASE (\E b \in Bucket : DestroyUnregister(t, b)) \/ UnloadDestroy(t)
  <2>1. PICK b \in Registered : /\ job' = [job EXCEPT ![pos[b]] = NULL]
                               /\ me' = [me EXCEPT ![t] = b]
    BY <1>1 DEF DestroyUnregister, UnloadDestroy, Registered
  <2>2. /\ pc' = [pc EXCEPT ![t] = "free"] \/ pc' = [pc EXCEPT ![t] = "unloadFree"]
        /\ UNCHANGED <<alarmVars, heap, token, fields, size>>
    BY <1>1 DEF DestroyUnregister, UnloadDestroy
  <2>3. \A u \in Thread : u # t => pc[u] = "idle" \/ me[u] # b
    BY <1>1, <2>1, NullAssumption DEF DestroyUnregister, UnloadDestroy, Unused, Sound, TypeOK,
       ExitAlone, Unloading
  <2>4. Registered' = Registered \ {b} /\ b \in Bucket /\ b \in heap
    BY <2>1, UnregisterRemoves DEF Sound, TypeOK, Registered
  <2>5. TypeOK'
    <3>1. job' \in [Slot -> Bucket \cup {NULL}]
      BY <2>1 DEF Sound, TypeOK
    <3> QED
      BY <2>1, <2>2, <2>4, <3>1 DEF Sound, TypeOK, CallState, Unloading, alarmVars, fields
  <2>6. SlotOwned' /\ (Registered \subseteq heap)'
    BY <2>1, <2>2, <2>4 DEF Sound, TypeOK, SlotOwned, fields
  <2>7. UsersRegistered' /\ OwnersUnregistered' /\ SoleOwner'
    BY <2>1, <2>2, <2>3, <2>4 DEF Sound, TypeOK, UsersRegistered,
       OwnersUnregistered, SoleOwner, Holding, Owning
  <2>8. NoLeak'
    <3>1. pc[t] \notin Owning /\ pc'[t] \in {"free", "unloadFree"} /\ me'[t] = b
      BY <1>1, <2>1, <2>2 DEF DestroyUnregister, UnloadDestroy, Owning, Sound, TypeOK
    <3>2. \A u \in Thread : u # t => pc'[u] = pc[u] /\ me'[u] = me[u]
      BY <2>1, <2>2 DEF Sound, TypeOK
    <3>3. heap' = heap
      BY <2>2
    <3>4. SUFFICES ASSUME NEW x \in heap, x \notin Registered'
                   PROVE  \E u \in Thread : /\ me'[u] = x
                                            /\ pc'[u] \in {"register", "free", "unloadFree"}
      BY <3>3 DEF NoLeak
    <3>5. CASE x = b
      BY <3>1, <3>5
    <3>6. CASE x # b
      <4>1. x \notin Registered
        BY <2>4, <3>4, <3>6
      <4>2. PICK u \in Thread : me[u] = x /\ pc[u] \in {"register", "free", "unloadFree"}
        BY <3>4, <4>1 DEF Sound, NoLeak
      <4> QED
        BY <3>1, <3>2, <4>2 DEF Owning
    <3> QED
      BY <3>5, <3>6
  <2>9. TokenWithinBurst' /\ NoLostWakeup' /\ PublishedEmpty'
    BY <2>1, <2>2 DEF Sound, TypeOK, TokenWithinBurst, NoLostWakeup,
       PublishedEmpty, fields
  <2>10. ExitAlone' /\ ExitReleasesAll'
    BY <1>1, <2>2 DEF Sound, TypeOK, ExitAlone, ExitReleasesAll, Exiting,
       DestroyUnregister, UnloadDestroy, Unloading
  <2> QED
    BY <2>4, <2>5, <2>6, <2>7, <2>8, <2>9, <2>10 DEF Sound
<1>2. CASE DestroyFree(t) \/ UnloadFree(t)
  <2>1. /\ Registered' = Registered /\ heap' = heap \ {me[t]}
        /\ me[t] \notin Registered /\ pc[t] \in Owning
        /\ pc' = [pc EXCEPT ![t] = "idle"] \/ pc' = [pc EXCEPT ![t] = "unload"]
        /\ UNCHANGED <<job, alarmVars, token, fields, me, size>>
    BY <1>2 DEF DestroyFree, UnloadFree, Registered, Sound, OwnersUnregistered, Owning
  <2>2. TypeOK'
    BY <2>1 DEF Sound, TypeOK, CallState, Unloading, alarmVars, fields
  <2>3. /\ SlotOwned' /\ (Registered \subseteq heap)' /\ UsersRegistered'
        /\ OwnersUnregistered' /\ SoleOwner' /\ NoLeak'
    BY <2>1 DEF Sound, TypeOK, SlotOwned, UsersRegistered,
       OwnersUnregistered, SoleOwner, NoLeak, Holding, Owning, fields
  <2>4. TokenWithinBurst' /\ NoLostWakeup' /\ PublishedEmpty'
    BY <2>1 DEF Sound, TypeOK, TokenWithinBurst, NoLostWakeup,
       PublishedEmpty, fields
  <2>5. ExitAlone' /\ ExitReleasesAll'
    BY <1>2, <2>1 DEF DestroyFree, UnloadFree, Sound, TypeOK, ExitAlone,
       ExitReleasesAll, Unloading
  <2> QED
    BY <2>1, <2>2, <2>3, <2>4, <2>5 DEF Sound
<1>3. CASE Exit(t) \/ UnloadJoin(t) \/ UnloadDone(t)
  <2>1. Registered' = Registered /\ UNCHANGED <<job, alarmVars, heap, token, fields, me, size>>
    BY <1>3 DEF Exit, UnloadJoin, UnloadDone, Registered
  <2>2. TypeOK'
    BY <1>3 DEF Sound, Exit, UnloadJoin, UnloadDone, TypeOK, CallState, Unloading,
       alarmVars, fields
  <2>3. /\ SlotOwned' /\ (Registered \subseteq heap)' /\ UsersRegistered'
        /\ OwnersUnregistered' /\ SoleOwner' /\ NoLeak'
    BY <1>3, <2>1 DEF Exit, UnloadJoin, UnloadDone, Sound, TypeOK, SlotOwned, UsersRegistered,
       OwnersUnregistered, SoleOwner, NoLeak, Holding, Owning, fields
  <2>4. TokenWithinBurst' /\ NoLostWakeup' /\ PublishedEmpty'
    BY <1>3, <2>1 DEF Exit, UnloadJoin, UnloadDone, Sound, TypeOK, TokenWithinBurst, NoLostWakeup,
       PublishedEmpty, fields
  <2>5. ExitAlone'
    BY <1>3 DEF Exit, UnloadJoin, UnloadDone, Sound, TypeOK, ExitAlone, Unloading
  <2>6. ExitReleasesAll'
    <3>1. CASE Exit(t) \/ UnloadJoin(t)
      BY <3>1, <2>1 DEF Exit, UnloadJoin, Sound, TypeOK, ExitReleasesAll
    <3>2. CASE UnloadDone(t)
      <4>1. Registered = {}
        BY <3>2 DEF UnloadDone, Registered
      <4>2. \A u \in Thread : pc[u] \notin {"register", "free", "unloadFree"}
        BY <3>2 DEF UnloadDone, Sound, ExitAlone, Unloading
      <4>3. heap = {}
        BY <4>1, <4>2 DEF Sound, NoLeak
      <4> QED
        BY <2>1, <4>1, <4>3 DEF ExitReleasesAll
    <3> QED
      BY <1>3, <3>1, <3>2
  <2> QED
    BY <2>1, <2>2, <2>3, <2>4, <2>5, <2>6 DEF Sound
<1> QED
  BY <1>1, <1>2, <1>3

\* A step of thr_alarm preserves it.
LEMMA AlarmSound ==
  ASSUME Sound, Alarm
  PROVE  Sound'
<1>1. CASE AlarmJob
  <2> DEFINE b == job[scan]
             filled == Clamp(token[b] + cps[b], burst[b])
  <2>1. b \in Bucket /\ b \in Registered /\ scan \in Slot
    BY <1>1, SizesAssumption DEF AlarmJob, Sound, TypeOK, Registered, Slot
  <2>2. filled \in 0 .. burst[b]
    <3>1. token[b] + cps[b] \in Nat /\ burst[b] \in Nat
      BY <2>1, SizesAssumption DEF Sound, TypeOK
    <3> QED
      BY <3>1, ClampBound
  <2>3. token' = [token EXCEPT ![b] = filled]
    BY <1>1, <2>1 DEF AlarmJob, Sound, TypeOK
  <2>4. \A u \in Thread : pc'[u] = IF pc[u] = "wait" /\ me[u] = b THEN "fetch" ELSE pc[u]
    BY <1>1 DEF AlarmJob, Broadcast
  <2>5. scan + 1 \in 0 .. MYTBF_MAX
    BY <1>1, SizesAssumption DEF AlarmJob, Sound, TypeOK
  <2>6. /\ UNCHANGED <<job, mut_job, alarm, heap, fields, me, size>> /\ scan' = scan + 1
        /\ Registered' = Registered
    BY <1>1 DEF AlarmJob, Registered
  <2> HIDE DEF b, filled
  <2>7. TypeOK'
    <3>1. token' \in [Bucket -> 0 .. MaxBurst]
      BY <2>1, <2>2, <2>3, SizesAssumption DEF Sound, TypeOK
    <3>2. pc' \in [Thread -> CallState]
      BY <1>1 DEF AlarmJob, Broadcast, Sound, TypeOK, CallState
    <3> QED
      BY <2>5, <2>6, <3>1, <3>2 DEF Sound, TypeOK, fields
  <2>8. /\ SlotOwned' /\ (Registered \subseteq heap)' /\ UsersRegistered'
        /\ OwnersUnregistered' /\ SoleOwner' /\ NoLeak'
    BY <2>4, <2>6 DEF Sound, TypeOK, SlotOwned, UsersRegistered,
       OwnersUnregistered, SoleOwner, NoLeak, Holding, Owning, fields
  <2>9. TokenWithinBurst' /\ PublishedEmpty'
    BY <2>1, <2>2, <2>3, <2>4, <2>6 DEF Sound, TypeOK,
       TokenWithinBurst, PublishedEmpty, OwnersUnregistered, Owning, fields
  <2>10. NoLostWakeup'
    BY <2>1, <2>3, <2>4, <2>6 DEF Sound, TypeOK, NoLostWakeup, UsersRegistered, Holding
  <2>11. ExitAlone' /\ ExitReleasesAll'
    BY <2>4, <2>6 DEF Sound, TypeOK, ExitAlone, ExitReleasesAll, Unloading
  <2> QED
    BY <2>6, <2>7, <2>8, <2>9, <2>10, <2>11 DEF Sound
<1>2. CASE AlarmLock \/ AlarmSkip \/ AlarmUnlock \/ AlarmWake \/ AlarmCancelled
  <2>1. UNCHANGED <<job, heap, token, fields, callVars>> /\ Registered' = Registered
    BY <1>2 DEF AlarmLock, AlarmSkip, AlarmUnlock, AlarmWake, AlarmCancelled, Registered
  <2>2. TypeOK'
    <3>1. alarm' \in AlarmState /\ scan' \in 0 .. MYTBF_MAX
      BY <1>2, SizesAssumption DEF AlarmLock, AlarmSkip, AlarmUnlock, AlarmWake,
         AlarmCancelled, Sound, TypeOK, AlarmState
    <3>2. mut_job' \in BOOLEAN
      BY <1>2 DEF AlarmLock, AlarmSkip, AlarmUnlock, AlarmWake, AlarmCancelled,
         Sound, TypeOK
    <3> QED
      BY <2>1, <3>1, <3>2 DEF Sound, TypeOK, fields, callVars
  <2> QED
    BY <2>1, <2>2 DEF Sound, TypeOK, SlotOwned, UsersRegistered, OwnersUnregistered,
       SoleOwner, NoLeak, TokenWithinBurst, NoLostWakeup, PublishedEmpty, ExitAlone,
       ExitReleasesAll, fields, callVars
<1> QED
  BY <1>1, <1>2 DEF Alarm

\* exit(1) without thr_alarm: nothing was made.
LEMMA NoAlarmSound ==
  ASSUME IInv, NEW t \in Thread, StartAlarmFails(t)
  PROVE  Sound'
<1>1. /\ pc' = [pc EXCEPT ![t] = "exited"] /\ heap = {} /\ Registered = {}
      /\ \A u \in Thread : u # t => pc[u] = "idle"
      /\ UNCHANGED <<job, alarmVars, heap, token, fields, me, size>> /\ Registered' = Registered
  BY DEF IInv, AlarmFirst, Sound, StartAlarmFails, Exiting, Unloading, Registered
<1>2. TypeOK'
  BY <1>1 DEF IInv, Sound, TypeOK, CallState, Unloading, alarmVars, fields
<1>3. /\ SlotOwned' /\ (Registered \subseteq heap)' /\ UsersRegistered'
      /\ OwnersUnregistered' /\ SoleOwner' /\ NoLeak'
  BY <1>1 DEF IInv, Sound, TypeOK, SlotOwned, UsersRegistered,
     OwnersUnregistered, SoleOwner, NoLeak, Holding, Owning, fields
<1>4. TokenWithinBurst' /\ NoLostWakeup' /\ PublishedEmpty'
  BY <1>1 DEF IInv, Sound, TypeOK, TokenWithinBurst, NoLostWakeup, PublishedEmpty, fields
<1>5. ExitAlone' /\ ExitReleasesAll'
  BY <1>1 DEF IInv, Sound, TypeOK, ExitAlone, ExitReleasesAll, Unloading
<1> QED
  BY <1>1, <1>2, <1>3, <1>4, <1>5 DEF Sound

\* thr_alarm comes before the first bucket and the first call that needs it.
LEMMA AlarmComesFirst ==
  ASSUME IInv, [Next]_vars
  PROVE  AlarmFirst'
<1> SUFFICES ASSUME alarm' = "none" PROVE heap' = {} /\ \A t \in Thread : pc'[t] \in {"idle", "exited"}
  BY DEF AlarmFirst
<1>1. CASE Alarm
  BY <1>1 DEF Alarm, AlarmLock, AlarmJob, AlarmSkip, AlarmUnlock, AlarmWake, AlarmCancelled
<1>2. ASSUME NEW t \in Thread, Proceed(t) \/ Call(t)
      PROVE  heap' = {} /\ \A u \in Thread : pc'[u] \in {"idle", "exited"}
  <2>1. CASE InitAlloc(t)
    BY <2>1 DEF InitAlloc, StartAlarm
  <2>2. CASE ~InitAlloc(t)
    <3>1. alarm' = alarm
      BY <1>2, <2>2 DEF Proceed, Call, StartAlarmFails, InitRegister, InitFull, FetchCall, FetchSleep,
         SpuriousWakeup, FetchTake, UseAll, ReturnToken, DestroyUnregister, DestroyFree, Exit, UnloadJoin,
         UnloadDestroy, UnloadFree, UnloadDone, alarmVars
    <3>2. heap = {} /\ Registered = {} /\ \A u \in Thread : pc[u] \in {"idle", "exited"}
      BY <3>1 DEF IInv, AlarmFirst, Sound
    <3>3. StartAlarmFails(t)
      BY <1>2, <2>2, <3>1, <3>2 DEF Proceed, Call, InitRegister, InitFull, FetchCall, FetchSleep,
         SpuriousWakeup, FetchTake, UseAll, ReturnToken, DestroyUnregister, DestroyFree, Exit, UnloadJoin,
         UnloadDestroy, UnloadFree, UnloadDone
    <3> QED
      BY <3>2, <3>3 DEF StartAlarmFails, IInv, Sound, TypeOK
  <2> QED
    BY <2>1, <2>2
<1>3. CASE UNCHANGED vars
  BY <1>3 DEF vars, IInv, AlarmFirst
<1> QED
  BY <1>1, <1>2, <1>3 DEF Next, Exited

\* The inductive invariant holds in every reachable state.
THEOREM Invariance == Spec => []IInv
<1>1. Init => IInv
  BY InitSound DEF Init, IInv, AlarmFirst
<1>2. IInv /\ [Next]_vars => IInv'
  <2> SUFFICES ASSUME IInv, [Next]_vars PROVE Sound'
    BY AlarmComesFirst DEF IInv
  <2>1. CASE Alarm
    BY <2>1, AlarmSound DEF IInv
  <2>2. ASSUME NEW t \in Thread, Proceed(t) \/ Call(t) PROVE Sound'
    BY <2>2, NoAlarmSound, InitCallSound, TokenCallSound, DestroySound DEF Proceed, Call, IInv
  <2>3. CASE UNCHANGED vars
    BY <2>3 DEF vars, IInv, Sound, TypeOK, Registered, SlotOwned, UsersRegistered,
       OwnersUnregistered, SoleOwner, NoLeak, TokenWithinBurst, NoLostWakeup,
       PublishedEmpty, ExitAlone, ExitReleasesAll
  <2> QED
    BY <2>1, <2>2, <2>3 DEF Next, Exited
<1> QED
  BY <1>1, <1>2, PTL DEF Spec

\* Type correctness.
THEOREM TypeCorrect == Spec => []TypeOK
  BY Invariance, PTL DEF IInv, Sound

\* The counts stay within the burst and no broadcast is lost.
THEOREM TokensSound == Spec => [](TokenWithinBurst /\ NoLostWakeup)
  BY Invariance, PTL DEF IInv, Sound

\* Neither thr_alarm nor a caller ever touches a freed bucket.
THEOREM MemorySafe == Spec => []NoUseAfterFree
<1>1. IInv => NoUseAfterFree
  BY DEF IInv, Sound, NoUseAfterFree, UsersRegistered, OwnersUnregistered, Holding, Owning
<1> QED
  BY <1>1, Invariance, PTL

\* Every bucket that was allocated is in job[] or in the hands of the call that
\* allocated or unregistered it.
THEOREM NothingLeaked == Spec => []NoLeak
  BY Invariance, PTL DEF IInv, Sound

\* The registry never confuses two buckets, leaks none, and exit() frees all.
THEOREM RegistrySound == Spec => [](SlotOwned /\ NoLeak /\ ExitReleasesAll)
  BY Invariance, PTL DEF IInv, Sound

\* A fetch under way asks for at least one token (-EINVAL otherwise).
AsksSome == \A t \in Thread : pc[t] \in {"fetch", "wait"} => size[t] > 0

\* No call past the size check of mytbf_fetchtoken asks for nothing.
LEMMA AsksSomeInvariant == Spec => []AsksSome
<1>1. Init => AsksSome
  BY DEF Init, AsksSome
<1>2. IInv /\ AsksSome /\ [Next]_vars => AsksSome'
  <2> SUFFICES ASSUME IInv, AsksSome, [Next]_vars PROVE AsksSome'
    OBVIOUS
  <2>1. CASE Alarm
    BY <2>1 DEF Alarm, AlarmLock, AlarmJob, AlarmSkip, AlarmUnlock, AlarmWake,
       AlarmCancelled, Broadcast, AsksSome, callVars, IInv, Sound, TypeOK
  <2>2. ASSUME NEW t \in Thread, Proceed(t) \/ Call(t) PROVE AsksSome'
    <3>1. CASE FetchTake(t) \/ FetchSleep(t) \/ SpuriousWakeup(t) \/ UseAll(t)
      BY <3>1 DEF FetchTake, FetchSleep, SpuriousWakeup, UseAll, AsksSome, IInv, Sound, TypeOK
    <3>2. CASE \/ \E b \in Bucket, n \in 1 .. MaxSize : FetchCall(t, b, n)
               \/ \E n \in 1 .. MaxSize : ReturnToken(t, n)
      BY <3>2 DEF FetchCall, ReturnToken, AsksSome, IInv, Sound, TypeOK
    <3>3. CASE StartAlarmFails(t) \/ InitAlloc(t) \/ InitRegister(t) \/ InitFull(t)
      BY <3>3 DEF StartAlarmFails, InitAlloc, InitRegister, InitFull, AsksSome, callVars, IInv, Sound, TypeOK
    <3>4. CASE \/ \E b \in Bucket : DestroyUnregister(t, b)
               \/ DestroyFree(t) \/ Exit(t) \/ UnloadJoin(t) \/ UnloadDestroy(t)
               \/ UnloadFree(t) \/ UnloadDone(t)
      BY <3>4 DEF DestroyUnregister, DestroyFree, Exit, UnloadJoin, UnloadDestroy,
         UnloadFree, UnloadDone, AsksSome, IInv, Sound, TypeOK
    <3> QED
      BY <2>2, <3>1, <3>2, <3>3, <3>4 DEF Proceed, Call
  <2>3. CASE UNCHANGED vars
    BY <2>3 DEF vars, AsksSome
  <2> QED
    BY <2>1, <2>2, <2>3 DEF Next, Exited
<1> QED
  BY <1>1, <1>2, Invariance, PTL DEF Spec

\* The library implements TokenBucket: every step is an abstract step of one
\* bucket or leaves the registered set and the levels alone.
THEOREM Refinement == Spec => KeepsPromise
<1>1. Init => TB!Init
  <2>1. ASSUME Init PROVE Registered = {}
    BY <2>1 DEF Init, Registered
  <2>2. 1 \in 1 .. MaxCps /\ 1 \in 1 .. MaxBurst
    BY SizesAssumption
  <2> QED
    BY <2>1, <2>2 DEF Init, TB!Init
<1>2. IInv /\ AsksSome /\ [Next]_vars => [TB!Next]_(TB!bucketVars)
  <2> SUFFICES ASSUME IInv, AsksSome, [Next]_vars
               PROVE  TB!Next \/ UNCHANGED TB!bucketVars
    OBVIOUS
  <2> DEFINE Same == /\ Registered' = Registered
                     /\ UNCHANGED <<token, cps, burst>>
  <2>1. Same => UNCHANGED TB!bucketVars
    BY DEF TB!bucketVars
  <2>2. CASE Alarm
    <3>1. CASE AlarmJob
      <4> DEFINE b == job[scan]
      <4>1. b \in Bucket /\ b \in Registered
        BY <3>1, SizesAssumption DEF AlarmJob, IInv, Sound, TypeOK, Registered, Slot
      <4>2. TB!Credit(b)
        BY <3>1, <4>1 DEF AlarmJob, TB!Credit, Registered, fields, Clamp, TB!Clamp
      <4> QED
        BY <4>1, <4>2 DEF TB!Next
    <3>2. CASE AlarmLock \/ AlarmSkip \/ AlarmUnlock \/ AlarmWake \/ AlarmCancelled
      BY <2>1, <3>2 DEF AlarmLock, AlarmSkip, AlarmUnlock, AlarmWake,
         AlarmCancelled, Registered, fields
    <3> QED
      BY <2>2, <3>1, <3>2 DEF Alarm
  <2>3. ASSUME NEW t \in Thread, Proceed(t) \/ Call(t)
        PROVE  TB!Next \/ UNCHANGED TB!bucketVars
    <3>1. CASE InitAlloc(t)
      <4>1. CASE UNCHANGED <<heap, token, cps, burst, callVars>>
        BY <2>1, <3>1, <4>1 DEF InitAlloc, Registered
      <4>2. CASE ~ UNCHANGED <<heap, token, cps, burst, callVars>>
        <5>1. PICK b \in Bucket \ heap, c \in 1 .. MaxCps, u \in 1 .. MaxBurst :
                /\ token' = [token EXCEPT ![b] = 0]
                /\ cps' = [cps EXCEPT ![b] = c]
                /\ burst' = [burst EXCEPT ![b] = u]
          BY <3>1, <4>2 DEF InitAlloc
        <5>2. b \notin Registered /\ Registered' = Registered
          BY <3>1 DEF InitAlloc, IInv, Sound, Registered
        <5>3. TB!Prepare(b)
          BY <5>1, <5>2 DEF TB!Prepare
        <5> QED
          BY <5>3 DEF TB!Next
      <4> QED
        BY <4>1, <4>2
    <3>2. CASE InitRegister(t)
      <4>1. me[t] \in heap \ Registered /\ me[t] \in Bucket /\ token[me[t]] = 0
        BY <3>2 DEF InitRegister, IInv, Sound, TypeOK, OwnersUnregistered, PublishedEmpty, Owning
      <4>2. Registered' = Registered \cup {me[t]}
        BY <3>2, <4>1, RegisterAdds DEF InitRegister, IInv, Sound
      <4>3. TB!Open(me[t])
        BY <3>2, <4>1, <4>2 DEF InitRegister, TB!Open
      <4> QED
        BY <4>1, <4>3 DEF TB!Next
    <3>3. CASE \/ StartAlarmFails(t) \/ InitFull(t) \/ FetchSleep(t) \/ DestroyFree(t) \/ SpuriousWakeup(t)
               \/ UseAll(t) \/ Exit(t) \/ UnloadJoin(t) \/ UnloadFree(t) \/ UnloadDone(t)
               \/ \E b \in Bucket, n \in 1 .. MaxSize : FetchCall(t, b, n)
      BY <2>1, <3>3 DEF StartAlarmFails, InitFull, FetchSleep, DestroyFree, SpuriousWakeup, UseAll,
         Exit, UnloadJoin, UnloadFree, UnloadDone, FetchCall, Registered, fields
    <3>4. CASE FetchTake(t)
      <4> DEFINE n == Minimum(token[me[t]], size[t])
      <4>1. me[t] \in Bucket /\ me[t] \in Registered
        BY <3>4 DEF FetchTake, IInv, Sound, TypeOK, UsersRegistered, Holding
      <4>2. n \in 1 .. MaxSize /\ n \in 1 .. token[me[t]]
        <5>1. /\ token[me[t]] \in Nat \ {0} /\ size[t] \in Nat \ {0}
              /\ size[t] \in 0 .. MaxSize
          BY <3>4, <4>1, SizesAssumption DEF FetchTake, IInv, Sound, TypeOK, AsksSome
        <5>2. n = token[me[t]] \/ n = size[t]
          BY DEF Minimum
        <5>3. n \in 0 .. token[me[t]] /\ n \in 0 .. size[t]
          BY <5>1, MinimumBound
        <5> HIDE DEF n
        <5> QED
          BY <5>1, <5>2, <5>3, SizesAssumption
      <4>3. TB!Take(me[t], n)
        BY <3>4, <4>1, <4>2 DEF FetchTake, TB!Take, Registered, fields
      <4> QED
        BY <4>1, <4>2, <4>3 DEF TB!Next
    <3>5. CASE \E n \in 1 .. MaxSize : ReturnToken(t, n)
      <4>1. PICK n \in 1 .. MaxSize : ReturnToken(t, n)
        BY <3>5
      <4>2. me[t] \in Bucket /\ me[t] \in Registered
        BY <4>1 DEF ReturnToken, IInv, Sound, TypeOK, UsersRegistered, Holding
      <4>3. TB!GiveBack(me[t], n)
        BY <4>1, <4>2 DEF ReturnToken, TB!GiveBack, Registered, fields, Clamp, TB!Clamp
      <4> QED
        BY <4>2, <4>3 DEF TB!Next
    <3>6. CASE (\E b \in Bucket : DestroyUnregister(t, b)) \/ UnloadDestroy(t)
      <4>1. PICK b \in Registered : job' = [job EXCEPT ![pos[b]] = NULL]
        BY <3>6 DEF DestroyUnregister, UnloadDestroy, Registered
      <4>2. Registered' = Registered \ {b} /\ b \in Bucket
        BY <4>1, UnregisterRemoves DEF IInv, Sound, TypeOK, Registered
      <4>3. TB!Close(b)
        BY <3>6, <4>2 DEF DestroyUnregister, UnloadDestroy, TB!Close, fields
      <4> QED
        BY <4>2, <4>3 DEF TB!Next
    <3> QED
      BY <2>3, <3>1, <3>2, <3>3, <3>4, <3>5, <3>6 DEF Proceed, Call
  <2> QED
    BY <2>1, <2>2, <2>3 DEF Next, Exited, vars, Registered
<1> QED
  BY <1>1, <1>2, Invariance, AsksSomeInvariant, PTL DEF Spec, KeepsPromise, TB!Spec
=============================================================================
