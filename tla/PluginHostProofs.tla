-------------------------- MODULE PluginHostProofs --------------------------
(***************************************************************************)
(* Proofs about PluginHost, for any number of clients, workers, plugins,   *)
(* tasks, names and topics, and for plugins that use any of the host API.  *)
(***************************************************************************)
EXTENDS PluginHost, FiniteSetTheorems, SequenceTheorems, TLAPS

-----------------------------------------------------------------------------
(* The call table                                                          *)

\* The part of the invariant the call table needs: identifiers are fresh, and
\* nothing is left of the calls of a plugin that is not loaded.
CallTypes ==
  /\ plugins \in SUBSET Instances
  /\ next_id \in Nat
  /\ \A i \in plugins : i < next_id
  /\ registered_calls \in [Instances -> SUBSET Names]
  /\ call_overrides \in [Names -> Instances \cup {0}]

CallInv == CallTypes /\ Erased /\ CallTableConsistent

callVars == <<plugins, next_id, registered_calls, call_overrides>>

\* The bounds are natural numbers, so instance identifiers are positive.
LEMMA InstanceFacts ==
  ASSUME NEW i \in Instances
  PROVE  i \in Nat /\ i # 0
  BY BoundsAssumption DEF Instances

LEMMA CallInvInit == Init => CallInv
  BY DEF Init, CallInv, CallTypes, Erased, CallTableConsistent

\* A step that leaves the tables of calls alone.
LEMMA CallInvStutter == CallInv /\ UNCHANGED callVars => CallInv'
  BY DEF CallInv, CallTypes, Erased, CallTableConsistent, callVars

LEMMA CallInvLoadStore ==
  ASSUME CallInv, NEW t, LoadStore(t)
  PROVE  CallInv'
<1> USE DEF CallInv
<1>1. /\ next_id \in Instances /\ next_id \in Nat /\ next_id # 0
      /\ next_id' = next_id + 1
      /\ plugins' = plugins \cup {next_id}
      /\ UNCHANGED <<registered_calls, call_overrides>>
  BY InstanceFacts DEF LoadStore, CallTypes
<1>2. \A i \in plugins : i \in Nat
  BY InstanceFacts DEF CallTypes
<1>3. CallTypes'
  BY <1>1, <1>2 DEF CallTypes
<1>4. next_id \notin plugins /\ registered_calls[next_id] = {}
  BY <1>1, <1>2 DEF CallTypes, Erased
<1>5. Erased'
  BY <1>1 DEF Erased
<1>6. CallTableConsistent'
  BY <1>1, <1>4 DEF CallTableConsistent
<1>7. QED
  BY <1>3, <1>5, <1>6

LEMMA CallInvUnloadErase ==
  ASSUME CallInv, NEW t, UnloadErase(t)
  PROVE  CallInv'
<1> USE DEF CallInv
<1>1. PICK i : i = Top(t).inst
  OBVIOUS
<1>2. CASE i \notin plugins
  BY <1>1, <1>2, CallInvStutter DEF UnloadErase, callVars
<1>3. CASE i \in plugins
  <2>1. /\ plugins' = plugins \ {i}
        /\ call_overrides' = [n \in Names |->
             IF n \in registered_calls[i] /\ call_overrides[n] = i THEN 0 ELSE call_overrides[n]]
        /\ registered_calls' = [registered_calls EXCEPT ![i] = {}]
        /\ next_id' = next_id
    BY <1>1, <1>3 DEF UnloadErase
  <2>2. i \in Instances /\ i # 0
    BY <1>3, InstanceFacts DEF CallTypes
  <2>3. CallTypes'
    BY <2>1, <2>2 DEF CallTypes
  <2>4. Erased'
    BY <2>1, <2>2 DEF Erased, CallTypes
  <2>5. ASSUME NEW n \in Names
        PROVE  /\ call_overrides'[n] # 0 => /\ call_overrides'[n] \in plugins'
                                            /\ n \in registered_calls'[call_overrides'[n]]
               /\ \A j \in plugins' : n \in registered_calls'[j] => call_overrides'[n] = j
    <3>1. call_overrides[n] = i => n \in registered_calls[i]
      BY <1>3, <2>2 DEF CallTableConsistent
    <3>2. call_overrides'[n] = IF call_overrides[n] = i THEN 0 ELSE call_overrides[n]
      BY <2>1, <3>1
    <3>3. \A j \in plugins' : j # i /\ j \in Instances /\ registered_calls'[j] = registered_calls[j]
      BY <2>1, <2>2 DEF CallTypes
    <3>4. QED
      BY <2>1, <2>2, <3>2, <3>3 DEF CallTableConsistent
  <2>6. QED
    BY <2>3, <2>4, <2>5 DEF CallTableConsistent
<1>4. QED
  BY <1>2, <1>3

LEMMA CallInvRegister ==
  ASSUME CallInv, NEW t, NEW n \in Names, HostRegisterCall(t, n)
  PROVE  CallInv'
<1> USE DEF CallInv
<1>1. PICK i : i = Top(t).inst
  OBVIOUS
<1>2. /\ i \in plugins /\ i \in Instances /\ i # 0
      /\ call_overrides' = [call_overrides EXCEPT ![n] = i]
      /\ registered_calls' = [j \in Instances |->
           IF j = i THEN registered_calls[j] \cup {n}
           ELSE IF j = call_overrides[n] /\ call_overrides[n] \in plugins
                THEN registered_calls[j] \ {n}
                ELSE registered_calls[j]]
      /\ UNCHANGED <<plugins, next_id>>
  BY <1>1, InstanceFacts DEF HostRegisterCall, Calls, InCallback, CallTypes
<1>3. CallTypes'
  BY <1>2 DEF CallTypes
<1>4. Erased'
  BY <1>2 DEF Erased, CallTypes
<1>5. ASSUME NEW m \in Names
      PROVE  /\ call_overrides'[m] # 0 => /\ call_overrides'[m] \in plugins'
                                          /\ m \in registered_calls'[call_overrides'[m]]
             /\ \A j \in plugins' : m \in registered_calls'[j] => call_overrides'[m] = j
  <2>1. CASE m = n
    BY <1>2, <2>1 DEF CallTableConsistent, CallTypes
  <2>2. CASE m # n
    <3>1. call_overrides'[m] = call_overrides[m]
      BY <1>2, <2>2 DEF CallTypes
    <3>2. \A j \in Instances : m \in registered_calls'[j] <=> m \in registered_calls[j]
      BY <1>2, <2>2
    <3>3. QED
      BY <1>2, <3>1, <3>2 DEF CallTableConsistent, CallTypes
  <2>3. QED
    BY <2>1, <2>2
<1>6. QED
  BY <1>3, <1>4, <1>5 DEF CallTableConsistent

LEMMA CallInvUnregister ==
  ASSUME CallInv, NEW t, NEW n \in Names, HostUnregisterCall(t, n)
  PROVE  CallInv'
<1> USE DEF CallInv
<1>1. PICK i : i = Top(t).inst
  OBVIOUS
<1>2. /\ i \in plugins /\ i \in Instances /\ i # 0
      /\ call_overrides' = [call_overrides EXCEPT ![n] = IF @ = i THEN 0 ELSE @]
      /\ registered_calls' = [registered_calls EXCEPT ![i] = @ \ {n}]
      /\ UNCHANGED <<plugins, next_id>>
  BY <1>1, InstanceFacts DEF HostUnregisterCall, Calls, InCallback, CallTypes
<1>3. CallTypes'
  BY <1>2 DEF CallTypes
<1>4. Erased'
  BY <1>2 DEF Erased, CallTypes
<1>5. ASSUME NEW m \in Names
      PROVE  /\ call_overrides'[m] # 0 => /\ call_overrides'[m] \in plugins'
                                          /\ m \in registered_calls'[call_overrides'[m]]
             /\ \A j \in plugins' : m \in registered_calls'[j] => call_overrides'[m] = j
  <2>1. \A j \in Instances : m \in registered_calls'[j] <=>
                             m \in registered_calls[j] /\ ~(j = i /\ m = n)
    BY <1>2 DEF CallTypes
  <2>2. call_overrides'[m] = IF m = n /\ call_overrides[m] = i THEN 0 ELSE call_overrides[m]
    BY <1>2 DEF CallTypes
  <2>3. QED
    BY <1>2, <2>1, <2>2 DEF CallTableConsistent, CallTypes
<1>6. QED
  BY <1>3, <1>4, <1>5 DEF CallTableConsistent

\* Only four critical sections touch the tables of calls.
LEMMA CallInvStep == CallInv /\ [Next]_vars => CallInv'
<1> SUFFICES ASSUME CallInv, [Next]_vars PROVE CallInv'
  OBVIOUS
<1>1. CASE UNCHANGED vars
  BY <1>1, CallInvStutter DEF vars, tables, callVars
<1>2. ASSUME NEW t \in Clients, ClientCall(t) PROVE CallInv'
  <2>1. CASE LoadStore(t)
    BY <2>1, CallInvLoadStore
  <2>2. CASE UnloadAll(t) \/ DrainCompletedAsync(t)
    BY <2>2, CallInvStutter DEF UnloadAll, DrainCompletedAsync, tables, callVars
  <2>3. ASSUME NEW i \in Instances, Unload(t, i) \/ Invoke(t, i) PROVE CallInv'
    BY <2>3, CallInvStutter DEF Unload, Invoke, tables, callVars
  <2>4. ASSUME NEW n \in Names, Call(t, n) PROVE CallInv'
    BY <2>4, CallInvStutter DEF Call, tables, callVars
  <2>5. ASSUME NEW topic \in Topics, EmitEvent(t, topic) PROVE CallInv'
    BY <2>5, CallInvStutter DEF EmitEvent, tables, callVars
  <2>6. QED
    BY <1>2, <2>1, <2>2, <2>3, <2>4, <2>5 DEF ClientCall
<1>3. ASSUME NEW t \in Threads, HostStep(t) PROVE CallInv'
  <2>1. CASE LoadFind(t) \/ LoadFinish(t) \/ LoadUndo(t)
    BY <2>1, CallInvStutter DEF LoadFind, LoadFinish, LoadUndo, tables, callVars
  <2>2. CASE UnloadAllNext(t) \/ CallInvoke(t) \/ EmitNext(t)
    BY <2>2, CallInvStutter DEF UnloadAllNext, CallInvoke, EmitNext, tables, callVars
  <2>3. CASE UnloadErase(t)
    BY <2>3, CallInvUnloadErase
  <2>4. QED
    BY <1>3, <2>1, <2>2, <2>3 DEF HostStep
<1>4. ASSUME NEW t \in Threads, CallbackReturn(t) \/ Fault(t) PROVE CallInv'
  BY <1>4, CallInvStutter DEF CallbackReturn, Fault, tables, callVars
<1>5. ASSUME NEW t \in Threads, HostApi(t) PROVE CallInv'
  <2>1. ASSUME NEW n \in Names, HostRegisterCall(t, n) \/ HostUnregisterCall(t, n)
        PROVE  CallInv'
    BY <2>1, CallInvRegister, CallInvUnregister
  <2>2. ASSUME NEW p \in Topics \cup {AnyTopic},
               HostSubscribeEvent(t, p) \/ HostUnsubscribeEvent(t, p)
        PROVE  CallInv'
    BY <2>2, CallInvStutter DEF HostSubscribeEvent, HostUnsubscribeEvent, callVars
  <2>3. ASSUME NEW topic \in Topics, HostEmitEvent(t, topic) PROVE CallInv'
    BY <2>3, CallInvStutter DEF HostEmitEvent, tables, callVars
  <2>4. CASE HostScheduleAsync(t)
    BY <2>4, CallInvStutter DEF HostScheduleAsync, tables, callVars
  <2>5. ASSUME NEW x \in Extensions, HostRegisterExtension(t, x) PROVE CallInv'
    BY <2>5, CallInvStutter DEF HostRegisterExtension, callVars
  <2>6. QED
    BY <1>5, <2>1, <2>2, <2>3, <2>4, <2>5 DEF HostApi
<1>6. ASSUME NEW w \in Workers, TaskStart(w) \/ TaskComplete(w) PROVE CallInv'
  BY <1>6, CallInvStutter DEF TaskStart, TaskComplete, tables, callVars
<1>7. QED
  BY <1>1, <1>2, <1>3, <1>4, <1>5, <1>6 DEF Next

\* However the threads interleave, a call name resolves to a plugin that is
\* loaded and that has the name in its own set, and only to that one
\* (HostRegisterCall, HostUnregisterCall and Unload keep two tables in step).
THEOREM PluginCallTable == SafeSpec => []CallTableConsistent
<1>1. CallInv => CallTableConsistent
  BY DEF CallInv
<1>2. QED
  BY <1>1, CallInvInit, CallInvStep, PTL DEF SafeSpec

-----------------------------------------------------------------------------
(* Stacks                                                                  *)

\* A frame pushed on a stack: the others move one place down.
LEMMA PushFacts ==
  ASSUME NEW S, NEW s \in Seq(S), NEW f \in S
  PROVE  /\ <<f>> \o s \in Seq(S)
         /\ Len(<<f>> \o s) = Len(s) + 1
         /\ DOMAIN (<<f>> \o s) = 1 .. Len(s) + 1
         /\ (<<f>> \o s)[1] = f
         /\ \A m \in 2 .. Len(s) + 1 : (<<f>> \o s)[m] = s[m - 1]
  OBVIOUS

\* The top frame popped: the others move one place up.
LEMMA PopFacts ==
  ASSUME NEW S, NEW s \in Seq(S), s # <<>>
  PROVE  /\ Tail(s) \in Seq(S)
         /\ Head(s) \in S
         /\ Head(s) = s[1]
         /\ Len(s) \in Nat /\ Len(s) >= 1
         /\ DOMAIN s = 1 .. Len(s)
         /\ Len(Tail(s)) = Len(s) - 1
         /\ DOMAIN Tail(s) = 1 .. Len(s) - 1
         /\ \A m \in 1 .. Len(s) - 1 : Tail(s)[m] = s[m + 1]
  OBVIOUS

\* The top frame replaced: the others stay where they are.
LEMMA ReplaceFacts ==
  ASSUME NEW S, NEW s \in Seq(S), s # <<>>, NEW f \in S
  PROVE  /\ <<f>> \o Tail(s) \in Seq(S)
         /\ Len(<<f>> \o Tail(s)) = Len(s)
         /\ DOMAIN (<<f>> \o Tail(s)) = 1 .. Len(s)
         /\ (<<f>> \o Tail(s))[1] = f
         /\ \A m \in 2 .. Len(s) : (<<f>> \o Tail(s))[m] = s[m]
<1>1. Tail(s) \in Seq(S) /\ Len(Tail(s)) = Len(s) - 1
  BY PopFacts
<1>2. QED
  BY <1>1, PushFacts, PopFacts

\* The top frame replaced by two.
LEMMA ReplaceTwoFacts ==
  ASSUME NEW S, NEW s \in Seq(S), s # <<>>, NEW f \in S, NEW g \in S
  PROVE  /\ <<f, g>> \o Tail(s) \in Seq(S)
         /\ Len(<<f, g>> \o Tail(s)) = Len(s) + 1
         /\ DOMAIN (<<f, g>> \o Tail(s)) = 1 .. Len(s) + 1
         /\ (<<f, g>> \o Tail(s))[1] = f
         /\ (<<f, g>> \o Tail(s))[2] = g
         /\ \A m \in 3 .. Len(s) + 1 : (<<f, g>> \o Tail(s))[m] = s[m - 1]
  BY PopFacts

\* Frames are well typed.
LEMMA FrameFacts ==
  ASSUME NEW op \in {"load", "unload", "unloadAll", "invoke", "emit", "async"},
         NEW pc \in {"find", "callback", "finish", "undo", "erase", "loop", "complete", "relock"},
         NEW i \in Instances \cup {0},
         NEW todo \in SUBSET Instances
  PROVE  /\ Frame(op, pc, i, todo) \in FrameType
         /\ Frame(op, pc, i, todo).op = op
         /\ Frame(op, pc, i, todo).pc = pc
         /\ Frame(op, pc, i, todo).inst = i
         /\ Frame(op, pc, i, todo).todo = todo
  BY DEF Frame, FrameType


Ops == {"load", "unload", "unloadAll", "invoke", "emit", "async"}
Pcs == {"find", "callback", "finish", "undo", "erase", "loop", "complete", "relock"}

\* What the lemmas about stacks take from the invariant.
StackTypes ==
  /\ next_id \in Nat /\ next_id' \in Nat /\ next_id <= next_id'
  /\ stack \in [Threads -> Seq(FrameType)]
  /\ \A s \in Threads : \A m \in DOMAIN stack[s] : stack[s][m].inst < next_id

\* A frame that an operation of a client, or of the host API, starts.
NewFrame(f) == /\ f \in FrameType
               /\ f.inst < next_id'
               /\ f.op # "async"
               /\ f.op = "unload" => f.inst \in plugins /\ pending_async[f.inst] = 0

\* A frame that carries on the operation of another.
Carries(f, g) == /\ f \in FrameType
                 /\ f.op = g.op
                 /\ f.inst < next_id'
                 /\ f.op \in {"unload", "async"} => f.inst = g.inst

\* What a step of thread t, other than the start and the end of a task, does to
\* the stacks: every frame was there at the same height, or is t's and new; and
\* the frame of a task at the bottom stays.
StackStep(t) ==
  /\ stack' \in [Threads -> Seq(FrameType)]
  /\ \A s \in Threads : \A m \in DOMAIN stack'[s] :
       /\ stack'[s][m].inst < next_id'
       /\ \/ \E n \in DOMAIN stack[s] :
               /\ Carries(stack'[s][m], stack[s][n])
               /\ Len(stack'[s]) - m = Len(stack[s]) - n
          \/ s = t /\ NewFrame(stack'[s][m])
  /\ \A s \in Threads : stack[s] # <<>> /\ stack[s][Len(stack[s])].op = "async" =>
       stack'[s] # <<>> /\ stack'[s][Len(stack'[s])].op = "async"

\* The facts about one stack from which StackStep follows.
OneStack(t, new) ==
  /\ new \in Seq(FrameType)
  /\ \A m \in DOMAIN new :
       /\ new[m].inst < next_id'
       /\ \/ \E n \in DOMAIN stack[t] :
               Carries(new[m], stack[t][n]) /\ Len(new) - m = Len(stack[t]) - n
          \/ NewFrame(new[m])
  /\ stack[t] # <<>> /\ stack[t][Len(stack[t])].op = "async" =>
       new # <<>> /\ new[Len(new)].op = "async"

LEMMA FrameNat ==
  ASSUME NEW f \in FrameType
  PROVE  f.inst \in Nat /\ f.op \in Ops /\ f.pc \in Pcs /\ f.todo \in SUBSET Instances
  BY InstanceFacts DEF FrameType, Ops, Pcs

\* A frame that stays as it is carries itself on.
LEMMA SelfCarries ==
  ASSUME StackTypes, NEW t \in Threads, NEW n \in DOMAIN stack[t]
  PROVE  /\ Carries(stack[t][n], stack[t][n])
         /\ stack[t][n].inst < next_id'
         /\ stack[t][n] \in FrameType
<1>1. stack[t] \in Seq(FrameType)
  BY DEF StackTypes
<1>2. stack[t][n] \in FrameType
  BY <1>1
<1>3. stack[t][n].inst \in Nat /\ stack[t][n].inst < next_id
  BY <1>2, FrameNat DEF StackTypes
<1>4. QED
  BY <1>2, <1>3 DEF Carries, StackTypes

LEMMA OneStackStep ==
  ASSUME StackTypes, NEW t \in Threads, NEW new, OneStack(t, new),
         stack' = [stack EXCEPT ![t] = new]
  PROVE  StackStep(t)
<1>1. stack'[t] = new /\ \A s \in Threads \ {t} : stack'[s] = stack[s]
  BY DEF StackTypes
<1>2. stack' \in [Threads -> Seq(FrameType)]
  BY DEF StackTypes, OneStack
<1>3. ASSUME NEW s \in Threads, NEW m \in DOMAIN stack'[s]
      PROVE  /\ stack'[s][m].inst < next_id'
             /\ \/ \E n \in DOMAIN stack[s] :
                     /\ Carries(stack'[s][m], stack[s][n])
                     /\ Len(stack'[s]) - m = Len(stack[s]) - n
                \/ s = t /\ NewFrame(stack'[s][m])
  <2>1. CASE s = t
    BY <1>1, <2>1 DEF OneStack
  <2>2. CASE s # t
    <3>1. stack'[s] = stack[s]
      BY <1>1, <2>2
    <3>2. Carries(stack[s][m], stack[s][m]) /\ stack[s][m].inst < next_id'
      BY <1>3, <3>1, SelfCarries
    <3>3. QED
      BY <1>3, <3>1, <3>2
  <2>3. QED
    BY <2>1, <2>2
<1>4. ASSUME NEW s \in Threads, stack[s] # <<>>, stack[s][Len(stack[s])].op = "async"
      PROVE  stack'[s] # <<>> /\ stack'[s][Len(stack'[s])].op = "async"
  BY <1>1, <1>4 DEF OneStack
<1>5. QED
  BY <1>2, <1>3, <1>4 DEF StackStep

LEMMA StayStep ==
  ASSUME StackTypes, NEW t \in Threads, stack' = stack
  PROVE  StackStep(t)
  BY SelfCarries DEF StackTypes, StackStep

LEMMA PushStep ==
  ASSUME StackTypes, NEW t \in Threads, NEW f, NewFrame(f), Push(t, f)
  PROVE  StackStep(t)
<1> DEFINE s == stack[t]
           new == <<f>> \o s
<1>1. s \in Seq(FrameType) /\ f \in FrameType
  BY DEF StackTypes, NewFrame
<1>2. /\ new \in Seq(FrameType)
      /\ Len(new) = Len(s) + 1
      /\ DOMAIN new = 1 .. Len(s) + 1
      /\ new[1] = f
      /\ \A m \in 2 .. Len(s) + 1 : new[m] = s[m - 1]
      /\ Len(s) \in Nat /\ DOMAIN s = 1 .. Len(s)
  BY <1>1, PushFacts
<1> HIDE DEF new
<1>3. ASSUME NEW m \in DOMAIN new
      PROVE  /\ new[m].inst < next_id'
             /\ \/ \E n \in DOMAIN s : Carries(new[m], s[n]) /\ Len(new) - m = Len(s) - n
                \/ NewFrame(new[m])
  <2>1. CASE m = 1
    BY <1>2, <2>1 DEF NewFrame
  <2>2. CASE m # 1
    <3>1. m - 1 \in DOMAIN s /\ new[m] = s[m - 1] /\ Len(new) - m = Len(s) - (m - 1)
      BY <1>2, <2>2
    <3>2. Carries(s[m - 1], s[m - 1]) /\ s[m - 1].inst < next_id'
      BY <3>1, SelfCarries
    <3>3. QED
      BY <3>1, <3>2
  <2>3. QED
    BY <2>1, <2>2
<1>4. s # <<>> /\ s[Len(s)].op = "async" => new # <<>> /\ new[Len(new)].op = "async"
  <2>1. s # <<>> => Len(s) # 0
    BY <1>1
  <2>2. s # <<>> => Len(new) \in 2 .. Len(s) + 1 /\ new[Len(new)] = s[Len(s)]
    BY <1>2, <2>1
  <2>3. new # <<>>
    BY <1>2
  <2>4. QED
    BY <2>2, <2>3
<1>5. OneStack(t, new)
  BY <1>2, <1>3, <1>4 DEF OneStack
<1>6. stack' = [stack EXCEPT ![t] = new]
  BY DEF Push, new
<1>7. QED
  BY <1>5, <1>6, OneStackStep

\* The top frame goes; it is not a task's.
LEMMA PopStep ==
  ASSUME StackTypes, NEW t \in Threads, stack[t] # <<>>, Top(t).op # "async", Pop(t)
  PROVE  StackStep(t)
<1> DEFINE s == stack[t]
           new == Tail(s)
<1>1. s \in Seq(FrameType)
  BY DEF StackTypes
<1>2. /\ new \in Seq(FrameType)
      /\ Head(s) = s[1]
      /\ Len(s) \in Nat /\ Len(s) >= 1
      /\ DOMAIN s = 1 .. Len(s)
      /\ Len(new) = Len(s) - 1
      /\ DOMAIN new = 1 .. Len(s) - 1
      /\ \A m \in 1 .. Len(s) - 1 : new[m] = s[m + 1]
  BY <1>1, PopFacts
<1> HIDE DEF new
<1>3. ASSUME NEW m \in DOMAIN new
      PROVE  /\ new[m].inst < next_id'
             /\ \E n \in DOMAIN s : Carries(new[m], s[n]) /\ Len(new) - m = Len(s) - n
  <2>1. m + 1 \in DOMAIN s /\ new[m] = s[m + 1] /\ Len(new) - m = Len(s) - (m + 1)
    BY <1>2
  <2>2. Carries(s[m + 1], s[m + 1]) /\ s[m + 1].inst < next_id'
    BY <2>1, SelfCarries
  <2>3. QED
    BY <2>1, <2>2
<1>4. s[Len(s)].op = "async" => new # <<>> /\ new[Len(new)].op = "async"
  <2>1. s[Len(s)].op = "async" => Len(s) # 1
    BY <1>2 DEF Top
  <2> SUFFICES ASSUME Len(s) # 1, s[Len(s)].op = "async"
               PROVE  new # <<>> /\ new[Len(new)].op = "async"
    BY <2>1
  <2>2. PICK h \in Nat : h = Len(s) /\ h >= 1
    BY <1>2
  <2>3. PICK k \in Nat : k = Len(new) /\ k + 1 = h
    BY <1>2, <2>2
  <2>4. h >= 1 /\ h # 1 /\ k + 1 = h
    BY <2>2, <2>3
  <2>5. k \in 1 .. h - 1
    BY <2>4
  <2>6. k \in 1 .. Len(s) - 1 /\ k + 1 = Len(s) /\ k \in DOMAIN new
    BY <1>2, <2>2, <2>4, <2>5
  <2>7. new[k] = s[k + 1]
    BY <1>2, <2>6
  <2>8. new # <<>>
    BY <2>6
  <2>9. QED
    BY <2>3, <2>6, <2>7, <2>8
<1>5. OneStack(t, new)
  BY <1>2, <1>3, <1>4 DEF OneStack
<1>6. stack' = [stack EXCEPT ![t] = new]
  BY DEF Pop, new
<1>7. QED
  BY <1>5, <1>6, OneStackStep

\* The top frame goes on with its operation, or one that is not a task's gives way
\* to a new one.
LEMMA ReplaceStep ==
  ASSUME StackTypes, NEW t \in Threads, stack[t] # <<>>, NEW f,
         Carries(f, Top(t)) \/ (Top(t).op # "async" /\ NewFrame(f)),
         Replace(t, f)
  PROVE  StackStep(t)
<1> DEFINE s == stack[t]
           new == <<f>> \o Tail(s)
<1>1. s \in Seq(FrameType) /\ f \in FrameType
  BY DEF StackTypes, NewFrame, Carries
<1>2. /\ new \in Seq(FrameType)
      /\ Len(new) = Len(s)
      /\ DOMAIN new = 1 .. Len(s)
      /\ new[1] = f
      /\ \A m \in 2 .. Len(s) : new[m] = s[m]
  BY <1>1, ReplaceFacts
<1>3. /\ Head(s) = s[1]
      /\ Len(s) \in Nat /\ Len(s) >= 1
      /\ DOMAIN s = 1 .. Len(s)
  BY <1>1, PopFacts
<1> HIDE DEF new
<1>4. ASSUME NEW m \in DOMAIN new
      PROVE  /\ new[m].inst < next_id'
             /\ \/ \E n \in DOMAIN s : Carries(new[m], s[n]) /\ Len(new) - m = Len(s) - n
                \/ NewFrame(new[m])
  <2>1. CASE m = 1
    BY <1>2, <1>3, <2>1 DEF NewFrame, Carries, Top
  <2>2. CASE m # 1
    <3>1. m \in DOMAIN s /\ new[m] = s[m] /\ Len(new) - m = Len(s) - m
      BY <1>2, <1>3, <2>2
    <3>2. Carries(s[m], s[m]) /\ s[m].inst < next_id'
      BY <3>1, SelfCarries
    <3>3. QED
      BY <3>1, <3>2
  <2>3. QED
    BY <2>1, <2>2
<1>5. s[Len(s)].op = "async" => new # <<>> /\ new[Len(new)].op = "async"
  <2>1. new # <<>>
    BY <1>2, <1>3
  <2>2. CASE Len(s) = 1
    <3>1. Top(t).op = "async" => f.op = "async"
      BY DEF Carries
    <3>2. QED
      BY <1>2, <1>3, <2>1, <2>2, <3>1 DEF Top
  <2>3. CASE Len(s) # 1
    <3>1. PICK h \in Nat : h = Len(s) /\ h >= 1
      BY <1>3
    <3>2. h >= 1 /\ h # 1
      BY <2>3, <3>1
    <3>3. h \in 2 .. h
      BY <3>2
    <3>4. QED
      BY <1>2, <2>1, <3>1, <3>3
  <2>4. QED
    BY <2>2, <2>3
<1>6. OneStack(t, new)
  BY <1>2, <1>4, <1>5 DEF OneStack
<1>7. stack' = [stack EXCEPT ![t] = new]
  BY DEF Replace, new
<1>8. QED
  BY <1>6, <1>7, OneStackStep

LEMMA ReplaceTwoStep ==
  ASSUME StackTypes, NEW t \in Threads, stack[t] # <<>>, Top(t).op # "async",
         NEW f, NEW g, NewFrame(f), NewFrame(g),
         stack' = [stack EXCEPT ![t] = <<f, g>> \o Tail(@)]
  PROVE  StackStep(t)
<1> DEFINE s == stack[t]
           new == <<f, g>> \o Tail(s)
<1>1. s \in Seq(FrameType) /\ f \in FrameType /\ g \in FrameType
  BY DEF StackTypes, NewFrame
<1>2. /\ new \in Seq(FrameType)
      /\ Len(new) = Len(s) + 1
      /\ DOMAIN new = 1 .. Len(s) + 1
      /\ new[1] = f
      /\ new[2] = g
      /\ \A m \in 3 .. Len(s) + 1 : new[m] = s[m - 1]
  BY <1>1, ReplaceTwoFacts
<1>3. /\ Head(s) = s[1]
      /\ Len(s) \in Nat /\ Len(s) >= 1
      /\ DOMAIN s = 1 .. Len(s)
  BY <1>1, PopFacts
<1> HIDE DEF new
<1>4. ASSUME NEW m \in DOMAIN new
      PROVE  /\ new[m].inst < next_id'
             /\ \/ \E n \in DOMAIN s : Carries(new[m], s[n]) /\ Len(new) - m = Len(s) - n
                \/ NewFrame(new[m])
  <2>1. CASE m = 1 \/ m = 2
    BY <1>2, <2>1 DEF NewFrame
  <2>2. CASE m # 1 /\ m # 2
    <3>1. m - 1 \in DOMAIN s /\ new[m] = s[m - 1] /\ Len(new) - m = Len(s) - (m - 1)
      BY <1>2, <1>3, <2>2
    <3>2. Carries(s[m - 1], s[m - 1]) /\ s[m - 1].inst < next_id'
      BY <3>1, SelfCarries
    <3>3. QED
      BY <3>1, <3>2
  <2>3. QED
    BY <2>1, <2>2
<1>5. s[Len(s)].op = "async" => new # <<>> /\ new[Len(new)].op = "async"
  <2>1. s[Len(s)].op = "async" => Len(s) # 1
    BY <1>3 DEF Top
  <2> SUFFICES ASSUME Len(s) # 1, s[Len(s)].op = "async"
               PROVE  new # <<>> /\ new[Len(new)].op = "async"
    BY <2>1
  <2>2. PICK h \in Nat : h = Len(s) /\ h >= 1
    BY <1>3
  <2>3. PICK k \in Nat : k = Len(new) /\ k = h + 1
    BY <1>2, <2>2
  <2>4. h >= 1 /\ h # 1 /\ k = h + 1
    BY <2>2, <2>3
  <2>5. k \in 3 .. h + 1 /\ k \in 1 .. h + 1 /\ k - 1 = h
    BY <2>4
  <2>6. k \in 3 .. Len(s) + 1 /\ k - 1 = Len(s) /\ k \in DOMAIN new
    BY <1>2, <2>2, <2>5
  <2>7. new[k] = s[k - 1]
    BY <1>2, <2>6
  <2>8. new # <<>>
    BY <2>6
  <2>9. QED
    BY <2>3, <2>6, <2>7, <2>8
<1>6. OneStack(t, new)
  BY <1>2, <1>4, <1>5 DEF OneStack
<1>7. stack' = [stack EXCEPT ![t] = new]
  BY DEF new
<1>8. QED
  BY <1>6, <1>7, OneStackStep

-----------------------------------------------------------------------------
(* The tasks                                                               *)

\* The types of what tasks and stacks are made of ...
TaskTypes ==
  /\ plugins \in SUBSET Instances
  /\ next_id \in 1 .. MaxInstances + 1
  /\ pending_async \in [Instances -> Nat]
  /\ next_task \in 1 .. MaxTasks + 1
  /\ task_owner \in [Tasks -> Instances \cup {0}]
  /\ queued \in SUBSET Tasks
  /\ executing \in [Workers -> Tasks \cup {0}]
  /\ completed_async \in Seq(Tasks)
  /\ drained \in SUBSET Tasks
  /\ stack \in [Threads -> Seq(FrameType)]
  /\ unload_raced \in SUBSET Instances

\* ... and of the rest of the host's state.
HostTypes ==
  /\ mutex \in Threads \cup {NoThread}
  /\ loaded \in [Instances -> BOOLEAN]
  /\ registered_calls \in [Instances -> SUBSET Names]
  /\ subscriptions \in [Instances -> SUBSET (Topics \cup {AnyTopic})]
  /\ call_overrides \in [Names -> Instances \cup {0}]
  /\ extensions \in [Extensions -> Instances \cup {0}]
  /\ faulted \in BOOLEAN

TaskInv ==
  /\ TaskTypes /\ Fresh /\ NothingPending /\ AsyncFrames /\ UnloadTested
  /\ PendingAccurate /\ TaskRecordedOnce /\ TasksKeepPlugin

taskVars == <<plugins, next_id, pending_async, tasks>>

LEMMA TypeFacts ==
  ASSUME TaskTypes
  PROVE  /\ next_id \in Nat
         /\ \A i \in plugins : i \in Instances /\ i \in Nat /\ i # 0
         /\ next_task \in Nat
         /\ \A k \in Tasks : k \in Nat /\ k # 0
         /\ \A k \in Tasks : task_owner[k] \in Nat
         /\ Outstanding \in SUBSET Tasks
         /\ IsFiniteSet(Tasks)
         /\ \A w \in Workers : w \in Threads
<1>1. next_id \in Nat /\ next_task \in Nat /\ \A k \in Tasks : k \in Nat /\ k # 0
  BY BoundsAssumption DEF TaskTypes, Tasks
<1>2. \A i \in plugins : i \in Instances /\ i \in Nat /\ i # 0
  BY InstanceFacts DEF TaskTypes
<1>3. \A k \in Tasks : task_owner[k] \in Nat
  BY InstanceFacts DEF TaskTypes
<1>4. Outstanding \in SUBSET Tasks
  BY DEF TaskTypes, Outstanding
<1>5. IsFiniteSet(Tasks)
  BY FS_Interval, BoundsAssumption DEF Tasks
<1>6. \A w \in Workers : w \in Threads
  BY DEF Threads
<1>7. QED
  BY <1>1, <1>2, <1>3, <1>4, <1>5, <1>6

LEMMA TaskInvInit == Init => TaskInv
<1> SUFFICES ASSUME Init PROVE TaskInv
  OBVIOUS
<1>1. TaskTypes
  <2>1. 1 \in 1 .. MaxInstances + 1 /\ 1 \in 1 .. MaxTasks + 1
    BY BoundsAssumption
  <2>2. stack \in [Threads -> Seq(FrameType)]
    BY DEF Init
  <2>3. completed_async \in Seq(Tasks)
    BY DEF Init
  <2>4. QED
    BY <2>1, <2>2, <2>3 DEF Init, TaskTypes
<1>2. Outstanding = {} /\ Recorded = {}
  BY DEF Init, Outstanding, Recorded
<1>3. \A t \in Threads : stack[t] = <<>> /\ DOMAIN stack[t] = {}
  BY DEF Init
<1>4. Fresh
  BY <1>2, <1>3 DEF Init, Fresh
<1>5. NothingPending
  BY DEF Init, NothingPending
<1>6. AsyncFrames
  BY <1>3 DEF Init, AsyncFrames
<1>7. UnloadTested
  BY <1>3 DEF UnloadTested
<1>8. PendingAccurate
  BY DEF Init, PendingAccurate
<1>9. TaskRecordedOnce
  <2>1. DOMAIN completed_async = {}
    BY DEF Init
  <2>2. \A k \in Tasks : ~(k < next_task)
    BY TypeFacts, <1>1 DEF Init, Tasks
  <2>3. QED
    BY <1>2, <2>1, <2>2 DEF Init, TaskRecordedOnce
<1>10. TasksKeepPlugin
  BY <1>2 DEF TasksKeepPlugin
<1>11. QED
  BY <1>1, <1>4, <1>5, <1>6, <1>7, <1>8, <1>9, <1>10 DEF TaskInv

LEMMA InvStackTypes ==
  ASSUME TaskTypes, Fresh, next_id' = next_id \/ next_id' = next_id + 1
  PROVE  StackTypes
  BY TypeFacts DEF StackTypes, TaskTypes, Fresh

\* The facts about the frames that a step of the stacks keeps.
LEMMA AsyncFramesStep ==
  ASSUME TaskTypes, AsyncFrames, NEW t \in Threads, StackStep(t),
         UNCHANGED <<executing, task_owner>>
  PROVE  AsyncFrames'
<1>1. ASSUME NEW s \in Threads, NEW m \in DOMAIN stack'[s], stack'[s][m].op = "async"
      PROVE  /\ s \in Workers
             /\ m = Len(stack'[s])
             /\ executing[s] # 0
             /\ stack'[s][m].inst = task_owner[executing[s]]
  <2>1. PICK n \in DOMAIN stack[s] :
          /\ Carries(stack'[s][m], stack[s][n])
          /\ Len(stack'[s]) - m = Len(stack[s]) - n
    BY <1>1 DEF StackStep, NewFrame
  <2>2. stack[s][n].op = "async" /\ stack'[s][m].inst = stack[s][n].inst
    BY <1>1, <2>1 DEF Carries
  <2>3. /\ s \in Workers
        /\ n = Len(stack[s])
        /\ executing[s] # 0
        /\ stack[s][n].inst = task_owner[executing[s]]
    BY <2>2 DEF AsyncFrames
  <2>4. m = Len(stack'[s])
    <3>1. stack'[s] \in Seq(FrameType) /\ stack[s] \in Seq(FrameType)
      BY DEF StackStep, TaskTypes
    <3>2. m \in Nat /\ Len(stack'[s]) \in Nat /\ Len(stack[s]) \in Nat
      BY <3>1
    <3>3. QED
      BY <2>1, <2>3, <3>2
  <2>5. QED
    BY <2>2, <2>3, <2>4
<1>2. ASSUME NEW w \in Workers, executing[w] # 0
      PROVE  stack'[w] # <<>> /\ stack'[w][Len(stack'[w])].op = "async"
  BY <1>2 DEF AsyncFrames, StackStep, Threads
<1>3. QED
  BY <1>1, <1>2 DEF AsyncFrames

LEMMA UnloadTestedStep ==
  ASSUME TaskTypes, Fresh, UnloadTested, NEW t \in Threads, StackStep(t),
         \A i \in plugins' : i < next_id => i \in plugins /\ pending_async'[i] = pending_async[i],
         unload_raced' = unload_raced
  PROVE  UnloadTested'
<1>1. ASSUME NEW s \in Threads, NEW m \in DOMAIN stack'[s],
             stack'[s][m].op = "unload", stack'[s][m].inst \in plugins'
      PROVE  pending_async'[stack'[s][m].inst] = 0 \/ stack'[s][m].inst \in unload_raced
  <2>1. CASE \E n \in DOMAIN stack[s] : Carries(stack'[s][m], stack[s][n])
    <3>1. PICK n \in DOMAIN stack[s] : Carries(stack'[s][m], stack[s][n])
      BY <2>1
    <3>2. stack[s][n].op = "unload" /\ stack[s][n].inst = stack'[s][m].inst
      BY <1>1, <3>1 DEF Carries
    <3>3. stack[s][n].inst < next_id
      BY DEF Fresh
    <3>4. QED
      BY <1>1, <3>2, <3>3 DEF UnloadTested
  <2>2. CASE NewFrame(stack'[s][m])
    BY <1>1, <2>2 DEF NewFrame, Fresh
  <2>3. QED
    BY <1>1, <2>1, <2>2 DEF StackStep
<1>2. QED
  BY <1>1 DEF UnloadTested

\* A step that leaves plugins, counters and tasks alone.
LEMMA TaskInvQuiet ==
  ASSUME TaskInv, NEW t \in Threads, StackStep(t), UNCHANGED taskVars
  PROVE  TaskInv'
<1> USE DEF TaskInv
<1>1. UNCHANGED <<plugins, next_id, pending_async, next_task, task_owner, queued, executing,
                  completed_async, drained, unload_raced>>
  BY DEF taskVars, tasks
<1>2. TaskTypes'
  BY <1>1 DEF TaskTypes, StackStep
<1>3. Outstanding' = Outstanding /\ Recorded' = Recorded
  BY <1>1 DEF Outstanding, Recorded
<1>4. Fresh'
  BY <1>1, <1>3 DEF Fresh, StackStep
<1>5. NothingPending'
  BY <1>1 DEF NothingPending
<1>6. AsyncFrames'
  BY <1>1, AsyncFramesStep
<1>7. UnloadTested'
  BY <1>1, UnloadTestedStep
<1>8. PendingAccurate'
  BY <1>1, <1>3 DEF PendingAccurate
<1>9. TaskRecordedOnce'
  BY <1>1, <1>3 DEF TaskRecordedOnce
<1>10. TasksKeepPlugin'
  BY <1>1, <1>3 DEF TasksKeepPlugin
<1>11. QED
  BY <1>2, <1>4, <1>5, <1>6, <1>7, <1>8, <1>9, <1>10

\* Load stores a record under an identifier nobody has seen.
LEMMA TaskInvLoadStore ==
  ASSUME TaskInv, NEW t \in Clients, LoadStore(t)
  PROVE  TaskInv'
<1> USE DEF TaskInv
<1> DEFINE i == next_id
           f == Frame("load", "find", i, {})
<1>1. /\ i \in Instances /\ i \in Nat /\ i # 0
      /\ next_id' = next_id + 1
      /\ plugins' = plugins \cup {i}
      /\ Push(t, f)
      /\ UNCHANGED <<pending_async, next_task, task_owner, queued, executing, completed_async,
                     drained, unload_raced>>
      /\ t \in Threads
  BY InstanceFacts DEF LoadStore, tasks, Threads
<1>2. StackTypes
  BY <1>1, InvStackTypes
<1>3. NewFrame(f)
  BY <1>1, FrameFacts DEF NewFrame
<1>4. StackStep(t)
  BY <1>1, <1>2, <1>3, PushStep
<1> HIDE DEF i, f
<1>5. TaskTypes'
  <2>1. next_id' \in 1 .. MaxInstances + 1
    BY <1>1, BoundsAssumption DEF Instances, i
  <2>2. QED
    BY <1>1, <1>4, <2>1 DEF TaskTypes, StackStep
<1>6. Outstanding' = Outstanding /\ Recorded' = Recorded
  BY <1>1 DEF Outstanding, Recorded
<1>7. i \notin plugins /\ pending_async[i] = 0
  <2>1. \A j \in plugins : j \in Nat /\ j < i
    BY TypeFacts DEF Fresh, i
  <2>2. i \notin plugins
    BY <1>1, <2>1
  <2>3. QED
    BY <1>1, <2>2 DEF NothingPending
<1>8. Fresh'
  <2>1. \A j \in plugins' : j < next_id'
    BY <1>1, TypeFacts DEF Fresh, i
  <2>2. \A k \in Tasks : task_owner'[k] < next_id'
    BY <1>1, TypeFacts DEF Fresh, i
  <2>3. QED
    BY <1>1, <1>4, <1>6, <2>1, <2>2 DEF Fresh, StackStep
<1>9. NothingPending'
  BY <1>1 DEF NothingPending
<1>10. AsyncFrames'
  BY <1>1, <1>4, AsyncFramesStep
<1>11. UnloadTested'
  <2>1. \A j \in plugins' : j < next_id => j \in plugins /\ pending_async'[j] = pending_async[j]
    BY <1>1, TypeFacts DEF i
  <2>2. QED
    BY <1>1, <1>4, <2>1, UnloadTestedStep
<1>12. PendingAccurate'
  <2>1. \A k \in Outstanding : task_owner[k] # i
    BY TypeFacts, <1>1 DEF Fresh, i
  <2>2. {k \in Outstanding : task_owner[k] = i} = {}
    BY <2>1
  <2>3. Cardinality({k \in Outstanding : task_owner[k] = i}) = 0
    BY <2>2, FS_EmptySet
  <2>4. QED
    BY <1>1, <1>6, <1>7, <2>3 DEF PendingAccurate
<1>13. TaskRecordedOnce'
  BY <1>1, <1>6 DEF TaskRecordedOnce
<1>14. TasksKeepPlugin'
  BY <1>1, <1>6 DEF TasksKeepPlugin
<1>15. QED
  BY <1>5, <1>8, <1>9, <1>10, <1>11, <1>12, <1>13, <1>14

\* Unload erases a record: a task of it that is left was scheduled after the test.
LEMMA TaskInvUnloadErase ==
  ASSUME TaskInv, NEW t \in Threads, UnloadErase(t)
  PROVE  TaskInv'
<1> USE DEF TaskInv
<1>1. PICK i : i = Top(t).inst
  OBVIOUS
<1>2. /\ stack[t] # <<>> /\ Top(t).op = "unload" /\ Pop(t)
      /\ UNCHANGED <<next_id, next_task, task_owner, queued, executing, completed_async, drained,
                     unload_raced>>
  BY DEF UnloadErase, At, tasks
<1>3. StackStep(t)
  BY <1>2, InvStackTypes, PopStep
<1>4. CASE i \notin plugins
  BY <1>1, <1>2, <1>3, <1>4, TaskInvQuiet DEF UnloadErase, taskVars, tasks
<1>5. CASE i \in plugins
  <2>1. /\ plugins' = plugins \ {i}
        /\ pending_async' = [pending_async EXCEPT ![i] = 0]
    BY <1>1, <1>5 DEF UnloadErase
  <2>2. i \in Instances
    BY <1>5, TypeFacts
  <2>3. pending_async[i] = 0 \/ i \in unload_raced
    <3>1. stack[t] \in Seq(FrameType)
      BY DEF TaskTypes
    <3>2. Top(t) = stack[t][1] /\ 1 \in DOMAIN stack[t]
      BY <1>2, <3>1, PopFacts DEF Top
    <3>3. QED
      BY <1>1, <1>2, <1>5, <3>2 DEF UnloadTested
  <2>4. TaskTypes'
    BY <1>2, <1>3, <2>1 DEF TaskTypes, StackStep
  <2>5. Outstanding' = Outstanding /\ Recorded' = Recorded
    BY <1>2 DEF Outstanding, Recorded
  <2>6. Fresh'
    BY <1>2, <1>3, <2>1, <2>5 DEF Fresh, StackStep
  <2>7. NothingPending'
    BY <2>1, <2>2 DEF NothingPending, TaskTypes
  <2>8. AsyncFrames'
    BY <1>2, <1>3, AsyncFramesStep
  <2>9. \A j \in plugins' : j \in plugins /\ j # i /\ pending_async'[j] = pending_async[j]
    BY <2>1, <2>2 DEF TaskTypes
  <2>10. UnloadTested'
    BY <1>2, <1>3, <2>9, UnloadTestedStep
  <2>11. PendingAccurate'
    BY <1>2, <2>5, <2>9 DEF PendingAccurate
  <2>12. TaskRecordedOnce'
    BY <1>2, <2>5 DEF TaskRecordedOnce
  <2>13. ASSUME NEW k \in Outstanding, task_owner[k] = i PROVE i \in unload_raced
    <3> DEFINE S == {m \in Outstanding : task_owner[m] = i}
    <3>1. k \in S /\ S \in SUBSET Tasks
      BY <2>13, TypeFacts
    <3>2. IsFiniteSet(S)
      BY <3>1, TypeFacts, FS_Subset
    <3>3. Cardinality(S) # 0
      BY <3>1, <3>2, FS_EmptySet
    <3>4. pending_async[i] = Cardinality(S)
      BY <1>5 DEF PendingAccurate
    <3>5. QED
      BY <2>3, <3>3, <3>4
  <2>14. TasksKeepPlugin'
    BY <1>2, <2>1, <2>5, <2>13 DEF TasksKeepPlugin
  <2>15. QED
    BY <2>4, <2>6, <2>7, <2>8, <2>10, <2>11, <2>12, <2>14
<1>6. QED
  BY <1>4, <1>5

\* A task is counted and handed over: it is new, and its plugin's own.
LEMMA TaskInvSchedule ==
  ASSUME TaskInv, NEW t \in Threads, HostScheduleAsync(t)
  PROVE  TaskInv'
<1> USE DEF TaskInv
<1>1. PICK i : i = Top(t).inst
  OBVIOUS
<1>2. PICK k : k = next_task
  OBVIOUS
<1>3. /\ i \in plugins /\ i \in Instances /\ i # 0
      /\ k \in Tasks /\ k \in Nat /\ k # 0
      /\ next_task' = k + 1
      /\ task_owner' = [task_owner EXCEPT ![k] = i]
      /\ pending_async' = [pending_async EXCEPT ![i] = @ + 1]
      /\ queued' = queued \cup {k}
      /\ unload_raced' = IF UnloadInProgress(i) THEN unload_raced \cup {i} ELSE unload_raced
      /\ UNCHANGED <<plugins, next_id, executing, completed_async, drained, stack>>
  BY <1>1, <1>2, TypeFacts DEF HostScheduleAsync, Calls, InCallback, tables
<1>4. k \notin Outstanding \cup Recorded
  BY <1>2, <1>3 DEF Fresh
<1>5. Outstanding' = Outstanding \cup {k} /\ Recorded' = Recorded
  <2>1. \A w \in Workers : executing'[w] = executing[w]
    BY <1>3
  <2>2. Outstanding' = Outstanding \cup {k}
    BY <1>3, <2>1 DEF Outstanding
  <2>3. QED
    BY <1>3, <2>2 DEF Recorded
<1>6. /\ task_owner'[k] = i
      /\ \A m \in Tasks \ {k} : task_owner'[m] = task_owner[m]
  BY <1>3 DEF TaskTypes
<1>7. /\ pending_async'[i] = pending_async[i] + 1
      /\ \A j \in Instances \ {i} : pending_async'[j] = pending_async[j]
  BY <1>3 DEF TaskTypes
<1>8. TaskTypes'
  <2>1. next_task' \in 1 .. MaxTasks + 1
    BY <1>3, BoundsAssumption DEF Tasks
  <2>2. task_owner' \in [Tasks -> Instances \cup {0}] /\ queued' \in SUBSET Tasks
    BY <1>3 DEF TaskTypes
  <2>3. pending_async' \in [Instances -> Nat]
    BY <1>3 DEF TaskTypes
  <2>4. unload_raced' \in SUBSET Instances
    BY <1>3 DEF TaskTypes
  <2>5. QED
    BY <1>3, <2>1, <2>2, <2>3, <2>4 DEF TaskTypes
<1>9. Fresh'
  <2>1. \A m \in Tasks : task_owner'[m] < next_id'
    BY <1>3, <1>6 DEF Fresh
  <2>2. \A m \in Outstanding' \cup Recorded' : m < next_task'
    <3>1. \A m \in Outstanding \cup Recorded : m \in Tasks /\ m < k
      BY <1>2, TypeFacts DEF Fresh, Recorded, TaskTypes
    <3>2. \A m \in Outstanding \cup Recorded : m \in Nat /\ m < k
      BY <3>1, TypeFacts
    <3>3. QED
      BY <1>3, <1>5, <3>2
  <2>3. QED
    BY <1>3, <2>1, <2>2 DEF Fresh
<1>10. NothingPending'
  BY <1>3, <1>7 DEF NothingPending
<1>11. AsyncFrames'
  <2>1. \A w \in Workers : executing[w] # 0 => executing[w] \in Tasks \ {k}
    BY <1>4 DEF TaskTypes, Outstanding
  <2>2. \A w \in Workers : executing[w] # 0 => task_owner'[executing[w]] = task_owner[executing[w]]
    BY <1>6, <2>1
  <2>3. QED
    BY <1>3, <2>2 DEF AsyncFrames
<1>12. UnloadTested'
  <2>1. ASSUME NEW s \in Threads, NEW m \in DOMAIN stack[s], stack[s][m].op = "unload",
               stack[s][m].inst \in plugins
        PROVE  pending_async'[stack[s][m].inst] = 0 \/ stack[s][m].inst \in unload_raced'
    <3>1. CASE stack[s][m].inst = i
      <4>1. UnloadInProgress(i)
        BY <2>1, <3>1 DEF UnloadInProgress, Frames
      <4>2. QED
        BY <1>3, <3>1, <4>1
    <3>2. CASE stack[s][m].inst # i
      BY <1>3, <1>7, <2>1, <3>2, TypeFacts DEF UnloadTested
    <3>3. QED
      BY <3>1, <3>2
  <2>2. QED
    BY <1>3, <2>1 DEF UnloadTested
<1>13. PendingAccurate'
  <2>1. ASSUME NEW j \in plugins
        PROVE  pending_async'[j] = Cardinality({m \in Outstanding' : task_owner'[m] = j})
    <3> DEFINE S == {m \in Outstanding : task_owner[m] = j}
               T == {m \in Outstanding' : task_owner'[m] = j}
    <3>1. \A m \in Outstanding : m \in Tasks \ {k}
      BY <1>4, TypeFacts
    <3>2. pending_async[j] = Cardinality(S)
      BY DEF PendingAccurate
    <3>3. CASE j # i
      <4>1. T = S
        BY <1>5, <1>6, <3>1, <3>3
      <4>2. QED
        BY <1>7, <3>2, <3>3, <4>1, TypeFacts
    <3>4. CASE j = i
      <4>1. T = S \cup {k} /\ k \notin S
        BY <1>4, <1>5, <1>6, <3>1, <3>4
      <4>2. IsFiniteSet(S)
        BY TypeFacts, FS_Subset
      <4>3. Cardinality(T) = Cardinality(S) + 1
        BY <4>1, <4>2, FS_AddElement
      <4>4. QED
        BY <1>7, <3>2, <3>4, <4>3
    <3>5. QED
      BY <3>3, <3>4
  <2>2. QED
    BY <1>3, <2>1 DEF PendingAccurate
<1>14. TaskRecordedOnce'
  <2>1. \A w \in Workers : executing'[w] \notin queued'
    <3>1. \A w \in Workers : executing[w] # k
      BY <1>3, <1>4 DEF Outstanding
    <3>2. QED
      BY <1>3, <3>1 DEF TaskRecordedOnce
  <2>2. \A m \in DOMAIN completed_async' : completed_async'[m] \notin Outstanding' \cup drained'
    <3>1. \A m \in DOMAIN completed_async : completed_async[m] # k
      BY <1>4 DEF Recorded
    <3>2. QED
      BY <1>3, <1>5, <3>1 DEF TaskRecordedOnce
  <2>3. drained' \cap Outstanding' = {}
    BY <1>3, <1>4, <1>5 DEF TaskRecordedOnce, Recorded
  <2>4. \A m \in Tasks : m < next_task' => m \in Outstanding' \cup Recorded'
    <3>1. \A m \in Tasks : m < next_task' => m < k \/ m = k
      BY <1>3, TypeFacts
    <3>2. QED
      BY <1>2, <1>5, <3>1 DEF TaskRecordedOnce
  <2>5. QED
    BY <1>3, <2>1, <2>2, <2>3, <2>4 DEF TaskRecordedOnce
<1>15. TasksKeepPlugin'
  <2>1. \A m \in Outstanding : m \in Tasks \ {k}
    BY <1>4, TypeFacts
  <2>2. unload_raced \subseteq unload_raced'
    BY <1>3
  <2>3. QED
    BY <1>3, <1>5, <1>6, <2>1, <2>2 DEF TasksKeepPlugin
<1>16. QED
  BY <1>8, <1>9, <1>10, <1>11, <1>12, <1>13, <1>14, <1>15

\* What a sequence is after Append.
LEMMA AppendFacts ==
  ASSUME NEW S, NEW s \in Seq(S), NEW x \in S
  PROVE  /\ Append(s, x) \in Seq(S)
         /\ Len(s) \in Nat
         /\ DOMAIN s = 1 .. Len(s)
         /\ DOMAIN Append(s, x) = 1 .. Len(s) + 1
         /\ Append(s, x)[Len(s) + 1] = x
         /\ \A m \in 1 .. Len(s) : Append(s, x)[m] = s[m]
  OBVIOUS

LEMMA NoElements ==
  ASSUME NEW S, NEW s \in Seq(S), Len(s) = 0
  PROVE  s = <<>>
  OBVIOUS

\* A worker takes a task from the pool: the task stays outstanding.
LEMMA TaskInvStart ==
  ASSUME TaskInv, NEW w \in Workers, TaskStart(w)
  PROVE  TaskInv'
<1> USE DEF TaskInv
<1>1. PICK k \in queued :
        /\ queued' = queued \ {k}
        /\ executing' = [executing EXCEPT ![w] = k]
        /\ Push(w, Frame("async", IF task_owner[k] \in plugins THEN "callback" ELSE "complete",
                         task_owner[k], {}))
  BY DEF TaskStart
<1>2. PICK f : f = Frame("async", IF task_owner[k] \in plugins THEN "callback" ELSE "complete",
                         task_owner[k], {})
  OBVIOUS
<1>3. /\ stack[w] = <<>> /\ w \in Threads
      /\ UNCHANGED <<plugins, next_id, pending_async, next_task, task_owner, completed_async,
                     drained, unload_raced>>
  BY TypeFacts DEF TaskStart, tables
<1>4. /\ k \in Tasks /\ k # 0 /\ task_owner[k] \in Instances \cup {0}
      /\ task_owner[k] < next_id
  BY <1>1, TypeFacts DEF TaskTypes, Fresh
<1>5. f \in FrameType /\ f.op = "async" /\ f.inst = task_owner[k]
  BY <1>2, <1>4, FrameFacts
<1>6. /\ \A s \in Threads \ {w} : stack'[s] = stack[s]
      /\ stack' \in [Threads -> Seq(FrameType)]
      /\ stack'[w] # <<>>
      /\ stack'[w] = <<f>> /\ Len(stack'[w]) = 1 /\ DOMAIN stack'[w] = {1} /\ stack'[w][1] = f
  <2>1. stack' = [stack EXCEPT ![w] = <<f>> \o stack[w]]
    BY <1>1, <1>2 DEF Push
  <2>2. stack'[w] = <<f>> \o <<>>
    BY <1>3, <2>1 DEF TaskTypes
  <2>3. <<f>> \o <<>> = <<f>> /\ <<f>> \in Seq(FrameType) /\ <<f>> # <<>>
    BY <1>5
  <2>4. QED
    BY <1>3, <2>1, <2>2, <2>3 DEF TaskTypes
<1>7. /\ executing[w] = 0
      /\ executing'[w] = k
      /\ \A v \in Workers \ {w} : executing'[v] = executing[v]
  BY <1>1, <1>3 DEF AsyncFrames, TaskTypes
<1>8. TaskTypes'
  <2>1. executing' \in [Workers -> Tasks \cup {0}] /\ queued' \in SUBSET Tasks
    BY <1>1, <1>4 DEF TaskTypes
  <2>2. QED
    BY <1>3, <1>6, <2>1 DEF TaskTypes
<1>9. Outstanding' = Outstanding /\ Recorded' = Recorded
  <2>1. \A x : x \in Outstanding <=> x # 0 /\ (x \in queued \/ \E v \in Workers : x = executing[v])
    BY DEF Outstanding
  <2>2. \A x : x \in Outstanding' <=>
                 x # 0 /\ (x \in queued' \/ \E v \in Workers : x = executing'[v])
    BY DEF Outstanding
  <2>3. \A x : x # 0 => ((\E v \in Workers : x = executing'[v]) <=>
                         (x = k \/ \E v \in Workers : x = executing[v]))
    BY <1>7
  <2>4. \A x : x \in Outstanding' <=> x \in Outstanding
    BY <1>1, <2>1, <2>2, <2>3
  <2>5. QED
    BY <1>3, <2>4 DEF Recorded
<1>10. Fresh'
  <2>1. ASSUME NEW s \in Threads, NEW m \in DOMAIN stack'[s] PROVE stack'[s][m].inst < next_id'
    BY <1>3, <1>4, <1>5, <1>6 DEF Fresh
  <2>2. QED
    BY <1>3, <1>9, <2>1 DEF Fresh
<1>11. NothingPending'
  BY <1>3 DEF NothingPending
<1>12. AsyncFrames'
  <2>1. ASSUME NEW s \in Threads, NEW m \in DOMAIN stack'[s], stack'[s][m].op = "async"
        PROVE  /\ s \in Workers
               /\ m = Len(stack'[s])
               /\ executing'[s] # 0
               /\ stack'[s][m].inst = task_owner'[executing'[s]]
    <3>1. CASE s = w
      BY <1>3, <1>4, <1>5, <1>6, <1>7, <3>1
    <3>2. CASE s # w
      BY <1>3, <1>6, <1>7, <2>1, <3>2 DEF AsyncFrames
    <3>3. QED
      BY <3>1, <3>2
  <2>2. ASSUME NEW v \in Workers, executing'[v] # 0
        PROVE  stack'[v] # <<>> /\ stack'[v][Len(stack'[v])].op = "async"
    <3>1. CASE v = w
      <4>1. stack'[v][Len(stack'[v])] = f
        BY <1>6, <3>1
      <4>2. stack'[v] # <<>>
        BY <1>6, <3>1
      <4>3. QED
        BY <1>5, <4>1, <4>2
    <3>2. CASE v # w
      BY <1>6, <1>7, <2>2, <3>2, TypeFacts DEF AsyncFrames
    <3>3. QED
      BY <3>1, <3>2
  <2>3. QED
    BY <2>1, <2>2 DEF AsyncFrames
<1>13. UnloadTested'
  <2>1. ASSUME NEW s \in Threads, NEW m \in DOMAIN stack'[s], stack'[s][m].op = "unload"
        PROVE  stack'[s] = stack[s]
    BY <1>5, <1>6, <2>1
  <2>2. QED
    BY <1>3, <2>1 DEF UnloadTested
<1>14. PendingAccurate'
  BY <1>3, <1>9 DEF PendingAccurate
<1>15. TaskRecordedOnce'
  <2>1. \A v \in Workers : executing[v] # k
    BY <1>1 DEF TaskRecordedOnce
  <2>2. \A u, v \in Workers : executing'[u] = executing'[v] /\ executing'[u] # 0 => u = v
    BY <1>7, <2>1 DEF TaskRecordedOnce
  <2>3. \A v \in Workers : executing'[v] \notin queued'
    BY <1>1, <1>7 DEF TaskRecordedOnce
  <2>4. QED
    BY <1>3, <1>9, <2>2, <2>3 DEF TaskRecordedOnce
<1>16. TasksKeepPlugin'
  BY <1>3, <1>9 DEF TasksKeepPlugin
<1>17. QED
  BY <1>8, <1>10, <1>11, <1>12, <1>13, <1>14, <1>15, <1>16

\* The outcome of a task is recorded and its plugin's counter goes down.
LEMMA TaskInvComplete ==
  ASSUME TaskInv, NEW w \in Workers, TaskComplete(w)
  PROVE  TaskInv'
<1> USE DEF TaskInv
<1>1. PICK k : k = executing[w]
  OBVIOUS
<1>2. PICK i : i = task_owner[k]
  OBVIOUS
<1>3. /\ stack[w] # <<>> /\ Top(w).op = "async" /\ w \in Threads
      /\ completed_async' = Append(completed_async, k)
      /\ executing' = [executing EXCEPT ![w] = 0]
      /\ Pop(w)
      /\ UNCHANGED <<plugins, next_id, next_task, task_owner, queued, drained, unload_raced>>
  BY <1>1, TypeFacts DEF TaskComplete, At, tables
<1>4. stack[w] \in Seq(FrameType)
  BY <1>3 DEF TaskTypes
<1>5. Top(w) = stack[w][1] /\ 1 \in DOMAIN stack[w] /\ Len(stack[w]) \in Nat
  BY <1>3, <1>4, PopFacts DEF Top
<1>6. k # 0 /\ k \in Tasks /\ Len(stack[w]) = 1 /\ Top(w).inst = i
  BY <1>1, <1>2, <1>3, <1>5 DEF AsyncFrames, TaskTypes
<1>7. /\ \A s \in Threads \ {w} : stack'[s] = stack[s]
      /\ stack' \in [Threads -> Seq(FrameType)]
      /\ stack'[w] = <<>> /\ DOMAIN stack'[w] = {}
  <2>1. stack' = [stack EXCEPT ![w] = Tail(stack[w])]
    BY <1>3 DEF Pop
  <2>2. Tail(stack[w]) \in Seq(FrameType) /\ Len(Tail(stack[w])) = Len(stack[w]) - 1
    BY <1>3, <1>4, PopFacts
  <2>3. Len(Tail(stack[w])) = 0
    BY <1>6, <2>2
  <2>4. Tail(stack[w]) = <<>>
    BY <2>2, <2>3, NoElements
  <2>5. QED
    BY <1>3, <2>1, <2>2, <2>4 DEF TaskTypes
<1>8. /\ executing'[w] = 0
      /\ \A v \in Workers \ {w} : executing'[v] = executing[v] /\ executing[v] # k
      /\ k \notin queued
  BY <1>1, <1>3, <1>6 DEF TaskTypes, TaskRecordedOnce
<1>9. k \in Outstanding /\ k \notin Recorded /\ Outstanding' = Outstanding \ {k}
  <2>1. \A x : x \in Outstanding <=> x # 0 /\ (x \in queued \/ \E v \in Workers : x = executing[v])
    BY DEF Outstanding
  <2>2. \A x : x \in Outstanding' <=>
                 x # 0 /\ (x \in queued \/ \E v \in Workers : x = executing'[v])
    BY <1>3 DEF Outstanding
  <2>3. k \in Outstanding
    BY <1>1, <1>6, <2>1
  <2>4. k \notin Recorded
    BY <2>3 DEF TaskRecordedOnce, Recorded
  <2>5. \A x : x # 0 => ((\E v \in Workers : x = executing'[v]) <=>
                         (x # k /\ \E v \in Workers : x = executing[v]))
    BY <1>1, <1>8
  <2>6. \A x : x \in Outstanding' <=> x \in Outstanding /\ x # k
    BY <1>8, <2>1, <2>2, <2>5
  <2>7. QED
    BY <2>3, <2>4, <2>6
<1>10. PICK n : n = Len(completed_async)
  OBVIOUS
<1>11. /\ completed_async' \in Seq(Tasks)
       /\ n \in Nat
       /\ DOMAIN completed_async = 1 .. n
       /\ DOMAIN completed_async' = 1 .. n + 1
       /\ completed_async'[n + 1] = k
       /\ \A m \in 1 .. n : completed_async'[m] = completed_async[m]
  <2>1. completed_async \in Seq(Tasks)
    BY DEF TaskTypes
  <2>2. QED
    BY <1>3, <1>6, <1>10, <2>1, AppendFacts
<1>12. \A m \in 1 .. n + 1 : m \in 1 .. n \/ m = n + 1
  BY <1>11
<1>13. Recorded' = Recorded \cup {k}
  <2>1. \A x : x \in Recorded' <=> x \in drained \/ \E m \in 1 .. n + 1 : x = completed_async'[m]
    BY <1>3, <1>11 DEF Recorded
  <2>2. \A x : x \in Recorded <=> x \in drained \/ \E m \in 1 .. n : x = completed_async[m]
    BY <1>11 DEF Recorded
  <2>3. 1 .. n \subseteq 1 .. n + 1 /\ n + 1 \in 1 .. n + 1
    BY <1>11
  <2>4. \A x : (\E m \in 1 .. n + 1 : x = completed_async'[m]) <=>
               (x = k \/ \E m \in 1 .. n : x = completed_async[m])
    BY <1>11, <1>12, <2>3
  <2>5. QED
    BY <2>1, <2>2, <2>4
<1>14. pending_async' = IF i \in plugins /\ pending_async[i] > 0
                        THEN [pending_async EXCEPT ![i] = @ - 1]
                        ELSE pending_async
  BY <1>6 DEF TaskComplete
<1>15. ASSUME NEW j \in plugins
       PROVE  /\ pending_async'[j] = Cardinality({m \in Outstanding' : task_owner[m] = j})
              /\ pending_async[j] = 0 => pending_async'[j] = 0
  <2> DEFINE S == {m \in Outstanding : task_owner[m] = j}
             T == {m \in Outstanding' : task_owner[m] = j}
  <2>1. IsFiniteSet(S) /\ pending_async[j] = Cardinality(S) /\ j \in Instances
    BY TypeFacts, FS_Subset DEF PendingAccurate
  <2>2. CASE j # i
    <3>1. T = S
      BY <1>2, <1>9, <2>2
    <3>2. pending_async'[j] = pending_async[j]
      BY <1>14, <2>1, <2>2 DEF TaskTypes
    <3>3. QED
      BY <2>1, <3>1, <3>2
  <2>3. CASE j = i
    <3>1. k \in S /\ T = S \ {k}
      BY <1>2, <1>9, <2>3
    <3>2. Cardinality(S) \in Nat /\ Cardinality(T) = Cardinality(S) - 1
      BY <2>1, <3>1, FS_RemoveElement, FS_CardinalityType
    <3>3. Cardinality(S) # 0
      BY <2>1, <3>1, FS_EmptySet
    <3>4. pending_async[i] \in Nat /\ pending_async[i] > 0
      BY <2>1, <2>3, <3>2, <3>3
    <3>5. pending_async'[i] = pending_async[i] - 1
      BY <1>14, <2>1, <2>3, <3>4 DEF TaskTypes
    <3>6. QED
      BY <2>1, <2>3, <3>2, <3>3, <3>5
  <2>4. QED
    BY <2>2, <2>3
<1>16. TaskTypes'
  <2>1. executing' \in [Workers -> Tasks \cup {0}]
    BY <1>3 DEF TaskTypes
  <2>2. pending_async' \in [Instances -> Nat]
    <3>1. CASE i \in plugins /\ pending_async[i] > 0
      <4>1. i \in Instances /\ pending_async[i] \in Nat
        BY <3>1 DEF TaskTypes
      <4>2. pending_async[i] - 1 \in Nat
        BY <3>1, <4>1
      <4>3. QED
        BY <1>14, <3>1, <4>1, <4>2 DEF TaskTypes
    <3>2. CASE ~(i \in plugins /\ pending_async[i] > 0)
      BY <1>14, <3>2 DEF TaskTypes
    <3>3. QED
      BY <3>1, <3>2
  <2>3. QED
    BY <1>3, <1>7, <1>11, <2>1, <2>2 DEF TaskTypes
<1>17. Fresh'
  <2>1. \A s \in Threads : \A m \in DOMAIN stack'[s] : stack'[s][m].inst < next_id'
    BY <1>3, <1>7 DEF Fresh
  <2>2. \A m \in Outstanding' \cup Recorded' : m < next_task'
    BY <1>3, <1>9, <1>13 DEF Fresh
  <2>3. QED
    BY <1>3, <2>1, <2>2 DEF Fresh
<1>18. NothingPending'
  <2>1. \A j \in Instances \ plugins : pending_async'[j] = pending_async[j]
    BY <1>14 DEF TaskTypes
  <2>2. QED
    BY <1>3, <2>1 DEF NothingPending
<1>19. AsyncFrames'
  <2>1. ASSUME NEW s \in Threads, NEW m \in DOMAIN stack'[s], stack'[s][m].op = "async"
        PROVE  /\ s \in Workers
               /\ m = Len(stack'[s])
               /\ executing'[s] # 0
               /\ stack'[s][m].inst = task_owner'[executing'[s]]
    <3>1. s # w
      BY <1>7, <2>1
    <3>2. QED
      BY <1>3, <1>7, <1>8, <2>1, <3>1 DEF AsyncFrames
  <2>2. ASSUME NEW v \in Workers, executing'[v] # 0
        PROVE  stack'[v] # <<>> /\ stack'[v][Len(stack'[v])].op = "async"
    <3>1. v # w /\ v \in Threads
      BY <1>8, <2>2, TypeFacts
    <3>2. QED
      BY <1>7, <1>8, <2>2, <3>1 DEF AsyncFrames
  <2>3. QED
    BY <2>1, <2>2 DEF AsyncFrames
<1>20. UnloadTested'
  <2>1. ASSUME NEW s \in Threads, NEW m \in DOMAIN stack'[s]
        PROVE  stack'[s] = stack[s]
    BY <1>7, <2>1
  <2>2. QED
    BY <1>3, <1>15, <2>1 DEF UnloadTested
<1>21. PendingAccurate'
  BY <1>3, <1>15 DEF PendingAccurate
<1>22. TaskRecordedOnce'
  <2>1. \A u, v \in Workers : executing'[u] = executing'[v] /\ executing'[u] # 0 => u = v
    BY <1>8 DEF TaskRecordedOnce
  <2>2. \A v \in Workers : executing'[v] \notin queued'
    <3>1. 0 \notin queued
      BY TypeFacts DEF TaskTypes
    <3>2. QED
      BY <1>3, <1>8, <3>1 DEF TaskRecordedOnce
  <2>3. \A m \in 1 .. n : completed_async[m] # k /\ completed_async[m] \notin Outstanding \cup drained
    BY <1>9, <1>11 DEF Recorded, TaskRecordedOnce
  <2>4. ASSUME NEW a \in DOMAIN completed_async', NEW b \in DOMAIN completed_async',
               completed_async'[a] = completed_async'[b]
        PROVE  a = b
    <3>1. (a \in 1 .. n /\ b \in 1 .. n) \/ (a = n + 1 /\ b = n + 1)
      BY <1>11, <1>12, <2>3, <2>4
    <3>2. QED
      BY <1>11, <2>4, <3>1 DEF TaskRecordedOnce
  <2>5. ASSUME NEW a \in DOMAIN completed_async'
        PROVE  completed_async'[a] \notin Outstanding' \cup drained'
    <3>1. CASE a \in 1 .. n
      BY <1>3, <1>9, <1>11, <2>3, <3>1
    <3>2. CASE a = n + 1
      BY <1>3, <1>9, <1>11, <3>2 DEF Recorded
    <3>3. QED
      BY <1>11, <1>12, <3>1, <3>2
  <2>6. drained' \cap Outstanding' = {}
    BY <1>3, <1>9 DEF TaskRecordedOnce
  <2>7. \A m \in Tasks : m < next_task' => m \in Outstanding' \cup Recorded'
    BY <1>3, <1>9, <1>13 DEF TaskRecordedOnce
  <2>8. QED
    BY <2>1, <2>2, <2>4, <2>5, <2>6, <2>7 DEF TaskRecordedOnce
<1>23. TasksKeepPlugin'
  BY <1>3, <1>9 DEF TasksKeepPlugin
<1>24. QED
  BY <1>16, <1>17, <1>18, <1>19, <1>20, <1>21, <1>22, <1>23

\* What is left of a sequence without its first n elements.
LEMMA SubSeqFacts ==
  ASSUME NEW S, NEW s \in Seq(S), NEW n \in 1 .. Len(s)
  PROVE  /\ SubSeq(s, n + 1, Len(s)) \in Seq(S)
         /\ Len(s) \in Nat /\ n \in Nat
         /\ DOMAIN s = 1 .. Len(s)
         /\ DOMAIN SubSeq(s, n + 1, Len(s)) = 1 .. Len(s) - n
         /\ \A m \in 1 .. Len(s) - n : SubSeq(s, n + 1, Len(s))[m] = s[n + m]
  OBVIOUS

\* Records move from the queue to the caller of DrainCompletedAsync.
LEMMA TaskInvDrain ==
  ASSUME TaskInv, NEW t \in Clients, DrainCompletedAsync(t)
  PROVE  TaskInv'
<1> USE DEF TaskInv
<1>1. PICK n \in 1 .. Len(completed_async) :
        /\ completed_async' = SubSeq(completed_async, n + 1, Len(completed_async))
        /\ drained' = drained \cup {completed_async[k] : k \in 1 .. n}
  BY DEF DrainCompletedAsync
<1>2. UNCHANGED <<plugins, next_id, pending_async, next_task, task_owner, queued, executing,
                  stack, unload_raced>>
  BY DEF DrainCompletedAsync, tables
<1>3. PICK l : l = Len(completed_async)
  OBVIOUS
<1>4. /\ completed_async' \in Seq(Tasks)
      /\ l \in Nat /\ n \in Nat /\ n \in 1 .. l
      /\ DOMAIN completed_async = 1 .. l
      /\ DOMAIN completed_async' = 1 .. l - n
      /\ \A m \in 1 .. l - n : completed_async'[m] = completed_async[n + m]
  <2>1. completed_async \in Seq(Tasks)
    BY DEF TaskTypes
  <2>2. QED
    BY <1>1, <1>3, <2>1, SubSeqFacts
<1>5. /\ \A m \in 1 .. l - n : n + m \in 1 .. l /\ n + m \notin 1 .. n
      /\ \A m \in 1 .. n : m \in 1 .. l
      /\ \A m \in 1 .. l : m \in 1 .. n \/ (m - n \in 1 .. l - n /\ n + (m - n) = m)
  BY <1>4
<1>6. \A m \in 1 .. l : completed_async[m] \in Tasks
  <2>1. completed_async \in Seq(Tasks)
    BY DEF TaskTypes
  <2>2. QED
    BY <1>4, <2>1
<1>7. TaskTypes'
  <2>1. drained' \in SUBSET Tasks
    BY <1>1, <1>5, <1>6 DEF TaskTypes
  <2>2. QED
    BY <1>2, <1>4, <2>1 DEF TaskTypes
<1>8. Outstanding' = Outstanding
  BY <1>2 DEF Outstanding
<1>9. Recorded' = Recorded
  <2>1. \A x : x \in Recorded <=> x \in drained \/ \E m \in 1 .. l : x = completed_async[m]
    BY <1>4 DEF Recorded
  <2>2. \A x : x \in Recorded' <=> \/ x \in drained
                                   \/ \E m \in 1 .. n : x = completed_async[m]
                                   \/ \E m \in 1 .. l - n : x = completed_async'[m]
    BY <1>1, <1>4 DEF Recorded
  <2>3. \A x : x \in Recorded' => x \in Recorded
    BY <1>4, <1>5, <2>1, <2>2
  <2>4. ASSUME NEW m \in 1 .. l PROVE completed_async[m] \in Recorded'
    <3>1. CASE m \in 1 .. n
      BY <2>2, <3>1
    <3>2. CASE m - n \in 1 .. l - n /\ n + (m - n) = m
      BY <1>4, <2>2, <3>2
    <3>3. QED
      BY <1>5, <3>1, <3>2
  <2>5. \A x : x \in Recorded => x \in Recorded'
    BY <2>1, <2>2, <2>4
  <2>6. QED
    BY <2>3, <2>5
<1>10. Fresh'
  BY <1>2, <1>8, <1>9 DEF Fresh
<1>11. NothingPending' /\ UnloadTested' /\ AsyncFrames'
  BY <1>2 DEF NothingPending, UnloadTested, AsyncFrames
<1>12. PendingAccurate' /\ TasksKeepPlugin'
  BY <1>2, <1>8 DEF PendingAccurate, TasksKeepPlugin
<1>13. TaskRecordedOnce'
  <2>1. ASSUME NEW a \in DOMAIN completed_async', NEW b \in DOMAIN completed_async',
               completed_async'[a] = completed_async'[b]
        PROVE  a = b
    <3>1. n + a \in 1 .. l /\ n + b \in 1 .. l /\ completed_async[n + a] = completed_async[n + b]
      BY <1>4, <1>5, <2>1
    <3>2. n + a = n + b
      BY <1>4, <3>1 DEF TaskRecordedOnce
    <3>3. a \in Nat /\ b \in Nat
      BY <1>4
    <3>4. QED
      BY <1>4, <3>2, <3>3
  <2>2. ASSUME NEW a \in DOMAIN completed_async'
        PROVE  completed_async'[a] \notin Outstanding' \cup drained'
    <3>1. n + a \in 1 .. l /\ n + a \notin 1 .. n /\ completed_async'[a] = completed_async[n + a]
      BY <1>4, <1>5
    <3>2. completed_async[n + a] \notin Outstanding \cup drained
      BY <1>4, <3>1 DEF TaskRecordedOnce
    <3>3. \A m \in 1 .. n : completed_async[m] # completed_async[n + a]
      BY <1>4, <1>5, <3>1 DEF TaskRecordedOnce
    <3>4. QED
      BY <1>1, <1>8, <3>1, <3>2, <3>3
  <2>3. drained' \cap Outstanding' = {}
    <3>1. \A m \in 1 .. n : completed_async[m] \notin Outstanding
      BY <1>4, <1>5 DEF TaskRecordedOnce
    <3>2. QED
      BY <1>1, <1>8, <3>1 DEF TaskRecordedOnce
  <2>4. QED
    BY <1>2, <1>8, <1>9, <2>1, <2>2, <2>3 DEF TaskRecordedOnce
<1>14. QED
  BY <1>7, <1>10, <1>11, <1>12, <1>13

-----------------------------------------------------------------------------
(* The other operations only move the stack of their thread                *)

LEMMA TopFacts ==
  ASSUME TaskTypes, Fresh, NEW t \in Threads, stack[t] # <<>>
  PROVE  /\ Top(t) \in FrameType
         /\ Top(t) = stack[t][1]
         /\ 1 \in DOMAIN stack[t]
         /\ Top(t).inst \in Instances \cup {0}
         /\ Top(t).inst < next_id
         /\ Top(t).todo \in SUBSET Instances
<1>1. stack[t] \in Seq(FrameType)
  BY DEF TaskTypes
<1>2. Top(t) \in FrameType /\ Top(t) = stack[t][1] /\ 1 \in DOMAIN stack[t]
  BY <1>1, PopFacts DEF Top
<1>3. Top(t).inst < next_id
  BY <1>2 DEF Fresh
<1>4. QED
  BY <1>2, <1>3 DEF FrameType

\* A step inside an operation.
LEMMA GotoStep ==
  ASSUME TaskTypes, Fresh, next_id' = next_id, NEW t \in Threads, stack[t] # <<>>,
         NEW pc \in Pcs, Goto(t, pc)
  PROVE  StackStep(t)
<1> DEFINE f == [Top(t) EXCEPT !.pc = pc]
<1>1. Top(t) \in FrameType /\ Top(t).inst < next_id
  BY TopFacts
<1>2. f \in FrameType /\ f.op = Top(t).op /\ f.inst = Top(t).inst
  BY <1>1 DEF FrameType, Pcs
<1>3. Carries(f, Top(t))
  BY <1>1, <1>2 DEF Carries
<1>4. Replace(t, f)
  BY DEF Goto
<1> HIDE DEF f
<1>5. QED
  BY <1>3, <1>4, InvStackTypes, ReplaceStep

\* A frame at the start of an operation.
LEMMA StartFrame ==
  ASSUME next_id' \in Nat,
         NEW op \in Ops \ {"async"}, NEW pc \in Pcs, NEW i \in Instances \cup {0},
         i < next_id', op = "unload" => UnloadPasses(i), NEW todo \in SUBSET Instances
  PROVE  NewFrame(Frame(op, pc, i, todo))
<1>1. /\ Frame(op, pc, i, todo) \in FrameType
      /\ Frame(op, pc, i, todo).op = op
      /\ Frame(op, pc, i, todo).inst = i
  BY FrameFacts DEF Ops, Pcs
<1>2. QED
  BY <1>1 DEF NewFrame, UnloadPasses

\* What Load, Unload and UnloadAll do in their critical sections, but for the two
\* that change the table of plugins.
LEMMA UnloadSteps ==
  ASSUME TaskTypes, Fresh, NEW t \in Threads, next_id' = next_id,
         \/ LoadFind(t) \/ LoadFinish(t) \/ LoadUndo(t) \/ UnloadAllNext(t)
         \/ \E i \in Instances : Unload(t, i)
         \/ UnloadAll(t)
  PROVE  StackStep(t)
<1> USE DEF Ops, Pcs
<1>1. StackTypes /\ next_id' \in Nat
  BY InvStackTypes, TypeFacts
<1>2. \A i \in plugins : i \in Instances /\ i < next_id'
  BY TypeFacts DEF Fresh
<1>3. CASE LoadFind(t)
  BY <1>1, <1>3, GotoStep, PopStep DEF LoadFind, At
<1>4. CASE LoadFinish(t)
  BY <1>1, <1>4, PopStep DEF LoadFinish, At
<1>5. CASE LoadUndo(t)
  <2>1. stack[t] # <<>> /\ Top(t).op = "load"
    BY <1>5 DEF LoadUndo, At
  <2>2. CASE UnloadPasses(Top(t).inst)
    <3>1. NewFrame(Frame("unload", "callback", Top(t).inst, {}))
      BY <1>1, <1>2, <2>2, StartFrame DEF UnloadPasses
    <3>2. Replace(t, Frame("unload", "callback", Top(t).inst, {}))
      BY <1>5, <2>2 DEF LoadUndo
    <3>3. QED
      BY <1>1, <2>1, <3>1, <3>2, ReplaceStep
  <2>3. CASE ~UnloadPasses(Top(t).inst)
    BY <1>1, <1>5, <2>1, <2>3, PopStep DEF LoadUndo
  <2>4. QED
    BY <2>2, <2>3
<1>6. CASE UnloadAllNext(t)
  <2>1. stack[t] # <<>> /\ Top(t).op = "unloadAll" /\ Top(t).todo \in SUBSET Instances
    BY <1>6, TopFacts DEF UnloadAllNext, At
  <2>2. CASE Pop(t)
    BY <1>1, <2>1, <2>2, PopStep
  <2>3. ASSUME NEW i \in Top(t).todo,
               LET rest == Frame("unloadAll", "loop", 0, Top(t).todo \ {i}) IN
               IF UnloadPasses(i)
               THEN stack' = [stack EXCEPT ![t] =
                                <<Frame("unload", "callback", i, {}), rest>> \o Tail(@)]
               ELSE Replace(t, rest)
        PROVE  StackStep(t)
    <3> DEFINE rest == Frame("unloadAll", "loop", 0, Top(t).todo \ {i})
    <3>1. 0 < next_id'
      BY DEF TaskTypes
    <3>2. NewFrame(rest)
      BY <1>1, <2>1, <3>1, StartFrame
    <3>3. CASE UnloadPasses(i)
      <4>1. NewFrame(Frame("unload", "callback", i, {}))
        BY <1>1, <1>2, <3>3, StartFrame DEF UnloadPasses
      <4>2. stack' = [stack EXCEPT ![t] = <<Frame("unload", "callback", i, {}), rest>> \o Tail(@)]
        BY <2>3, <3>3
      <4> HIDE DEF rest
      <4>3. QED
        BY <1>1, <2>1, <3>2, <4>1, <4>2, ReplaceTwoStep
    <3>4. CASE ~UnloadPasses(i)
      <4>1. Replace(t, rest)
        BY <2>3, <3>4
      <4> HIDE DEF rest
      <4>2. QED
        BY <1>1, <2>1, <3>2, <4>1, ReplaceStep
    <3>5. QED
      BY <3>3, <3>4
  <2>4. Pop(t) \/ \E i \in Top(t).todo :
               LET rest == Frame("unloadAll", "loop", 0, Top(t).todo \ {i}) IN
               IF UnloadPasses(i)
               THEN stack' = [stack EXCEPT ![t] =
                                <<Frame("unload", "callback", i, {}), rest>> \o Tail(@)]
               ELSE Replace(t, rest)
    BY <1>6 DEF UnloadAllNext
  <2>5. QED
    BY <2>2, <2>3, <2>4
<1>7. ASSUME NEW i \in Instances, Unload(t, i) PROVE StackStep(t)
  <2>1. NewFrame(Frame("unload", "callback", i, {}))
    BY <1>1, <1>2, <1>7, StartFrame DEF Unload, UnloadPasses
  <2>2. Push(t, Frame("unload", "callback", i, {}))
    BY <1>7 DEF Unload
  <2>3. QED
    BY <1>1, <2>1, <2>2, PushStep
<1>8. CASE UnloadAll(t)
  <2>1. 0 < next_id' /\ plugins \in SUBSET Instances
    BY DEF TaskTypes
  <2>2. NewFrame(Frame("unloadAll", "loop", 0, plugins))
    BY <1>1, <2>1, StartFrame
  <2>3. QED
    BY <1>1, <1>8, <2>2, PushStep DEF UnloadAll
<1>9. QED
  BY <1>3, <1>4, <1>5, <1>6, <1>7, <1>8

\* What Invoke, Call, EmitEvent, the callbacks and the host API do.
LEMMA CallSteps ==
  ASSUME TaskTypes, Fresh, CallTableConsistent, NEW t \in Threads, next_id' = next_id,
         \/ \E i \in Instances : Invoke(t, i)
         \/ \E n \in Names : Call(t, n)
         \/ CallInvoke(t)
         \/ \E topic \in Topics : EmitEvent(t, topic) \/ HostEmitEvent(t, topic)
         \/ EmitNext(t)
         \/ CallbackReturn(t)
         \/ \E x \in Extensions : HostRegisterExtension(t, x)
  PROVE  StackStep(t)
<1> USE DEF Ops, Pcs
<1>1. StackTypes /\ next_id' \in Nat
  BY InvStackTypes, TypeFacts
<1>2. /\ \A i \in plugins : i \in Instances /\ i < next_id'
      /\ 0 < next_id' /\ plugins \in SUBSET Instances
  BY TypeFacts DEF Fresh, TaskTypes
<1>3. ASSUME NEW i \in Instances, Invoke(t, i) PROVE StackStep(t)
  <2>1. NewFrame(Frame("invoke", "callback", i, {}))
    BY <1>1, <1>2, <1>3, StartFrame DEF Invoke
  <2>2. QED
    BY <1>1, <1>3, <2>1, PushStep DEF Invoke
<1>4. ASSUME NEW n \in Names, Call(t, n) PROVE StackStep(t)
  <2>1. call_overrides[n] \in plugins
    BY <1>4 DEF Call, CallTableConsistent
  <2>2. NewFrame(Frame("invoke", "find", call_overrides[n], {}))
    BY <1>1, <1>2, <2>1, StartFrame
  <2>3. QED
    BY <1>1, <1>4, <2>2, PushStep DEF Call
<1>5. CASE CallInvoke(t)
  BY <1>1, <1>5, GotoStep, PopStep DEF CallInvoke, At
<1>6. ASSUME NEW topic \in Topics, EmitEvent(t, topic) \/ HostEmitEvent(t, topic)
      PROVE  StackStep(t)
  <2>1. Recipients(topic) \in SUBSET Instances
    BY <1>2 DEF Recipients
  <2>2. NewFrame(Frame("emit", "loop", 0, Recipients(topic)))
    BY <1>1, <1>2, <2>1, StartFrame
  <2>3. Push(t, Frame("emit", "loop", 0, Recipients(topic)))
    BY <1>6 DEF EmitEvent, HostEmitEvent
  <2>4. QED
    BY <1>1, <2>2, <2>3, PushStep
<1>7. CASE EmitNext(t)
  <2>1. stack[t] # <<>> /\ Top(t).op = "emit" /\ Top(t).todo \in SUBSET Instances
    BY <1>7, TopFacts DEF EmitNext, At
  <2>2. CASE Pop(t)
    BY <1>1, <2>1, <2>2, PopStep
  <2>3. ASSUME NEW i \in Top(t).todo,
               IF i \in plugins
               THEN Replace(t, Frame("emit", "callback", i, Top(t).todo \ {i}))
               ELSE Replace(t, Frame("emit", "loop", 0, Top(t).todo \ {i}))
        PROVE  StackStep(t)
    <3>1. Top(t).todo \ {i} \in SUBSET Instances
      BY <2>1
    <3>2. CASE i \in plugins
      <4>1. NewFrame(Frame("emit", "callback", i, Top(t).todo \ {i}))
        BY <1>1, <1>2, <3>1, <3>2, StartFrame
      <4>2. QED
        BY <1>1, <2>1, <2>3, <3>2, <4>1, ReplaceStep
    <3>3. CASE i \notin plugins
      <4>1. NewFrame(Frame("emit", "loop", 0, Top(t).todo \ {i}))
        BY <1>1, <1>2, <3>1, StartFrame
      <4>2. QED
        BY <1>1, <2>1, <2>3, <3>3, <4>1, ReplaceStep
    <3>4. QED
      BY <3>2, <3>3
  <2>4. QED
    BY <1>7, <2>2, <2>3 DEF EmitNext
<1>8. CASE CallbackReturn(t)
  <2>1. stack[t] # <<>> /\ Top(t).todo \in SUBSET Instances
    BY <1>8, TopFacts DEF CallbackReturn, InCallback
  <2>2. CASE \E pc \in Pcs : Goto(t, pc)
    BY <2>1, <2>2, GotoStep
  <2>3. CASE Top(t).op # "async" /\ Pop(t)
    BY <1>1, <2>1, <2>3, PopStep
  <2>4. CASE Top(t).op = "emit" /\ Replace(t, Frame("emit", "loop", 0, Top(t).todo))
    <3>1. NewFrame(Frame("emit", "loop", 0, Top(t).todo))
      BY <1>1, <1>2, <2>1, StartFrame
    <3>2. QED
      BY <1>1, <2>1, <2>4, <3>1, ReplaceStep
  <2>5. QED
    BY <1>8, <2>2, <2>3, <2>4 DEF CallbackReturn
<1>9. ASSUME NEW x \in Extensions, HostRegisterExtension(t, x) PROVE StackStep(t)
  BY <1>9, GotoStep DEF HostRegisterExtension, Calls, InCallback
<1>10. QED
  BY <1>3, <1>4, <1>5, <1>6, <1>7, <1>8, <1>9

LEMMA TaskInvStep == TaskInv /\ CallInv /\ [Next]_vars => TaskInv'
<1> SUFFICES ASSUME TaskInv, CallInv, [Next]_vars PROVE TaskInv'
  OBVIOUS
<1>0. TaskTypes /\ Fresh /\ CallTableConsistent
  BY DEF TaskInv, CallInv
<1>1. CASE UNCHANGED vars
  <2>1. UNCHANGED <<taskVars, stack>>
    BY <1>1 DEF vars, tables, taskVars, tasks
  <2>2. UNCHANGED <<plugins, next_id, pending_async, next_task, task_owner, queued, executing,
                    completed_async, drained, unload_raced, stack>>
    BY <2>1 DEF taskVars, tasks
  <2>3. QED
    BY <2>2 DEF TaskInv, TaskTypes, Fresh, NothingPending, AsyncFrames, UnloadTested,
                PendingAccurate, TaskRecordedOnce, TasksKeepPlugin, Outstanding, Recorded
<1>2. ASSUME NEW t \in Clients, ClientCall(t) PROVE TaskInv'
  <2>0. t \in Threads
    BY DEF Threads
  <2>1. CASE LoadStore(t)
    BY <2>1, TaskInvLoadStore
  <2>2. CASE UnloadAll(t)
    BY <1>0, <2>0, <2>2, UnloadSteps, TaskInvQuiet DEF UnloadAll, tables, taskVars
  <2>3. CASE DrainCompletedAsync(t)
    BY <2>3, TaskInvDrain
  <2>4. ASSUME NEW i \in Instances, Unload(t, i) PROVE TaskInv'
    BY <1>0, <2>0, <2>4, UnloadSteps, TaskInvQuiet DEF Unload, taskVars
  <2>5. ASSUME NEW i \in Instances, Invoke(t, i) PROVE TaskInv'
    BY <1>0, <2>0, <2>5, CallSteps, TaskInvQuiet DEF Invoke, tables, taskVars
  <2>6. ASSUME NEW n \in Names, Call(t, n) PROVE TaskInv'
    BY <1>0, <2>0, <2>6, CallSteps, TaskInvQuiet DEF Call, tables, taskVars
  <2>7. ASSUME NEW topic \in Topics, EmitEvent(t, topic) PROVE TaskInv'
    BY <1>0, <2>0, <2>7, CallSteps, TaskInvQuiet DEF EmitEvent, tables, taskVars
  <2>8. QED
    BY <1>2, <2>1, <2>2, <2>3, <2>4, <2>5, <2>6, <2>7 DEF ClientCall
<1>3. ASSUME NEW t \in Threads, HostStep(t) PROVE TaskInv'
  <2>1. CASE LoadFind(t) \/ LoadFinish(t) \/ LoadUndo(t) \/ UnloadAllNext(t)
    <3>1. UNCHANGED taskVars
      BY <2>1 DEF LoadFind, LoadFinish, LoadUndo, UnloadAllNext, tables, taskVars
    <3>2. next_id' = next_id
      BY <3>1 DEF taskVars
    <3>3. QED
      BY <1>0, <2>1, <3>1, <3>2, UnloadSteps, TaskInvQuiet
  <2>2. CASE UnloadErase(t)
    BY <2>2, TaskInvUnloadErase
  <2>3. CASE CallInvoke(t) \/ EmitNext(t)
    BY <1>0, <2>3, CallSteps, TaskInvQuiet DEF CallInvoke, EmitNext, tables, taskVars
  <2>4. QED
    BY <1>3, <2>1, <2>2, <2>3 DEF HostStep
<1>4. ASSUME NEW t \in Threads, CallbackReturn(t) PROVE TaskInv'
  BY <1>0, <1>4, CallSteps, TaskInvQuiet DEF CallbackReturn, tables, taskVars
<1>5. ASSUME NEW t \in Threads, stack' = stack, UNCHANGED taskVars PROVE TaskInv'
  <2>1. StackTypes
    BY <1>0, <1>5, InvStackTypes DEF taskVars
  <2>2. QED
    BY <1>5, <2>1, StayStep, TaskInvQuiet
<1>6. ASSUME NEW t \in Threads, Fault(t) PROVE TaskInv'
  BY <1>5, <1>6 DEF Fault, tables, taskVars
<1>7. ASSUME NEW t \in Threads, HostApi(t) PROVE TaskInv'
  <2>1. ASSUME NEW n \in Names, HostRegisterCall(t, n) \/ HostUnregisterCall(t, n)
        PROVE  TaskInv'
    BY <1>5, <2>1 DEF HostRegisterCall, HostUnregisterCall, taskVars
  <2>2. ASSUME NEW p \in Topics \cup {AnyTopic},
               HostSubscribeEvent(t, p) \/ HostUnsubscribeEvent(t, p)
        PROVE  TaskInv'
    BY <1>5, <2>2 DEF HostSubscribeEvent, HostUnsubscribeEvent, taskVars
  <2>3. ASSUME NEW topic \in Topics, HostEmitEvent(t, topic) PROVE TaskInv'
    BY <1>0, <2>3, CallSteps, TaskInvQuiet DEF HostEmitEvent, tables, taskVars
  <2>4. CASE HostScheduleAsync(t)
    BY <2>4, TaskInvSchedule
  <2>5. ASSUME NEW x \in Extensions, HostRegisterExtension(t, x) PROVE TaskInv'
    BY <1>0, <2>5, CallSteps, TaskInvQuiet DEF HostRegisterExtension, taskVars
  <2>6. QED
    BY <1>7, <2>1, <2>2, <2>3, <2>4, <2>5 DEF HostApi
<1>8. ASSUME NEW w \in Workers, TaskStart(w) \/ TaskComplete(w) PROVE TaskInv'
  BY <1>8, TaskInvStart, TaskInvComplete
<1>9. QED
  BY <1>1, <1>2, <1>3, <1>4, <1>6, <1>7, <1>8 DEF Next

-----------------------------------------------------------------------------
(* The rest of the type invariant                                          *)

LEMMA HostTypesInit == Init => HostTypes
  BY DEF Init, HostTypes

LEMMA HostTypesStep == HostTypes /\ TaskInv /\ [Next]_vars => HostTypes'
<1> SUFFICES ASSUME HostTypes, TaskInv, [Next]_vars PROVE HostTypes'
  OBVIOUS
<1> USE DEF HostTypes
<1>0. TaskTypes /\ Fresh
  BY DEF TaskInv
<1>1. CASE UNCHANGED vars
  BY <1>1 DEF vars, tables
<1>2. \A i : EraseExtensions(i) => extensions' \in [Extensions -> Instances \cup {0}]
  BY DEF EraseExtensions
<1>3. ASSUME NEW t \in Clients, ClientCall(t) PROVE HostTypes'
  <2>1. ASSUME NEW i \in Instances, Unload(t, i) PROVE HostTypes'
    BY <1>2, <2>1 DEF Unload
  <2>2. CASE ~(\E i \in Instances : Unload(t, i))
    BY <1>3, <2>2 DEF ClientCall, LoadStore, UnloadAll, DrainCompletedAsync, Invoke, Call,
                      EmitEvent, tables
  <2>3. QED
    BY <2>1, <2>2
<1>4. ASSUME NEW t \in Threads, HostStep(t) PROVE HostTypes'
  <2>1. CASE LoadFind(t) \/ CallInvoke(t) \/ EmitNext(t)
    BY <2>1 DEF LoadFind, CallInvoke, EmitNext, tables
  <2>2. CASE LoadFinish(t)
    BY <2>2 DEF LoadFinish
  <2>3. CASE LoadUndo(t)
    BY <1>2, <2>3 DEF LoadUndo
  <2>4. CASE UnloadAllNext(t)
    BY <1>2, <2>4 DEF UnloadAllNext
  <2>5. CASE UnloadErase(t)
    <3>1. CASE Top(t).inst \in plugins
      BY <2>5, <3>1 DEF UnloadErase
    <3>2. CASE Top(t).inst \notin plugins
      BY <2>5, <3>2 DEF UnloadErase
    <3>3. QED
      BY <3>1, <3>2
  <2>6. QED
    BY <1>4, <2>1, <2>2, <2>3, <2>4, <2>5 DEF HostStep
<1>5. ASSUME NEW t \in Threads, CallbackReturn(t) \/ Fault(t) PROVE HostTypes'
  BY <1>5 DEF CallbackReturn, Fault, tables
<1>6. ASSUME NEW t \in Threads, HostApi(t) PROVE HostTypes'
  <2>1. ASSUME NEW op, Calls(t, op) PROVE Top(t).inst \in Instances
    BY <1>0, <2>1 DEF Calls, InCallback, TaskTypes
  <2>2. ASSUME NEW n \in Names, HostRegisterCall(t, n) PROVE HostTypes'
    BY <2>1, <2>2 DEF HostRegisterCall
  <2>3. ASSUME NEW n \in Names, HostUnregisterCall(t, n) PROVE HostTypes'
    BY <2>3 DEF HostUnregisterCall
  <2>4. ASSUME NEW p \in Topics \cup {AnyTopic},
               HostSubscribeEvent(t, p) \/ HostUnsubscribeEvent(t, p)
        PROVE  HostTypes'
    BY <2>4 DEF HostSubscribeEvent, HostUnsubscribeEvent
  <2>5. ASSUME NEW topic \in Topics, HostEmitEvent(t, topic) PROVE HostTypes'
    BY <2>5 DEF HostEmitEvent, tables
  <2>6. CASE HostScheduleAsync(t)
    BY <2>6 DEF HostScheduleAsync, tables
  <2>7. ASSUME NEW x \in Extensions, HostRegisterExtension(t, x) PROVE HostTypes'
    BY <2>1, <2>7 DEF HostRegisterExtension
  <2>8. QED
    BY <1>6, <2>2, <2>3, <2>4, <2>5, <2>6, <2>7 DEF HostApi
<1>7. ASSUME NEW w \in Workers, TaskStart(w) \/ TaskComplete(w) PROVE HostTypes'
  BY <1>7 DEF TaskStart, TaskComplete, tables
<1>8. QED
  BY <1>1, <1>3, <1>4, <1>5, <1>6, <1>7 DEF Next

\* The inductive invariant of the host: types, fresh identifiers, the frame of a
\* task at the bottom of its worker's stack, what an Unload in progress has
\* tested, and the four properties below.
THEOREM HostInvariance == SafeSpec => []IndInv
<1>1. Init => TaskInv /\ HostTypes /\ CallInv
  BY TaskInvInit, HostTypesInit, CallInvInit
<1>2. TaskInv /\ HostTypes /\ CallInv /\ [Next]_vars => (TaskInv /\ HostTypes /\ CallInv)'
  BY TaskInvStep, HostTypesStep, CallInvStep
<1>3. TaskInv /\ HostTypes /\ CallInv => IndInv
  BY DEF TaskInv, TaskTypes, HostTypes, CallInv, IndInv, TypeOK
<1>4. QED
  BY <1>1, <1>2, <1>3, PTL DEF SafeSpec

\* However clients, callbacks and workers interleave, the counter that Unload
\* tests is the number of its plugin's tasks that are scheduled and not recorded
\* (HostScheduleAsync adds under the mutex, the task's end subtracts).
THEOREM PluginPending == SafeSpec => []PendingAccurate
<1>1. IndInv => PendingAccurate
  BY DEF IndInv
<1>2. QED
  BY <1>1, HostInvariance, PTL

\* No task is lost, run twice or recorded twice, whatever happens to its plugin
\* and however often DrainCompletedAsync is called.
THEOREM PluginTasksOnce == SafeSpec => []TaskRecordedOnce
<1>1. IndInv => TaskRecordedOnce
  BY DEF IndInv
<1>2. QED
  BY <1>1, HostInvariance, PTL

\* A task outlives its plugin only if the plugin scheduled it while its own Unload
\* was in progress, after the test of pending_async.
THEOREM PluginTasksKept == SafeSpec => []TasksKeepPlugin
<1>1. IndInv => TasksKeepPlugin
  BY DEF IndInv
<1>2. QED
  BY <1>1, HostInvariance, PTL

-----------------------------------------------------------------------------
(* A single client                                                         *)

\* Where an operation goes on with the record of its plugin.
InUse == {"callback", "finish", "undo"}

\* A frame whose operation uses only records that are there.
FrameFits(f, P) == /\ f.pc \in InUse => f.inst \in P
                   /\ f.op = "unloadAll" => f.pc = "loop"

Managing == {"load", "unload", "unloadAll"}

\* A worker runs tasks and the events that their callbacks emit.  A client's Load
\* or Unload is at the bottom of its stack, or above an UnloadAll.
Ordered(t, s) ==
  /\ t \in Workers => \A m \in DOMAIN s : s[m].op \notin Managing
  /\ \A m, n \in DOMAIN s : m < n /\ s[m].op \in Managing => s[n].op = "unloadAll"

\* UnloadAll never runs a callback itself.
Looping(s) == \A m \in DOMAIN s : s[m].op = "unloadAll" => s[m].pc = "loop"

\* All that the property of a single client needs of the stack s of thread t.
Sole(t, s, P) ==
  /\ Ordered(t, s)
  /\ Looping(s)
  /\ t \in Clients /\ Clients = {t} => \A m \in DOMAIN s : FrameFits(s[m], P)

SoleInv == \A t \in Threads : Sole(t, stack[t], plugins)

LEMMA SolePush ==
  ASSUME NEW t, NEW s \in Seq(FrameType), NEW f \in FrameType, NEW P, NEW Q,
         Sole(t, s, P), P \subseteq Q, FrameFits(f, Q),
         \/ f.op \notin Managing
         \/ t \notin Workers /\ \A n \in DOMAIN s : s[n].op = "unloadAll"
  PROVE  Sole(t, <<f>> \o s, Q)
<1>1. PICK h : h = Len(s)
  OBVIOUS
<1>2. PICK new : new = <<f>> \o s
  OBVIOUS
<1>3. /\ h \in Nat /\ DOMAIN s = 1 .. h
      /\ DOMAIN new = 1 .. h + 1
      /\ new[1] = f
      /\ \A m \in 2 .. h + 1 : new[m] = s[m - 1]
  BY <1>1, <1>2, PushFacts
<1>4. \A m \in 1 .. h + 1 : m \in Nat /\ (m = 1 \/ (m \in 2 .. h + 1 /\ m - 1 \in 1 .. h))
  BY <1>3
<1>5. Ordered(t, new)
  <2>1. ASSUME t \in Workers, NEW m \in DOMAIN new PROVE new[m].op \notin Managing
    BY <1>3, <1>4, <2>1 DEF Sole, Ordered
  <2>2. ASSUME NEW m \in DOMAIN new, NEW n \in DOMAIN new, m < n, new[m].op \in Managing
        PROVE  new[n].op = "unloadAll"
    <3>1. n \in 2 .. h + 1 /\ n - 1 \in 1 .. h /\ new[n] = s[n - 1]
      BY <1>3, <1>4, <2>2
    <3>3. CASE m = 1
      BY <1>3, <2>2, <3>1, <3>3
    <3>4. CASE m # 1
      <4>1. m - 1 \in 1 .. h /\ new[m] = s[m - 1] /\ m - 1 < n - 1
        BY <1>3, <1>4, <2>2, <3>1, <3>4
      <4>2. QED
        BY <1>3, <2>2, <3>1, <4>1 DEF Sole, Ordered
    <3>5. QED
      BY <3>3, <3>4
  <2>3. QED
    BY <2>1, <2>2 DEF Ordered
<1>6. ASSUME t \in Clients, Clients = {t}, NEW m \in DOMAIN new PROVE FrameFits(new[m], Q)
  <2>1. CASE m = 1
    BY <1>3, <2>1
  <2>2. CASE m # 1
    <3>1. m - 1 \in DOMAIN s /\ new[m] = s[m - 1]
      BY <1>3, <1>4, <2>2
    <3>2. FrameFits(s[m - 1], P)
      BY <1>6, <3>1 DEF Sole
    <3>3. QED
      BY <3>1, <3>2 DEF FrameFits
  <2>3. QED
    BY <2>1, <2>2
<1>7. Looping(new)
  <2>1. \A m \in DOMAIN new : m = 1 \/ (m - 1 \in DOMAIN s /\ new[m] = s[m - 1])
    BY <1>3, <1>4
  <2>2. QED
    BY <1>3, <2>1 DEF Sole, Looping, FrameFits
<1>8. QED
  BY <1>2, <1>5, <1>6, <1>7 DEF Sole

LEMMA SolePop ==
  ASSUME NEW t, NEW s \in Seq(FrameType), s # <<>>, NEW P, NEW Q, Sole(t, s, P),
         P \subseteq Q \/ Head(s).op = "unload"
  PROVE  Sole(t, Tail(s), Q)
<1>1. PICK h : h = Len(s)
  OBVIOUS
<1>2. PICK new : new = Tail(s)
  OBVIOUS
<1>3. /\ h \in Nat /\ DOMAIN s = 1 .. h /\ h >= 1
      /\ DOMAIN new = 1 .. h - 1
      /\ Head(s) = s[1]
      /\ \A m \in 1 .. h - 1 : new[m] = s[m + 1]
  BY <1>1, <1>2, PopFacts
<1>4. \A m \in 1 .. h - 1 : m \in Nat /\ m + 1 \in 1 .. h /\ 1 < m + 1 /\ 1 \in 1 .. h
  BY <1>3
<1>5. Ordered(t, new)
  <2>1. ASSUME t \in Workers, NEW m \in DOMAIN new PROVE new[m].op \notin Managing
    BY <1>3, <1>4, <2>1 DEF Sole, Ordered
  <2>2. ASSUME NEW m \in DOMAIN new, NEW n \in DOMAIN new, m < n, new[m].op \in Managing
        PROVE  new[n].op = "unloadAll"
    <3>1. m + 1 \in 1 .. h /\ n + 1 \in 1 .. h /\ m + 1 < n + 1
      BY <1>3, <1>4, <2>2
    <3>2. QED
      BY <1>3, <2>2, <3>1 DEF Sole, Ordered
  <2>3. QED
    BY <2>1, <2>2 DEF Ordered
<1>6. ASSUME t \in Clients, Clients = {t}, NEW m \in DOMAIN new PROVE FrameFits(new[m], Q)
  <2>1. m + 1 \in DOMAIN s /\ new[m] = s[m + 1] /\ 1 < m + 1 /\ 1 \in DOMAIN s
    BY <1>3, <1>4
  <2>2. FrameFits(s[m + 1], P)
    BY <1>6, <2>1 DEF Sole
  <2>3. CASE P \subseteq Q
    BY <2>1, <2>2, <2>3 DEF FrameFits
  <2>4. CASE Head(s).op = "unload"
    <3>1. s[m + 1].op = "unloadAll"
      BY <1>3, <2>1, <2>4 DEF Sole, Ordered, Managing
    <3>2. QED
      BY <2>1, <2>2, <3>1 DEF FrameFits, InUse
  <2>5. QED
    BY <2>3, <2>4
<1>7. Looping(new)
  <2>1. \A m \in DOMAIN new : m + 1 \in DOMAIN s /\ new[m] = s[m + 1]
    BY <1>3, <1>4
  <2>2. QED
    BY <2>1 DEF Sole, Looping
<1>8. QED
  BY <1>2, <1>5, <1>6, <1>7 DEF Sole

LEMMA SoleReplace ==
  ASSUME NEW t, NEW s \in Seq(FrameType), s # <<>>, NEW f \in FrameType, NEW P, NEW Q,
         Sole(t, s, P), P \subseteq Q, FrameFits(f, Q),
         f.op \in Managing => Head(s).op \in Managing
  PROVE  Sole(t, <<f>> \o Tail(s), Q)
<1>1. PICK h : h = Len(s)
  OBVIOUS
<1>2. PICK new : new = <<f>> \o Tail(s)
  OBVIOUS
<1>3. /\ h \in Nat /\ DOMAIN s = 1 .. h /\ h >= 1 /\ 1 \in 1 .. h
      /\ Head(s) = s[1]
  BY <1>1, PopFacts
<1>4. /\ DOMAIN new = 1 .. h
      /\ new[1] = f
      /\ \A m \in 2 .. h : new[m] = s[m]
  BY <1>1, <1>2, ReplaceFacts
<1>5. \A m \in 1 .. h : m \in Nat /\ (m = 1 \/ m \in 2 .. h)
  BY <1>3
<1>6. \A m \in 1 .. h : new[m].op \in Managing => s[m].op \in Managing
  BY <1>3, <1>4, <1>5
<1>7. Ordered(t, new)
  <2>1. ASSUME t \in Workers, NEW m \in DOMAIN new PROVE new[m].op \notin Managing
    BY <1>3, <1>4, <1>6, <2>1 DEF Sole, Ordered
  <2>2. ASSUME NEW m \in DOMAIN new, NEW n \in DOMAIN new, m < n, new[m].op \in Managing
        PROVE  new[n].op = "unloadAll"
    <3>1. n \in 2 .. h /\ new[n] = s[n]
      BY <1>4, <1>5, <2>2
    <3>2. QED
      BY <1>3, <1>4, <1>6, <2>2, <3>1 DEF Sole, Ordered
  <2>3. QED
    BY <2>1, <2>2 DEF Ordered
<1>8. ASSUME t \in Clients, Clients = {t}, NEW m \in DOMAIN new PROVE FrameFits(new[m], Q)
  <2>1. CASE m = 1
    BY <1>4, <2>1
  <2>2. CASE m # 1
    <3>1. m \in DOMAIN s /\ new[m] = s[m]
      BY <1>3, <1>4, <1>5, <2>2
    <3>2. QED
      BY <1>8, <3>1 DEF Sole, FrameFits
  <2>3. QED
    BY <2>1, <2>2
<1>9. Looping(new)
  BY <1>3, <1>4, <1>5 DEF Sole, Looping, FrameFits
<1>10. QED
  BY <1>2, <1>7, <1>8, <1>9 DEF Sole

\* One stack changes, and plugins only come.
LEMMA SoleChange ==
  ASSUME stack \in [Threads -> Seq(FrameType)], SoleInv, plugins \subseteq plugins',
         NEW t \in Threads, NEW new, stack' = [stack EXCEPT ![t] = new],
         Sole(t, new, plugins')
  PROVE  SoleInv'
<1>1. ASSUME NEW s \in Threads PROVE Sole(s, stack'[s], plugins')
  <2>1. CASE s = t
    BY <2>1
  <2>2. CASE s # t
    <3>1. stack'[s] = stack[s] /\ Sole(s, stack[s], plugins)
      BY <2>2 DEF SoleInv
    <3>2. QED
      BY <3>1 DEF Sole, FrameFits
  <2>3. QED
    BY <2>1, <2>2
<1>2. QED
  BY <1>1 DEF SoleInv

LEMMA SoleStay ==
  ASSUME SoleInv, plugins' = plugins, stack' = stack
  PROVE  SoleInv'
  BY DEF SoleInv

\* What UnloadAll does when it calls Unload.
LEMMA SoleUnloadNext ==
  ASSUME NEW t, NEW s \in Seq(FrameType), s # <<>>, NEW f \in FrameType, NEW g \in FrameType,
         NEW P, Sole(t, s, P), FrameFits(f, P), FrameFits(g, P),
         Head(s).op = "unloadAll", g.op = "unloadAll"
  PROVE  Sole(t, <<f, g>> \o Tail(s), P)
<1>1. PICK new : new = <<g>> \o Tail(s)
  OBVIOUS
<1>2. Sole(t, new, P)
  BY <1>1, SoleReplace DEF Managing
<1>3. /\ new \in Seq(FrameType) /\ new[1] = g
      /\ DOMAIN new = 1 .. Len(s) /\ Len(s) \in Nat /\ Len(s) >= 1
  BY <1>1, ReplaceFacts, PopFacts
<1>4. 1 \in DOMAIN new /\ \A n \in DOMAIN new : n = 1 \/ 1 < n
  BY <1>3
<1>5. \A n \in DOMAIN new : new[n].op = "unloadAll"
  BY <1>2, <1>3, <1>4 DEF Sole, Ordered, Managing
<1>6. t \notin Workers
  BY <1>2, <1>3, <1>4 DEF Sole, Ordered, Managing
<1>7. Sole(t, <<f>> \o new, P)
  BY <1>2, <1>3, <1>5, <1>6, SolePush
<1>8. <<f>> \o (<<g>> \o Tail(s)) = <<f, g>> \o Tail(s)
  <2>1. Tail(s) \in Seq(FrameType) /\ <<f>> \in Seq(FrameType) /\ <<g>> \in Seq(FrameType)
    BY PopFacts
  <2>2. (<<f>> \o <<g>>) \o Tail(s) = <<f>> \o (<<g>> \o Tail(s))
    BY <2>1, ConcatAssociative
  <2>3. <<f>> \o <<g>> = <<f, g>>
    <3>1. /\ <<f>> \o <<g>> \in Seq(FrameType) /\ <<f, g>> \in Seq(FrameType)
          /\ Len(<<f>> \o <<g>>) = 2 /\ Len(<<f, g>>) = 2
          /\ (<<f>> \o <<g>>)[1] = f /\ (<<f>> \o <<g>>)[2] = g
      BY <2>1
    <3>2. \A m \in 1 .. 2 : m = 1 \/ m = 2
      OBVIOUS
    <3>3. \A m \in 1 .. Len(<<f>> \o <<g>>) : (<<f>> \o <<g>>)[m] = <<f, g>>[m]
      BY <3>1, <3>2
    <3>4. QED
      BY <3>1, <3>3, SeqEqual
  <2>4. QED
    BY <2>2, <2>3
<1>9. QED
  BY <1>1, <1>7, <1>8

LEMMA SoleInit == Init => SoleInv
<1>1. ASSUME NEW t, NEW P PROVE Sole(t, <<>>, P)
  BY DEF Sole, Ordered, Looping
<1>2. QED
  BY <1>1 DEF Init, SoleInv

\* A client without a call in progress starts one.
LEMMA SoleStart ==
  ASSUME TaskTypes, SoleInv, NEW t \in Clients, Idle(t), plugins \subseteq plugins',
         NEW f \in FrameType, FrameFits(f, plugins'), Push(t, f)
  PROVE  SoleInv'
<1>1. /\ t \in Threads /\ t \notin Workers
      /\ stack \in [Threads -> Seq(FrameType)] /\ stack[t] \in Seq(FrameType)
  BY ThreadsAssumption DEF Threads, TaskTypes
<1>2. Sole(t, stack[t], plugins)
  BY <1>1 DEF SoleInv
<1>3. stack[t] = <<>> /\ \A n \in DOMAIN stack[t] : FALSE
  BY DEF Idle
<1>4. Sole(t, <<f>> \o stack[t], plugins')
  BY <1>1, <1>2, <1>3, SolePush
<1>5. QED
  BY <1>1, <1>4, SoleChange DEF Push

LEMMA SoleAbove ==
  ASSUME TaskTypes, SoleInv, NEW t \in Threads, plugins' = plugins,
         NEW f \in FrameType, f.op \notin Managing, FrameFits(f, plugins), Push(t, f)
  PROVE  SoleInv'
<1>1. stack \in [Threads -> Seq(FrameType)] /\ stack[t] \in Seq(FrameType)
  BY DEF TaskTypes
<1>2. Sole(t, stack[t], plugins)
  BY DEF SoleInv
<1>3. Sole(t, <<f>> \o stack[t], plugins')
  BY <1>1, <1>2, SolePush
<1>4. QED
  BY <1>1, <1>3, SoleChange DEF Push

LEMMA SoleReturn ==
  ASSUME TaskTypes, SoleInv, NEW t \in Threads, plugins' = plugins, stack[t] # <<>>, Pop(t)
  PROVE  SoleInv'
<1>1. stack \in [Threads -> Seq(FrameType)] /\ stack[t] \in Seq(FrameType)
  BY DEF TaskTypes
<1>2. Sole(t, stack[t], plugins)
  BY DEF SoleInv
<1>3. Sole(t, Tail(stack[t]), plugins')
  BY <1>1, <1>2, SolePop
<1>4. QED
  BY <1>1, <1>3, SoleChange DEF Pop

LEMMA SoleTop ==
  ASSUME TaskTypes, SoleInv, NEW t \in Threads, plugins' = plugins, stack[t] # <<>>,
         NEW f \in FrameType, f.op \in Managing => Top(t).op \in Managing,
         FrameFits(f, plugins), Replace(t, f)
  PROVE  SoleInv'
<1>1. stack \in [Threads -> Seq(FrameType)] /\ stack[t] \in Seq(FrameType)
  BY DEF TaskTypes
<1>2. Sole(t, stack[t], plugins)
  BY DEF SoleInv
<1>3. Sole(t, <<f>> \o Tail(stack[t]), plugins')
  BY <1>1, <1>2, SoleReplace DEF Top
<1>4. QED
  BY <1>1, <1>3, SoleChange DEF Replace

\* A step inside an operation, to a place where the record is not used or is there.
LEMMA SoleGoto ==
  ASSUME TaskTypes, Fresh, SoleInv, NEW t \in Threads, plugins' = plugins, stack[t] # <<>>,
         NEW pc \in Pcs, Goto(t, pc), Top(t).op # "unloadAll",
         pc \in InUse => Top(t).inst \in plugins
  PROVE  SoleInv'
<1> DEFINE f == [Top(t) EXCEPT !.pc = pc]
<1>1. Top(t) \in FrameType
  BY TopFacts
<1>2. f \in FrameType /\ f.op = Top(t).op /\ f.inst = Top(t).inst /\ f.pc = pc
  BY <1>1 DEF FrameType, Pcs
<1>3. FrameFits(f, plugins)
  BY <1>2 DEF FrameFits
<1>4. Replace(t, f)
  BY DEF Goto
<1> HIDE DEF f
<1>5. QED
  BY <1>2, <1>3, <1>4, SoleTop

\* A record goes: below the Unload that erases it there are only UnloadAlls.
LEMMA SoleErase ==
  ASSUME TaskTypes, Fresh, SoleInv, NEW t \in Threads, UnloadErase(t)
  PROVE  SoleInv'
<1>1. stack[t] # <<>> /\ Top(t).op = "unload" /\ Pop(t)
  BY DEF UnloadErase, At
<1>2. stack \in [Threads -> Seq(FrameType)] /\ stack[t] \in Seq(FrameType)
  BY DEF TaskTypes
<1>3. Sole(t, stack[t], plugins)
  BY DEF SoleInv
<1>4. Sole(t, Tail(stack[t]), plugins')
  BY <1>1, <1>2, <1>3, SolePop DEF Top
<1>5. t \notin Workers
  <2>1. Top(t) = stack[t][1] /\ 1 \in DOMAIN stack[t]
    BY <1>1, TopFacts
  <2>2. QED
    BY <1>1, <1>3, <2>1 DEF Sole, Ordered, Managing
<1>6. stack'[t] = Tail(stack[t]) /\ \A s \in Threads \ {t} : stack'[s] = stack[s]
  BY <1>1, <1>2 DEF Pop
<1>7. ASSUME NEW s \in Threads PROVE Sole(s, stack'[s], plugins')
  <2>1. CASE s = t
    BY <1>4, <1>6, <2>1
  <2>2. CASE s # t
    <3>1. ~(s \in Clients /\ Clients = {s})
      BY <1>5, <2>2 DEF Threads
    <3>2. Ordered(s, stack'[s]) /\ Looping(stack'[s])
      BY <1>6, <2>2 DEF SoleInv, Sole
    <3>3. QED
      BY <3>1, <3>2 DEF Sole
  <2>3. QED
    BY <2>1, <2>2
<1>8. QED
  BY <1>7 DEF SoleInv

\* The calls of a client.
LEMMA SoleClientCall ==
  ASSUME TaskTypes, Fresh, CallTableConsistent, SoleInv, NEW t \in Clients, ClientCall(t)
  PROVE  SoleInv'
<1> USE DEF Ops, Pcs
<1>1. /\ \A i \in plugins : i \in Instances
      /\ plugins \in SUBSET Instances /\ {} \in SUBSET Instances
  BY DEF TaskTypes
<1>2. CASE LoadStore(t)
  <2>1. Frame("load", "find", next_id, {}) \in FrameType
    BY <1>2, FrameFacts DEF LoadStore
  <2>2. FrameFits(Frame("load", "find", next_id, {}), plugins')
    BY DEF FrameFits, Frame, InUse
  <2>3. QED
    BY <1>2, <2>1, <2>2, SoleStart DEF LoadStore
<1>3. CASE UnloadAll(t)
  <2>1. Frame("unloadAll", "loop", 0, plugins) \in FrameType
    BY <1>1, FrameFacts
  <2>2. FrameFits(Frame("unloadAll", "loop", 0, plugins), plugins')
    BY DEF FrameFits, Frame, InUse
  <2>3. QED
    BY <1>3, <2>1, <2>2, SoleStart DEF UnloadAll, tables
<1>4. CASE DrainCompletedAsync(t)
  BY <1>4, SoleStay DEF DrainCompletedAsync, tables
<1>5. ASSUME NEW i \in Instances, Unload(t, i) PROVE SoleInv'
  <2>1. Frame("unload", "callback", i, {}) \in FrameType
    BY FrameFacts
  <2>2. i \in plugins /\ plugins' = plugins
    BY <1>5 DEF Unload, UnloadPasses
  <2>3. FrameFits(Frame("unload", "callback", i, {}), plugins')
    BY <2>2 DEF FrameFits, Frame
  <2>4. QED
    BY <1>5, <2>1, <2>2, <2>3, SoleStart DEF Unload
<1>6. ASSUME NEW i \in Instances, Invoke(t, i) PROVE SoleInv'
  <2>1. Frame("invoke", "callback", i, {}) \in FrameType
    BY FrameFacts
  <2>2. i \in plugins /\ plugins' = plugins
    BY <1>6 DEF Invoke, tables
  <2>3. FrameFits(Frame("invoke", "callback", i, {}), plugins')
    BY <2>2 DEF FrameFits, Frame
  <2>4. QED
    BY <1>6, <2>1, <2>2, <2>3, SoleStart DEF Invoke
<1>7. ASSUME NEW n \in Names, Call(t, n) PROVE SoleInv'
  <2>1. call_overrides[n] \in Instances
    BY <1>1, <1>7 DEF Call, CallTableConsistent
  <2>2. Frame("invoke", "find", call_overrides[n], {}) \in FrameType
    BY <2>1, FrameFacts
  <2>3. FrameFits(Frame("invoke", "find", call_overrides[n], {}), plugins')
    BY DEF FrameFits, Frame, InUse
  <2>4. QED
    BY <1>7, <2>2, <2>3, SoleStart DEF Call, tables
<1>8. ASSUME NEW topic \in Topics, EmitEvent(t, topic) PROVE SoleInv'
  <2>1. Recipients(topic) \in SUBSET Instances
    BY <1>1 DEF Recipients
  <2>2. Frame("emit", "loop", 0, Recipients(topic)) \in FrameType
    BY <2>1, FrameFacts
  <2>3. FrameFits(Frame("emit", "loop", 0, Recipients(topic)), plugins')
    BY DEF FrameFits, Frame, InUse
  <2>4. QED
    BY <1>8, <2>2, <2>3, SoleStart DEF EmitEvent, tables
<1>9. QED
  BY <1>2, <1>3, <1>4, <1>5, <1>6, <1>7, <1>8 DEF ClientCall

\* The host's own code inside a call.
LEMMA SoleHostStep ==
  ASSUME TaskTypes, Fresh, SoleInv, NEW t \in Threads, HostStep(t)
  PROVE  SoleInv'
<1> USE DEF Ops, Pcs
<1>1. CASE LoadFind(t) \/ CallInvoke(t)
  <2>1. /\ stack[t] # <<>> /\ plugins' = plugins /\ Top(t).op # "unloadAll"
        /\ \/ Top(t).inst \in plugins /\ Goto(t, "callback")
           \/ Pop(t)
    BY <1>1 DEF LoadFind, CallInvoke, At, tables
  <2>2. QED
    BY <2>1, SoleGoto, SoleReturn DEF InUse
<1>2. CASE LoadFinish(t)
  BY <1>2, SoleReturn DEF LoadFinish, At
<1>3. CASE LoadUndo(t)
  <2>1. stack[t] # <<>> /\ plugins' = plugins /\ Top(t).op = "load"
    BY <1>3 DEF LoadUndo, At
  <2>2. CASE UnloadPasses(Top(t).inst)
    <3> DEFINE f == Frame("unload", "callback", Top(t).inst, {})
    <3>1. Top(t).inst \in plugins /\ Top(t).inst \in Instances
      BY <2>2 DEF UnloadPasses, TaskTypes
    <3>2. f \in FrameType
      BY <3>1, FrameFacts
    <3>3. FrameFits(f, plugins)
      BY <3>1 DEF FrameFits, Frame
    <3>4. Replace(t, f)
      BY <1>3, <2>2 DEF LoadUndo
    <3> HIDE DEF f
    <3>5. QED
      BY <2>1, <3>2, <3>3, <3>4, SoleTop DEF Managing
  <2>3. CASE ~UnloadPasses(Top(t).inst)
    BY <1>3, <2>1, <2>3, SoleReturn DEF LoadUndo
  <2>4. QED
    BY <2>2, <2>3
<1>4. CASE UnloadAllNext(t)
  <2>1. stack[t] # <<>> /\ plugins' = plugins /\ Top(t).op = "unloadAll"
        /\ Top(t).todo \in SUBSET Instances
    BY <1>4, TopFacts DEF UnloadAllNext, At
  <2>2. CASE Pop(t)
    BY <2>1, <2>2, SoleReturn
  <2>3. ASSUME NEW i \in Top(t).todo,
               LET rest == Frame("unloadAll", "loop", 0, Top(t).todo \ {i}) IN
               IF UnloadPasses(i)
               THEN stack' = [stack EXCEPT ![t] =
                                <<Frame("unload", "callback", i, {}), rest>> \o Tail(@)]
               ELSE Replace(t, rest)
        PROVE  SoleInv'
    <3> DEFINE f == Frame("unload", "callback", i, {})
               rest == Frame("unloadAll", "loop", 0, Top(t).todo \ {i})
    <3>1. f \in FrameType /\ rest \in FrameType
      BY <2>1, FrameFacts
    <3>2. FrameFits(rest, plugins) /\ rest.op = "unloadAll"
      BY DEF FrameFits, Frame, InUse
    <3>3. CASE UnloadPasses(i)
      <4>1. FrameFits(f, plugins)
        BY <3>3 DEF FrameFits, Frame, UnloadPasses
      <4>2. stack' = [stack EXCEPT ![t] = <<f, rest>> \o Tail(stack[t])]
        BY <2>3, <3>3
      <4> HIDE DEF f, rest
      <4>3. stack \in [Threads -> Seq(FrameType)] /\ stack[t] \in Seq(FrameType)
        BY DEF TaskTypes
      <4>4. Sole(t, stack[t], plugins)
        BY DEF SoleInv
      <4>5. Sole(t, <<f, rest>> \o Tail(stack[t]), plugins')
        BY <2>1, <3>1, <3>2, <4>1, <4>3, <4>4, SoleUnloadNext DEF Top
      <4>6. QED
        BY <2>1, <4>2, <4>3, <4>5, SoleChange
    <3>4. CASE ~UnloadPasses(i)
      <4>1. Replace(t, rest)
        BY <2>3, <3>4
      <4> HIDE DEF rest
      <4>2. QED
        BY <2>1, <3>1, <3>2, <4>1, SoleTop DEF Managing
    <3>5. QED
      BY <3>3, <3>4
  <2>4. Pop(t) \/ \E i \in Top(t).todo :
               LET rest == Frame("unloadAll", "loop", 0, Top(t).todo \ {i}) IN
               IF UnloadPasses(i)
               THEN stack' = [stack EXCEPT ![t] =
                                <<Frame("unload", "callback", i, {}), rest>> \o Tail(@)]
               ELSE Replace(t, rest)
    BY <1>4 DEF UnloadAllNext
  <2>5. QED
    BY <2>2, <2>3, <2>4
<1>5. CASE UnloadErase(t)
  BY <1>5, SoleErase
<1>6. CASE EmitNext(t)
  <2>1. stack[t] # <<>> /\ plugins' = plugins /\ Top(t).todo \in SUBSET Instances
    BY <1>6, TopFacts DEF EmitNext, At, tables
  <2>2. CASE Pop(t)
    BY <2>1, <2>2, SoleReturn
  <2>3. ASSUME NEW i \in Top(t).todo,
               \/ i \in plugins /\ Replace(t, Frame("emit", "callback", i, Top(t).todo \ {i}))
               \/ Replace(t, Frame("emit", "loop", 0, Top(t).todo \ {i}))
        PROVE  SoleInv'
    <3>1. i \in Instances /\ Top(t).todo \ {i} \in SUBSET Instances
      BY <2>1
    <3>2. ASSUME NEW f, Replace(t, f),
                 \/ i \in plugins /\ f = Frame("emit", "callback", i, Top(t).todo \ {i})
                 \/ f = Frame("emit", "loop", 0, Top(t).todo \ {i})
          PROVE  SoleInv'
      <4>1. f \in FrameType /\ f.op = "emit"
        BY <3>1, <3>2, FrameFacts
      <4>2. FrameFits(f, plugins)
        BY <3>2 DEF FrameFits, Frame, InUse
      <4>3. QED
        BY <2>1, <3>2, <4>1, <4>2, SoleTop DEF Managing
    <3>3. QED
      BY <2>3, <3>2
  <2>4. QED
    BY <1>6, <2>2, <2>3 DEF EmitNext
<1>7. QED
  BY <1>1, <1>2, <1>3, <1>4, <1>5, <1>6 DEF HostStep

LEMMA SoleStep == SoleInv /\ TaskInv /\ CallInv /\ [Next]_vars => SoleInv'
<1> SUFFICES ASSUME SoleInv, TaskInv, CallInv, [Next]_vars PROVE SoleInv'
  OBVIOUS
<1> USE DEF Ops, Pcs
<1>0. TaskTypes /\ Fresh /\ CallTableConsistent
  BY DEF TaskInv, CallInv
<1>1. CASE UNCHANGED vars
  BY <1>1, SoleStay DEF vars, tables
<1>2. ASSUME NEW t \in Clients, ClientCall(t) PROVE SoleInv'
  BY <1>0, <1>2, SoleClientCall
<1>3. ASSUME NEW t \in Threads, HostStep(t) PROVE SoleInv'
  BY <1>0, <1>3, SoleHostStep
<1>4. ASSUME NEW t \in Threads, CallbackReturn(t) PROVE SoleInv'
  <2>1. /\ stack[t] # <<>> /\ plugins' = plugins
        /\ Top(t).inst \in plugins /\ Top(t).todo \in SUBSET Instances
    BY <1>0, <1>4, TopFacts DEF CallbackReturn, InCallback, tables
  <2>2. CASE Top(t).op # "unloadAll" /\ \E pc \in Pcs : Goto(t, pc)
    BY <1>0, <2>1, <2>2, SoleGoto
  <2>3. CASE Pop(t)
    BY <1>0, <2>1, <2>3, SoleReturn
  <2>4. CASE Replace(t, Frame("emit", "loop", 0, Top(t).todo))
    <3> DEFINE f == Frame("emit", "loop", 0, Top(t).todo)
    <3>1. f \in FrameType /\ f.op = "emit"
      BY <2>1, FrameFacts
    <3>2. FrameFits(f, plugins)
      BY DEF FrameFits, Frame, InUse
    <3> HIDE DEF f
    <3>3. QED
      BY <1>0, <2>1, <2>4, <3>1, <3>2, SoleTop DEF Managing, f
  <2>5. QED
    BY <1>4, <2>2, <2>3, <2>4 DEF CallbackReturn
<1>5. ASSUME NEW t \in Threads, Fault(t) PROVE SoleInv'
  BY <1>5, SoleStay DEF Fault, tables
<1>6. ASSUME NEW t \in Threads, HostApi(t) PROVE SoleInv'
  <2>1. ASSUME NEW n \in Names, HostRegisterCall(t, n) \/ HostUnregisterCall(t, n)
        PROVE  SoleInv'
    BY <2>1, SoleStay DEF HostRegisterCall, HostUnregisterCall
  <2>2. ASSUME NEW p \in Topics \cup {AnyTopic},
               HostSubscribeEvent(t, p) \/ HostUnsubscribeEvent(t, p)
        PROVE  SoleInv'
    BY <2>2, SoleStay DEF HostSubscribeEvent, HostUnsubscribeEvent
  <2>3. ASSUME NEW topic \in Topics, HostEmitEvent(t, topic) PROVE SoleInv'
    <3> DEFINE f == Frame("emit", "loop", 0, Recipients(topic))
    <3>1. Recipients(topic) \in SUBSET Instances
      BY <1>0 DEF Recipients, TaskTypes
    <3>2. f \in FrameType /\ f.op = "emit"
      BY <3>1, FrameFacts
    <3>3. FrameFits(f, plugins)
      BY DEF FrameFits, Frame, InUse
    <3>4. Push(t, f) /\ plugins' = plugins
      BY <2>3 DEF HostEmitEvent, tables
    <3> HIDE DEF f
    <3>5. QED
      BY <1>0, <3>2, <3>3, <3>4, SoleAbove DEF Managing
  <2>4. CASE HostScheduleAsync(t)
    BY <2>4, SoleStay DEF HostScheduleAsync, tables
  <2>5. ASSUME NEW x \in Extensions, HostRegisterExtension(t, x) PROVE SoleInv'
    <3>1. /\ stack[t] # <<>> /\ Top(t).pc = "callback" /\ Top(t).inst \in plugins
          /\ Goto(t, "relock") /\ plugins' = plugins
      BY <2>5 DEF HostRegisterExtension, Calls, InCallback
    <3>2. Top(t) = stack[t][1] /\ 1 \in DOMAIN stack[t]
      BY <1>0, <3>1, TopFacts
    <3>3. Top(t).op # "unloadAll"
      BY <3>1, <3>2 DEF SoleInv, Sole, Looping
    <3>4. QED
      BY <1>0, <3>1, <3>3, SoleGoto
  <2>6. QED
    BY <1>6, <2>1, <2>2, <2>3, <2>4, <2>5 DEF HostApi
<1>7. ASSUME NEW w \in Workers, TaskStart(w) PROVE SoleInv'
  <2>1. PICK k \in queued :
          Push(w, Frame("async", IF task_owner[k] \in plugins THEN "callback" ELSE "complete",
                        task_owner[k], {}))
    BY <1>7 DEF TaskStart
  <2>2. PICK f : f = Frame("async", IF task_owner[k] \in plugins THEN "callback" ELSE "complete",
                           task_owner[k], {})
    OBVIOUS
  <2>3. task_owner[k] \in Instances \cup {0} /\ w \in Threads
    BY <1>0 DEF TaskTypes, Threads
  <2>4. f \in FrameType /\ f.op = "async"
    BY <2>2, <2>3, FrameFacts
  <2>5. FrameFits(f, plugins)
    BY <2>2 DEF FrameFits, Frame, InUse
  <2>6. plugins' = plugins /\ Push(w, f)
    BY <1>7, <2>1, <2>2 DEF TaskStart, tables
  <2>7. QED
    BY <1>0, <2>3, <2>4, <2>5, <2>6, SoleAbove DEF Managing
<1>8. ASSUME NEW w \in Workers, TaskComplete(w) PROVE SoleInv'
  BY <1>0, <1>8, SoleReturn DEF TaskComplete, At, tables, Threads
<1>9. QED
  BY <1>1, <1>2, <1>3, <1>4, <1>5, <1>6, <1>7, <1>8 DEF Next

\* If a single thread calls the host, none of its calls in progress ever points to
\* an erased record, whatever tasks the workers run: an Unload has nothing below
\* it on that thread but an UnloadAll, which points to none.
THEOREM PluginSoleClient == SafeSpec => []SoleClientSafe
<1>1. Init => SoleInv /\ TaskInv /\ CallInv
  BY SoleInit, TaskInvInit, CallInvInit
<1>2. SoleInv /\ TaskInv /\ CallInv /\ [Next]_vars => (SoleInv /\ TaskInv /\ CallInv)'
  BY SoleStep, TaskInvStep, CallInvStep
<1>3. SoleInv /\ TaskInv => SoleClientSafe
  <2> SUFFICES ASSUME SoleInv, Cardinality(Clients) = 1, NEW t \in Clients, NEW f \in Frames(t),
                      f.pc \in {"callback", "finish", "undo"}
               PROVE  f.inst \in plugins
    BY DEF SoleClientSafe
  <2>1. Clients = {t}
    BY ThreadsAssumption, FS_Singleton
  <2>2. PICK m \in DOMAIN stack[t] : f = stack[t][m]
    BY DEF Frames
  <2>3. FrameFits(f, plugins)
    BY <2>1, <2>2 DEF SoleInv, Sole, Threads
  <2>4. QED
    BY <2>3 DEF FrameFits, InUse
<1>4. QED
  BY <1>1, <1>2, <1>3, PTL DEF SafeSpec

-----------------------------------------------------------------------------
(* The mutex that is never released                                        *)

\* A thread that holds state.mutex across a call is about to lock it again.
SelfLocked == mutex # NoThread => stack[mutex] # <<>> /\ Top(mutex).pc = "relock"

\* While the mutex is held, nothing moves but callbacks that do not need it.
LEMMA HeldSteps ==
  ASSUME SelfLocked, mutex # NoThread, Next
  PROVE  \E t \in Threads : CallbackReturn(t) \/ Fault(t)
<1>1. ~CanLock
  BY DEF CanLock
<1>2. ASSUME NEW t \in Threads PROVE ~HostStep(t) /\ ~HostApi(t)
  BY <1>1 DEF HostStep, LoadFind, LoadFinish, LoadUndo, UnloadAllNext, UnloadErase, CallInvoke,
     EmitNext, HostApi, HostRegisterCall, HostUnregisterCall, HostSubscribeEvent,
     HostUnsubscribeEvent, HostEmitEvent, HostScheduleAsync, HostRegisterExtension, Calls
<1>3. ASSUME NEW t \in Clients PROVE ~ClientCall(t)
  BY <1>1 DEF ClientCall, LoadStore, UnloadAll, DrainCompletedAsync, Unload, Invoke, Call, EmitEvent
<1>4. ASSUME NEW w \in Workers PROVE ~TaskStart(w) /\ ~TaskComplete(w)
  BY <1>1 DEF TaskStart, TaskComplete
<1>5. QED
  BY <1>2, <1>3, <1>4 DEF Next

\* The holder's stack is not touched, nor is what the mutex protects.
HeldForEver ==
  mutex # NoThread =>
    /\ mutex' = mutex /\ stack'[mutex] = stack[mutex]
    /\ UNCHANGED <<tables, next_id, pending_async, tasks>>

LEMMA HeldStep ==
  ASSUME IndInv, SelfLocked, [Next]_vars
  PROVE  HeldForEver
<1> SUFFICES ASSUME mutex # NoThread
             PROVE  /\ mutex' = mutex /\ stack'[mutex] = stack[mutex]
                    /\ UNCHANGED <<tables, next_id, pending_async, tasks>>
  BY DEF HeldForEver
<1>1. stack \in [Threads -> Seq(FrameType)]
  BY DEF IndInv, TypeOK
<1>2. CASE UNCHANGED vars
  BY <1>2 DEF vars
<1>3. ASSUME NEW t \in Threads, Fault(t)
      PROVE  /\ mutex' = mutex /\ stack'[mutex] = stack[mutex]
             /\ UNCHANGED <<tables, next_id, pending_async, tasks>>
  BY <1>3 DEF Fault
<1>4. ASSUME NEW t \in Threads, CallbackReturn(t)
      PROVE  /\ mutex' = mutex /\ stack'[mutex] = stack[mutex]
             /\ UNCHANGED <<tables, next_id, pending_async, tasks>>
  <2>1. t # mutex
    BY <1>4 DEF CallbackReturn, InCallback, SelfLocked
  <2>2. \E x : stack' = [stack EXCEPT ![t] = x]
    BY <1>4 DEF CallbackReturn, Goto, Replace, Pop
  <2>3. mutex \in Threads
    BY DEF IndInv, TypeOK
  <2>4. stack'[mutex] = stack[mutex]
    BY <1>1, <2>1, <2>2, <2>3
  <2>5. QED
    BY <1>4, <2>4 DEF CallbackReturn
<1>5. QED
  BY <1>2, <1>3, <1>4, HeldSteps

LEMMA SelfLockedStep ==
  ASSUME IndInv, SelfLocked, [Next]_vars
  PROVE  SelfLocked'
<1>1. CASE mutex # NoThread
  <2>1. mutex' = mutex /\ stack'[mutex] = stack[mutex]
    BY <1>1, HeldStep DEF HeldForEver
  <2>2. QED
    BY <1>1, <2>1 DEF SelfLocked, Top
<1>2. CASE mutex' = mutex /\ mutex = NoThread
  BY <1>2 DEF SelfLocked
<1>3. ASSUME NEW t \in Threads, NEW x \in Extensions, HostRegisterExtension(t, x)
      PROVE  SelfLocked'
  <2>1. stack \in [Threads -> Seq(FrameType)] /\ stack[t] # <<>>
    BY <1>3 DEF IndInv, TypeOK, HostRegisterExtension, Calls, InCallback
  <2>2. Top(t) \in FrameType
    BY <2>1 DEF Top
  <2> DEFINE g == [Top(t) EXCEPT !.pc = "relock"]
  <2>3. g.pc = "relock"
    BY <2>2 DEF FrameType
  <2>4. mutex' = t /\ stack' = [stack EXCEPT ![t] = <<g>> \o Tail(@)]
    BY <1>3 DEF HostRegisterExtension, Goto, Replace
  <2> HIDE DEF g
  <2>5. stack'[t] = <<g>> \o Tail(stack[t])
    BY <2>1, <2>4
  <2>6. stack'[t] # <<>> /\ Head(stack'[t]) = g
    BY <2>1, <2>5
  <2>7. QED
    BY <2>3, <2>4, <2>6 DEF SelfLocked, Top
<1>4. ASSUME Next, mutex = NoThread,
             \A t \in Threads, x \in Extensions : ~HostRegisterExtension(t, x)
      PROVE  mutex' = mutex
  <2>1. ASSUME NEW t \in Threads, HostStep(t) PROVE mutex' = mutex
    BY <2>1 DEF HostStep, LoadFind, LoadFinish, LoadUndo, UnloadAllNext, UnloadErase, CallInvoke, EmitNext
  <2>2. ASSUME NEW t \in Threads, HostApi(t) PROVE mutex' = mutex
    BY <1>4, <2>2 DEF HostApi, HostRegisterCall, HostUnregisterCall, HostSubscribeEvent,
       HostUnsubscribeEvent, HostEmitEvent, HostScheduleAsync
  <2>3. ASSUME NEW t \in Clients, ClientCall(t) PROVE mutex' = mutex
    BY <2>3 DEF ClientCall, LoadStore, UnloadAll, DrainCompletedAsync, Unload, Invoke, Call, EmitEvent
  <2>4. ASSUME NEW w \in Workers, TaskStart(w) \/ TaskComplete(w) PROVE mutex' = mutex
    BY <2>4 DEF TaskStart, TaskComplete
  <2>5. ASSUME NEW t \in Threads, CallbackReturn(t) \/ Fault(t) PROVE mutex' = mutex
    BY <2>5 DEF CallbackReturn, Fault
  <2>6. QED
    BY <1>4, <2>1, <2>2, <2>3, <2>4, <2>5 DEF Next
<1>5. UNCHANGED vars => mutex' = mutex
  BY DEF vars
<1>6. QED
  BY <1>1, <1>2, <1>3, <1>4, <1>5

\* A plugin that registers an extension locks its thread on state.mutex for ever, and
\* with it the host: from then on no thread's Load, Unload, Invoke, Call, EmitEvent or
\* DrainCompletedAsync begins, no task starts or is recorded, and no table changes
\* (pxer_host.cc:1053, HostLog).
THEOREM ExtensionLocksHost == SafeSpec => [][HeldForEver]_vars
<1>1. Init => SelfLocked
  BY DEF Init, SelfLocked
<1>2. IndInv /\ SelfLocked /\ [Next]_vars => SelfLocked'
  BY SelfLockedStep
<1>3. IndInv /\ SelfLocked /\ [Next]_vars => [HeldForEver]_vars
  BY HeldStep
<1>4. QED
  BY <1>1, <1>2, <1>3, HostInvariance, PTL DEF SafeSpec
=============================================================================
