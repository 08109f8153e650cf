-------------------------- MODULE InterruptsProofs --------------------------
(***************************************************************************)
(* What module Interrupts promises of the signal mask and the timer, for   *)
(* any number of threads and any depth of nested calls.                    *)
(***************************************************************************)
EXTENDS Interrupts, Integers, SequenceTheorems, TLAPS

(* The calls one thread is in: only the outermost frame, which the code was *)
(* entered with the signal enabled, will enable it again, and a handler     *)
(* that was left behind has set the timer and called thread_yield.          *)
Nested(s) ==
  \A i \in 1 .. Len(s) :
    /\ i > 1 <=> s[i].kind = "call" /\ ~s[i].enabled
    /\ s[i].kind # "call" => s[i].enabled
    /\ i < Len(s) => s[i].kind \in {"call", "yielded"}

(* A context that is not running was left in a call, or has yet to run      *)
(* thread_stub or thread_exit; it was saved with the signal blocked.        *)
Suspended(t) ==
  /\ saved[t]
  /\ state[t] = "live" => frames[t] # <<>> /\ Last(frames[t]).kind = "call"

Contexts ==
  /\ Resumable(current)
  /\ \A t \in Thread : state[t] # "live" => frames[t] = <<>>
  /\ \A t \in Thread : t # current /\ Resumable(t) => Suspended(t)

(* Where the timer is, as far as the running thread tells.                  *)
TimerInv ==
  /\ registered <=> (armed \/ pending \/ InHandler("entered"))
  /\ armed \/ pending => ~InHandler("entered")
  /\ ~(armed /\ pending)

IInv ==
  /\ ITypeOK
  /\ \A t \in Thread : Nested(frames[t])
  /\ BlockedInPackageOnly
  /\ Contexts
  /\ TimerInv

-----------------------------------------------------------------------------
(* The frames of a thread that has entered one more call.                   *)
LEMMA PushCall ==
  ASSUME NEW s \in Seq(Frame), Nested(s), s # <<>> => Last(s).kind \in {"call", "yielded"},
         NEW e \in BOOLEAN, e <=> s = <<>>
  PROVE  /\ Append(s, Call(e)) \in Seq(Frame)
         /\ Append(s, Call(e)) # <<>>
         /\ Last(Append(s, Call(e))) = Call(e)
         /\ Nested(Append(s, Call(e)))
<1> DEFINE r == Append(s, Call(e))
<1>1. Call(e) \in Frame
  BY DEF Call, Frame
<1>2. /\ r \in Seq(Frame) /\ Len(r) = Len(s) + 1 /\ Len(s) \in Nat
      /\ \A i \in 1 .. Len(s) : r[i] = s[i]
      /\ r[Len(s) + 1] = Call(e)
  BY <1>1
<1>3. s = <<>> <=> Len(s) = 0
  BY EmptySeq
<1>4. r # <<>> /\ Last(r) = Call(e)
  BY <1>2, EmptySeq DEF Last
<1>5. Nested(r)
  <2> SUFFICES ASSUME NEW i \in 1 .. Len(s) + 1
               PROVE  /\ i > 1 <=> r[i].kind = "call" /\ ~r[i].enabled
                      /\ r[i].kind # "call" => r[i].enabled
                      /\ i < Len(r) => r[i].kind \in {"call", "yielded"}
    BY <1>2 DEF Nested
  <2>1. CASE i = Len(s) + 1
    <3>1. r[i].kind = "call" /\ r[i].enabled = e
      BY <1>2, <2>1 DEF Call
    <3>2. i > 1 <=> ~e
      BY <1>2, <1>3, <2>1
    <3>3. QED
      BY <3>1, <3>2, <2>1, <1>2
  <2>2. CASE i # Len(s) + 1
    <3>1. i \in 1 .. Len(s) /\ r[i] = s[i]
      BY <1>2, <2>2
    <3>2. s[i].kind \in {"call", "yielded"}
      <4>1. CASE i < Len(s)
        BY <3>1, <4>1 DEF Nested
      <4>2. CASE i = Len(s)
        BY <3>1, <4>2, <1>3, <1>2 DEF Last
      <4>3. QED
        BY <3>1, <4>1, <4>2, <1>2
    <3>3. QED
      BY <3>1, <3>2 DEF Nested
  <2>3. QED
    BY <2>1, <2>2
<1>6. QED
  BY <1>2, <1>4, <1>5

(* A prefix of a sequence, and what it is a prefix of.                      *)
LEMMA Prefix ==
  ASSUME NEW S, NEW s \in Seq(S), s # <<>>
  PROVE  \E k \in Nat :
           /\ Len(s) = k + 1 /\ k + 1 \in 1 .. Len(s) /\ Last(s) = s[k + 1] /\ Last(s) \in S
           /\ Front(s) \in Seq(S) /\ Len(Front(s)) = k
           /\ \A i \in 1 .. k : Front(s)[i] = s[i]
<1>1. \E k \in Nat : Len(s) = k + 1
  <2>1. \A n \in Nat \ {0} : n - 1 \in Nat /\ n = (n - 1) + 1
    OBVIOUS
  <2>2. QED
    BY <2>1, EmptySeq
<1>2. PICK k \in Nat : Len(s) = k + 1
  BY <1>1
<1>3. Len(s) - 1 = k /\ k + 1 \in 1 .. Len(s)
  BY <1>2
<1>4. \A i \in 1 .. k : s[i] \in S
  BY <1>2
<1>5. Front(s) = SubSeq(s, 1, k)
  BY <1>3 DEF Front
<1>6. /\ Front(s) \in Seq(S) /\ Len(Front(s)) = k
      /\ \A i \in 1 .. k : Front(s)[i] = s[i]
  BY <1>4, <1>5, SubSeqProperties
<1>7. Last(s) = s[k + 1] /\ Last(s) \in S
  BY <1>2, <1>3 DEF Last
<1>8. QED
  BY <1>2, <1>3, <1>6, <1>7

(* The innermost frame: a handler is the only one, and a call restores an   *)
(* enabled signal exactly when it is; and the frames it leaves behind.      *)
LEMMA PopFrame ==
  ASSUME NEW s \in Seq(Frame), Nested(s), s # <<>>
  PROVE  /\ Last(s) \in Frame
         /\ Last(s).kind # "call" => Front(s) = <<>> /\ Last(s).enabled
         /\ Last(s).kind = "call" => (Last(s).enabled <=> Front(s) = <<>>)
         /\ Front(s) \in Seq(Frame)
         /\ Nested(Front(s))
         /\ Front(s) # <<>> => Last(Front(s)).kind \in {"call", "yielded"}
<1>1. PICK k \in Nat :
        /\ Len(s) = k + 1 /\ k + 1 \in 1 .. Len(s) /\ Last(s) = s[k + 1] /\ Last(s) \in Frame
        /\ Front(s) \in Seq(Frame) /\ Len(Front(s)) = k
        /\ \A i \in 1 .. k : Front(s)[i] = s[i]
  BY Prefix
<1> DEFINE r == Front(s)
<1> HIDE DEF r
<1>2. Front(s) = r /\ r \in Seq(Frame) /\ Len(r) = k
  BY <1>1 DEF r
<1>3. r = <<>> <=> ~(k + 1 > 1)
  <2>1. CASE k = 0
    <3>1. r = <<>>
      BY <1>2, <2>1, EmptySeq
    <3>2. QED
      BY <3>1, <2>1
  <2>2. CASE k # 0
    <3>1. r # <<>>
      BY <1>2, <2>2, EmptySeq
    <3>2. QED
      BY <3>1, <2>2
  <2>3. QED
    BY <2>1, <2>2
<1>4. /\ k + 1 > 1 <=> Last(s).kind = "call" /\ ~Last(s).enabled
      /\ Last(s).kind # "call" => Last(s).enabled
  BY <1>1, Zenon DEF Nested
<1>5. /\ Last(s).kind # "call" => r = <<>> /\ Last(s).enabled
      /\ Last(s).kind = "call" => (Last(s).enabled <=> r = <<>>)
  BY <1>3, <1>4, Zenon
<1>6. \A i \in 1 .. Len(r) : i \in 1 .. Len(s) /\ i < Len(s) /\ r[i] = s[i]
  BY <1>1, <1>2
<1>7. Nested(r)
  BY <1>6 DEF Nested
<1>8. r # <<>> => Last(r).kind \in {"call", "yielded"}
  <2>1. HAVE r # <<>>
  <2>2. Len(r) \in 1 .. Len(r)
    BY <1>2, <2>1, EmptySeq
  <2>3. r[Len(r)] = s[Len(r)] /\ Len(r) \in 1 .. Len(s) /\ Len(r) < Len(s)
    BY <2>2, <1>6
  <2>4. QED
    BY <2>3 DEF Nested, Last
<1>9. QED
  BY <1>1, <1>2, <1>5, <1>7, <1>8

(* The handler, which is the only frame of its thread, goes on.             *)
LEMMA ReplaceHandler ==
  ASSUME NEW s \in Seq(Frame), Nested(s), s # <<>>, Last(s).kind # "call",
         NEW k \in {"entered", "rearmed", "yielded"}
  PROVE  LET r == [s EXCEPT ![Len(s)] = Handler(k)]
         IN r \in Seq(Frame) /\ r # <<>> /\ Nested(r) /\ Last(r) = Handler(k)
<1> DEFINE h == Handler(k)
           r == [s EXCEPT ![Len(s)] = h]
<1>1. h \in Frame /\ h.kind = k /\ h.enabled
  BY DEF Handler, Frame
<1>2. PICK n \in Nat : Len(s) = n + 1 /\ n + 1 \in 1 .. Len(s) /\ Last(s) = s[n + 1]
  BY Prefix
<1> HIDE DEF h
<1>3. /\ r \in Seq(Frame) /\ Len(r) = n + 1 /\ r[n + 1] = h
  BY <1>1, <1>2
<1>4. ~(n + 1 > 1)
  BY <1>2, Zenon DEF Nested
<1> HIDE DEF r
<1>5. n = 0 /\ r # <<>>
  BY <1>3, <1>4, EmptySeq
<1>6. Nested(r)
  <2>1. \A i \in 1 .. n + 1 : ~(i > 1) /\ ~(i < n + 1) /\ i = n + 1
    BY <1>5
  <2>2. h.kind # "call"
    BY <1>1
  <2>3. QED
    BY <1>1, <1>3, <2>1, <2>2, Zenon DEF Nested
<1>7. Last(r) = h
  BY <1>3 DEF Last
<1>8. QED
  BY <1>3, <1>5, <1>6, <1>7 DEF h, r

(* A thread in the handler, and in the thread_yield the handler calls.      *)
LEMMA HandlerFrames ==
  ASSUME NEW k \in {"entered", "rearmed", "yielded"}
  PROVE  /\ <<Handler(k)>> \in Seq(Frame) /\ <<Handler(k)>> # <<>>
         /\ Last(<<Handler(k)>>) = Handler(k) /\ Handler(k).kind = k
         /\ Nested(<<Handler(k)>>)
<1> DEFINE h == Handler(k)
<1>1. h \in Frame /\ h.kind = k /\ h.enabled
  BY DEF Handler, Frame
<1>2. /\ <<h>> \in Seq(Frame) /\ Len(<<h>>) = 1 /\ <<h>>[1] = h /\ <<h>> # <<>>
  BY <1>1
<1>3. Last(<<h>>) = h
  BY <1>2 DEF Last
<1>4. Nested(<<h>>)
  BY <1>1, <1>2 DEF Nested
<1>5. QED
  BY <1>1, <1>2, <1>3, <1>4

(* Depth counts frames.                                                     *)
LEMMA DepthOfFrames ==
  ASSUME NEW s \in Seq(Frame)
  PROVE  (Len(s) > 0 <=> s # <<>>) /\ (Len(s) = 0 <=> s = <<>>)
<1>1. CASE s = <<>>
  BY <1>1
<1>2. CASE s # <<>>
  <2>1. Len(s) \in Nat \ {0}
    BY <1>2, EmptySeq
  <2>2. Len(s) > 0
    BY <2>1
  <2>3. QED
    BY <1>2, <2>1, <2>2
<1>3. QED
  BY <1>1, <1>2

(* What the invariant says of the running thread, in terms of its frames.   *)
LEMMA Running ==
  ASSUME IInv
  PROVE  /\ current \in Thread /\ frames[current] \in Seq(Frame) /\ Nested(frames[current])
         /\ Depth > 0 <=> frames[current] # <<>>
         /\ Depth = 0 <=> frames[current] = <<>>
         /\ blocked <=> frames[current] # <<>> \/ state[current] \in {"new", "killed"}
         /\ frames[current] # <<>> => state[current] = "live" /\ blocked
         /\ state[current] = "live" => (blocked <=> frames[current] # <<>>)
<1>1. current \in Thread /\ frames[current] \in Seq(Frame) /\ Nested(frames[current])
  BY DEF IInv, ITypeOK
<1>2. (Depth > 0 <=> frames[current] # <<>>) /\ (Depth = 0 <=> frames[current] = <<>>)
  BY <1>1, DepthOfFrames DEF Depth
<1>3. blocked <=> frames[current] # <<>> \/ state[current] \in {"new", "killed"}
  BY <1>2, Zenon DEF IInv, BlockedInPackageOnly
<1>4. frames[current] # <<>> => state[current] = "live"
  BY <1>1 DEF IInv, Contexts
<1>5. QED
  BY <1>1, <1>2, <1>3, <1>4, Zenon

-----------------------------------------------------------------------------
(* A step in which only the running thread's frames, the mask and the timer *)
(* change.                                                                  *)
LEMMA FrameStep ==
  ASSUME IInv, state[current] = "live",
         NEW r \in Seq(Frame), Nested(r),
         frames' = [frames EXCEPT ![current] = r],
         blocked' \in BOOLEAN, blocked' <=> r # <<>>,
         UNCHANGED <<current, state, saved, registered, over>>,
         armed' \in BOOLEAN, pending' \in BOOLEAN,
         TimerInv'
  PROVE  IInv'
<1>1. frames' \in [Thread -> Seq(Frame)] /\ frames'[current'] = r
  BY DEF IInv, ITypeOK
<1>2. ITypeOK'
  BY <1>1 DEF IInv, ITypeOK
<1>3. (\A t \in Thread : Nested(frames[t]))'
  BY DEF IInv, ITypeOK, Nested
<1>4. Depth' > 0 <=> r # <<>>
  BY <1>1, DepthOfFrames DEF Depth
<1>5. BlockedInPackageOnly'
  BY <1>4 DEF BlockedInPackageOnly
<1>6. Contexts'
  BY DEF IInv, ITypeOK, Contexts, Suspended, Resumable
<1>7. QED
  BY <1>2, <1>3, <1>5, <1>6 DEF IInv

(* The pairs interrupts_off, interrupts_set.                                *)
LEMMA CallStep ==
  ASSUME IInv, InterruptsOff \/ InterruptsSet
  PROVE  IInv'
<1> DEFINE s == frames[current]
<1>1. /\ current \in Thread /\ s \in Seq(Frame) /\ Nested(s)
      /\ blocked \in BOOLEAN /\ armed \in BOOLEAN /\ pending \in BOOLEAN
      /\ Depth > 0 <=> s # <<>>
      /\ Depth = 0 <=> s = <<>>
      /\ s # <<>> => state[current] = "live" /\ blocked
      /\ state[current] = "live" => (blocked <=> s # <<>>)
  BY Running DEF IInv, ITypeOK
<1>2. TimerInv
  BY DEF IInv
<1>3. CASE InterruptsOff
  <2> DEFINE e == interrupts_enabled
             r == Append(s, Call(e))
  <2>1. state[current] = "live" /\ (s = <<>> \/ (s # <<>> /\ Last(s).kind = "call"))
    BY <1>1, <1>3 DEF InterruptsOff, InCall
  <2>2. e \in BOOLEAN /\ (e <=> s = <<>>)
    BY <1>1, <2>1, Zenon DEF interrupts_enabled
  <2>3. r \in Seq(Frame) /\ r # <<>> /\ Last(r) = Call(e) /\ Nested(r)
    <3> HIDE DEF e, s
    <3>1. QED
      BY <1>1, <2>1, <2>2, PushCall
  <2>4. /\ frames' = [frames EXCEPT ![current] = r]
        /\ blocked' = TRUE
        /\ UNCHANGED <<current, state, saved, registered, armed, pending, over>>
    BY <1>3 DEF InterruptsOff, Push
  <2>5. ~InHandler("entered") /\ ~InHandler("entered")'
    <3>1. frames'[current'] = r /\ Last(r).kind = "call"
      BY <1>1, <2>3, <2>4 DEF IInv, ITypeOK, Call
    <3>2. QED
      BY <1>1, <2>1, <3>1 DEF InHandler
  <2>6. TimerInv'
    BY <1>2, <2>4, <2>5 DEF TimerInv
  <2>7. QED
    BY <1>1, <2>1, <2>3, <2>4, <2>6, FrameStep
<1>4. CASE InterruptsSet
  <2> DEFINE r == Front(s)
             e == Last(s).enabled
  <2>1. s # <<>> /\ Last(s).kind = "call"
    BY <1>1, <1>4 DEF InterruptsSet, InCall
  <2>2. /\ Last(s) \in Frame /\ r \in Seq(Frame) /\ Nested(r)
        /\ e <=> r = <<>>
        /\ r # <<>> => Last(r).kind \in {"call", "yielded"}
    <3> HIDE DEF s
    <3>1. QED
      BY <1>1, <2>1, PopFrame
  <2>3. /\ frames' = [frames EXCEPT ![current] = r]
        /\ blocked' = ~e
        /\ UNCHANGED <<current, state, saved, registered, armed, pending, over>>
    BY <1>1, <1>4 DEF InterruptsSet, MaskAfter, IInv, ITypeOK
  <2>4. blocked' \in BOOLEAN /\ (blocked' <=> r # <<>>)
    BY <2>2, <2>3, Zenon
  <2>5. ~InHandler("entered") /\ ~InHandler("entered")'
    <3>1. frames'[current'] = r
      BY <1>1, <2>3 DEF IInv, ITypeOK
    <3>2. Depth' > 0 => r # <<>>
      BY <3>1, <2>2, DepthOfFrames DEF Depth
    <3>3. QED
      BY <2>1, <2>2, <3>1, <3>2 DEF InHandler
  <2>6. TimerInv'
    BY <1>2, <2>3, <2>5 DEF TimerInv
  <2>7. QED
    BY <1>1, <2>1, <2>2, <2>3, <2>4, <2>6, FrameStep
<1>5. QED
  BY <1>3, <1>4

(* The signal is delivered, and the handler comes to its thread_yield.      *)
LEMMA HandlerStep ==
  ASSUME IInv, Deliver \/ Rearm \/ HandlerYields \/ HandlerReturns
  PROVE  IInv'
<1> DEFINE s == frames[current]
<1>1. /\ current \in Thread /\ s \in Seq(Frame) /\ Nested(s)
      /\ blocked \in BOOLEAN /\ armed \in BOOLEAN /\ pending \in BOOLEAN
      /\ Depth > 0 <=> s # <<>>
      /\ Depth = 0 <=> s = <<>>
      /\ blocked <=> s # <<>> \/ state[current] \in {"new", "killed"}
      /\ s # <<>> => state[current] = "live" /\ blocked
  BY Running DEF IInv, ITypeOK
<1>2. TimerInv /\ Resumable(current)
  BY DEF IInv, Contexts
<1>3. \A r \in Seq(Frame) : frames' = [frames EXCEPT ![current] = r] /\ current' = current
        => \A k : InHandler(k)' <=> r # <<>> /\ Last(r).kind = k
  <2>1. TAKE r \in Seq(Frame)
  <2>2. HAVE frames' = [frames EXCEPT ![current] = r] /\ current' = current
  <2>3. frames'[current'] = r
    BY <1>1, <2>2 DEF IInv, ITypeOK
  <2>4. QED
    BY <2>3, DepthOfFrames DEF InHandler, Depth
<1>4. CASE Deliver
  <2> DEFINE r == <<Handler("entered")>>
  <2>1. s = <<>> /\ state[current] = "live"
    BY <1>1, <1>2, <1>4 DEF Deliver, Resumable
  <2>2. r \in Seq(Frame) /\ r # <<>> /\ Nested(r) /\ Last(r).kind = "entered"
    BY HandlerFrames
  <2>3. frames' = [frames EXCEPT ![current] = r]
    BY <2>1, <1>1, <1>4 DEF Deliver, Push
  <2>4. /\ blocked' = TRUE /\ pending' = FALSE
        /\ UNCHANGED <<current, state, saved, registered, armed, over>>
    BY <1>4 DEF Deliver
  <2>5. TimerInv'
    <3>1. InHandler("entered")'
      BY <1>3, <2>2, <2>3, <2>4
    <3>2. ~armed /\ registered
      BY <1>2, <1>4 DEF TimerInv, Deliver
    <3>3. QED
      BY <2>4, <3>1, <3>2 DEF TimerInv
  <2>6. QED
    BY <1>1, <2>1, <2>2, <2>3, <2>4, <2>5, FrameStep
<1>5. CASE Rearm
  <2> DEFINE r == [s EXCEPT ![Len(s)] = Handler("rearmed")]
  <2>1. s # <<>> /\ Last(s).kind = "entered" /\ InHandler("entered")
    BY <1>1, <1>5 DEF Rearm, InHandler
  <2>2. r \in Seq(Frame) /\ r # <<>> /\ Nested(r) /\ Last(r).kind = "rearmed"
    <3>1. Handler("rearmed").kind = "rearmed"
      BY DEF Handler
    <3> HIDE DEF s
    <3>2. r \in Seq(Frame) /\ r # <<>> /\ Nested(r) /\ Last(r) = Handler("rearmed")
      BY <1>1, <2>1, ReplaceHandler, Zenon
    <3>3. QED
      BY <3>1, <3>2, Zenon
  <2>3. /\ frames' = [frames EXCEPT ![current] = r]
        /\ armed' = TRUE
        /\ UNCHANGED <<current, state, saved, blocked, registered, pending, over>>
    BY <1>1, <1>5 DEF Rearm, ReplaceTop, Depth, IInv, ITypeOK
  <2> HIDE DEF r
  <2>4. TimerInv'
    <3>1. ~InHandler("entered")'
      <4>1. current' = current /\ Last(r).kind # "entered"
        BY <2>2, <2>3
      <4>2. QED
        BY <1>3, <2>2, <2>3, <4>1, Zenon
    <3>2. ~pending /\ registered
      BY <1>1, <1>2, <2>1 DEF TimerInv
    <3>3. QED
      BY <2>3, <3>1, <3>2 DEF TimerInv
  <2>5. QED
    BY <1>1, <2>1, <2>2, <2>3, <2>4, FrameStep
<1>6. CASE HandlerYields
  <2> DEFINE h == Handler("yielded")
             c == Call(FALSE)
             r == Append(<<h>>, c)
  <2>1. s # <<>> /\ Last(s).kind = "rearmed" /\ state[current] = "live" /\ blocked
    BY <1>1, <1>6 DEF HandlerYields, MayYield, InHandler
  <2>2. Front(s) = <<>>
    <3> HIDE DEF s
    <3>1. QED
      BY <1>1, <2>1, PopFrame
  <2>3. Append(Front(s), h) \o <<Call(interrupts_enabled)>> = r
    <3>1. interrupts_enabled = FALSE
      BY <2>1, <1>1 DEF interrupts_enabled
    <3>2. Append(Front(s), h) = <<h>>
      BY <2>2
    <3>3. h \in Frame /\ c \in Frame
      BY DEF Handler, Call, Frame
    <3> HIDE DEF h, c
    <3>4. <<h>> \o <<c>> = Append(<<h>>, c)
      BY <3>3
    <3>5. QED
      BY <3>1, <3>2, <3>4 DEF c
  <2>4. r \in Seq(Frame) /\ r # <<>> /\ Last(r) = c /\ Nested(r)
    <3>1. /\ <<h>> \in Seq(Frame) /\ <<h>> # <<>> /\ Nested(<<h>>)
          /\ Last(<<h>>).kind \in {"call", "yielded"}
      BY HandlerFrames
    <3> HIDE DEF h
    <3>2. FALSE <=> <<h>> = <<>>
      BY <3>1
    <3>3. QED
      BY <3>1, <3>2, PushCall
  <2>5. /\ frames' = [frames EXCEPT ![current] = r]
        /\ blocked' = TRUE
        /\ UNCHANGED <<current, state, saved, registered, armed, pending, over>>
    BY <1>1, <1>6, <2>3 DEF HandlerYields, IInv, ITypeOK
  <2>6. ~InHandler("entered") /\ ~InHandler("entered")'
    <3>1. Last(r).kind = "call"
      BY <2>4 DEF Call
    <3>2. QED
      BY <1>3, <2>1, <2>4, <2>5, <3>1 DEF InHandler
  <2>7. TimerInv'
    BY <1>2, <2>5, <2>6 DEF TimerInv
  <2>8. QED
    <3> HIDE DEF r
    <3>1. QED
      BY <1>1, <2>1, <2>4, <2>5, <2>7, FrameStep
<1>7. CASE HandlerReturns
  <2> DEFINE r == Front(s)
  <2>1. s # <<>> /\ Last(s).kind = "yielded" /\ state[current] = "live"
    BY <1>1, <1>7 DEF HandlerReturns, InHandler
  <2>2. r \in Seq(Frame) /\ Nested(r) /\ r = <<>> /\ Last(s).enabled
    <3> HIDE DEF s
    <3>1. QED
      BY <1>1, <2>1, PopFrame
  <2>3. /\ frames' = [frames EXCEPT ![current] = r]
        /\ blocked' = ~Last(s).enabled
        /\ UNCHANGED <<current, state, saved, registered, armed, pending, over>>
    BY <1>1, <1>7 DEF HandlerReturns, IInv, ITypeOK
  <2>4. blocked' \in BOOLEAN /\ (blocked' <=> r # <<>>)
    BY <2>2, <2>3, Zenon
  <2>5. ~InHandler("entered") /\ ~InHandler("entered")'
    BY <1>3, <2>1, <2>2, <2>3 DEF InHandler
  <2>6. TimerInv'
    BY <1>2, <2>3, <2>5 DEF TimerInv
  <2>7. QED
    BY <1>1, <2>1, <2>2, <2>3, <2>4, <2>6, FrameStep
<1>8. QED
  BY <1>4, <1>5, <1>6, <1>7

-----------------------------------------------------------------------------
(* The mask and the timer, once another thread's context is resumed: it was *)
(* saved with the signal blocked, and not in a handler yet to set the timer.*)
LEMMA Resume ==
  ASSUME IInv, NEW t \in Thread, t # current, Resumable(t),
         ~InHandler("entered"),
         current' = t, blocked' = saved[t], state'[t] = state[t],
         UNCHANGED <<frames, registered, armed, pending>>
  PROVE  blocked' \in BOOLEAN /\ BlockedInPackageOnly' /\ TimerInv'
<1>1. saved[t] \in BOOLEAN /\ frames[t] \in Seq(Frame)
  BY DEF IInv, ITypeOK
<1>2. /\ saved[t]
      /\ state[t] = "live" => frames[t] # <<>> /\ Last(frames[t]).kind = "call"
      /\ state[t] # "live" => frames[t] = <<>>
  BY DEF IInv, Contexts, Suspended
<1>3. Depth' > 0 <=> frames[t] # <<>>
  BY <1>1, DepthOfFrames DEF Depth
<1>4. BlockedInPackageOnly'
  BY <1>1, <1>2, <1>3 DEF BlockedInPackageOnly, Resumable
<1>5. ~InHandler("entered")'
  BY <1>2, <1>3 DEF InHandler
<1>6. TimerInv'
  BY <1>5 DEF IInv, TimerInv
<1>7. QED
  BY <1>1, <1>4, <1>6

(* A thread in a call: the signal is blocked, and it is not the handler's   *)
(* turn to set the timer.                                                   *)
LEMMA InCallBlocked ==
  ASSUME IInv, InCall
  PROVE  blocked = TRUE /\ state[current] = "live" /\ frames[current] # <<>> /\ ~InHandler("entered")
<1>1. frames[current] # <<>> /\ blocked /\ state[current] = "live"
  BY Running DEF InCall
<1>2. blocked \in BOOLEAN
  BY DEF IInv, ITypeOK
<1>3. QED
  BY <1>1, <1>2 DEF InCall, InHandler

(* register_interrupt_handler and the expiry of the timer.                  *)
LEMMA TimerStep ==
  ASSUME IInv, Register \/ TimerExpires
  PROVE  IInv'
<1>1. UNCHANGED <<current, state, frames, saved, blocked, over>>
  BY DEF Register, TimerExpires
<1>2. (InHandler("entered"))' <=> InHandler("entered")
  BY <1>1 DEF InHandler, Depth
<1>3. ITypeOK'
  BY <1>1 DEF IInv, ITypeOK, Register, TimerExpires
<1>4. /\ (\A t \in Thread : Nested(frames[t]))'
      /\ BlockedInPackageOnly'
      /\ Contexts'
  BY <1>1 DEF IInv, BlockedInPackageOnly, Depth, Contexts, Suspended, Resumable, Nested
<1>5. TimerInv'
  <2>1. TimerInv
    BY DEF IInv
  <2>2. CASE Register
    <3>1. ~InHandler("entered")
      BY <2>2, Running DEF Register, InHandler
    <3>2. QED
      BY <1>2, <2>1, <2>2, <3>1 DEF TimerInv, Register
  <2>3. CASE TimerExpires
    BY <1>2, <2>1, <2>3 DEF TimerInv, TimerExpires
  <2>4. QED
    BY <2>2, <2>3
<1>6. QED
  BY <1>3, <1>4, <1>5 DEF IInv

(* thread_stub: interrupts_on.                                              *)
LEMMA StubStep ==
  ASSUME IInv, Stub
  PROVE  IInv'
<1>1. /\ frames[current] = <<>> /\ current \in Thread
      /\ current' = current /\ frames' = frames /\ blocked' = FALSE
      /\ state' = [state EXCEPT ![current] = "live"]
      /\ UNCHANGED <<saved, registered, armed, pending, over>>
  BY DEF IInv, ITypeOK, Contexts, Stub, StubMask
<1>2. ~(Depth > 0) /\ ~(Depth' > 0)
  BY <1>1 DEF Depth
<1>3. ITypeOK'
  BY <1>1 DEF IInv, ITypeOK
<1>4. (\A t \in Thread : Nested(frames[t]))'
  BY <1>1 DEF IInv, Nested
<1>5. BlockedInPackageOnly'
  BY <1>1, <1>2 DEF BlockedInPackageOnly, IInv, ITypeOK
<1>6. Contexts'
  BY <1>1 DEF IInv, ITypeOK, Contexts, Suspended, Resumable
<1>7. TimerInv'
  BY <1>1, <1>2 DEF IInv, TimerInv, InHandler
<1>8. QED
  BY <1>3, <1>4, <1>5, <1>6, <1>7 DEF IInv

(* thread_create.                                                           *)
LEMMA CreateStep ==
  ASSUME IInv, NEW t \in Thread, CreateThread(t)
  PROVE  IInv'
<1>1. /\ t # current /\ frames[t] = <<>> /\ current \in Thread
      /\ state' = [state EXCEPT ![t] = "new"]
      /\ saved' = [saved EXCEPT ![t] = TRUE]
      /\ UNCHANGED <<current, frames, blocked, registered, armed, pending, over>>
  BY InCallBlocked DEF IInv, ITypeOK, Contexts, Resumable, CreateThread
<1>2. ITypeOK'
  BY <1>1 DEF IInv, ITypeOK
<1>3. (\A u \in Thread : Nested(frames[u]))'
  BY <1>1 DEF IInv, Nested
<1>4. BlockedInPackageOnly'
  BY <1>1 DEF BlockedInPackageOnly, Depth, IInv, ITypeOK
<1>5. Contexts'
  BY <1>1 DEF IInv, ITypeOK, Contexts, Suspended, Resumable
<1>6. TimerInv'
  BY <1>1 DEF IInv, TimerInv, InHandler, Depth
<1>7. QED
  BY <1>2, <1>3, <1>4, <1>5, <1>6 DEF IInv

(* thread_yield switches: the caller is left in its call, with the signal   *)
(* blocked.                                                                 *)
LEMMA SwitchStep ==
  ASSUME IInv, NEW t \in Thread, SwitchTo(t)
  PROVE  IInv'
<1>1. /\ t # current /\ Resumable(t) /\ current \in Thread
      /\ saved' = [saved EXCEPT ![current] = TRUE]
      /\ current' = t /\ blocked' = saved[t]
      /\ UNCHANGED <<state, frames, registered, armed, pending, over>>
      /\ frames[current] # <<>> /\ Last(frames[current]).kind = "call"
      /\ ~InHandler("entered")
  BY InCallBlocked DEF IInv, ITypeOK, SwitchTo, InCall
<1>2. blocked' \in BOOLEAN /\ BlockedInPackageOnly' /\ TimerInv'
  BY <1>1, Resume
<1>3. ITypeOK'
  BY <1>1, <1>2 DEF IInv, ITypeOK
<1>4. (\A u \in Thread : Nested(frames[u]))'
  BY <1>1 DEF IInv, Nested
<1>5. Contexts'
  BY <1>1 DEF IInv, ITypeOK, Contexts, Suspended, Resumable
<1>6. QED
  BY <1>2, <1>3, <1>4, <1>5 DEF IInv

(* thread_kill of another thread.                                           *)
LEMMA KillStep ==
  ASSUME IInv, NEW t \in Thread, Kill(t)
  PROVE  IInv'
<1>1. /\ t # current /\ Resumable(t) /\ current \in Thread
      /\ state' = [state EXCEPT ![t] = "killed"]
      /\ frames' = [frames EXCEPT ![t] = <<>>]
      /\ UNCHANGED <<current, saved, blocked, registered, armed, pending, over>>
  BY DEF IInv, ITypeOK, Kill
<1>2. frames'[current'] = frames[current] /\ Depth' = Depth
  BY <1>1 DEF IInv, ITypeOK, Depth
<1>3. ITypeOK'
  BY <1>1 DEF IInv, ITypeOK
<1>4. (\A u \in Thread : Nested(frames[u]))'
  <2>1. Nested(<<>>)
    BY DEF Nested
  <2>2. \A u \in Thread : frames'[u] = IF u = t THEN <<>> ELSE frames[u]
    BY <1>1 DEF IInv, ITypeOK
  <2>3. QED
    BY <2>1, <2>2 DEF IInv, Nested
<1>5. BlockedInPackageOnly'
  BY <1>1, <1>2 DEF BlockedInPackageOnly, IInv, ITypeOK
<1>6. Contexts'
  BY <1>1 DEF IInv, ITypeOK, Contexts, Suspended, Resumable
<1>7. TimerInv'
  BY <1>1, <1>2 DEF IInv, TimerInv, InHandler
<1>8. QED
  BY <1>3, <1>4, <1>5, <1>6, <1>7 DEF IInv

(* thread_exit switches to another thread for good, or ends the process.    *)
LEMMA ExitStep ==
  ASSUME IInv, ExitLast \/ \E t \in Thread : ExitTo(t)
  PROVE  IInv'
<1>1. CASE ExitLast
  <2>1. /\ UNCHANGED <<current, state, frames, saved, blocked, registered, armed, pending>>
        /\ over' = TRUE
    BY <1>1 DEF ExitLast
  <2>2. QED
    BY <2>1 DEF IInv, ITypeOK, Nested, BlockedInPackageOnly, Contexts, Suspended, Resumable,
                TimerInv, InHandler, Depth
<1>2. ASSUME NEW t \in Thread, ExitTo(t)
      PROVE  IInv'
  <2>1. /\ t # current /\ Resumable(t) /\ current \in Thread
        /\ frames[current] = <<>> /\ ~InHandler("entered")
        /\ state' = [state EXCEPT ![current] = "gone"]
        /\ current' = t /\ blocked' = saved[t]
        /\ UNCHANGED <<frames, saved, registered, armed, pending, over>>
    BY <1>2, Running DEF ExitTo, Exits, InHandler
  <2>2. state'[t] = state[t]
    BY <2>1 DEF IInv, ITypeOK
  <2>3. blocked' \in BOOLEAN /\ BlockedInPackageOnly' /\ TimerInv'
    BY <2>1, <2>2, Resume
  <2>4. ITypeOK'
    BY <2>1, <2>3 DEF IInv, ITypeOK
  <2>5. (\A u \in Thread : Nested(frames[u]))'
    BY <2>1 DEF IInv, Nested
  <2>6. Contexts'
    BY <2>1 DEF IInv, ITypeOK, Contexts, Suspended, Resumable
  <2>7. QED
    BY <2>3, <2>4, <2>5, <2>6 DEF IInv
<1>3. QED
  BY <1>1, <1>2

-----------------------------------------------------------------------------
(* The program starts with one thread, in client code, without a handler.   *)
LEMMA InitIInv == IInit => IInv
<1> SUFFICES ASSUME IInit PROVE IInv
  OBVIOUS
<1>1. \A t \in Thread : frames[t] = <<>>
  BY DEF IInit
<1>2. current \in Thread /\ Depth = 0 /\ state[current] = "live"
  BY <1>1 DEF IInit, Depth
<1>3. ITypeOK
  <2>1. <<>> \in Seq(Frame)
    OBVIOUS
  <2>2. frames \in [Thread -> Seq(Frame)]
    BY <2>1 DEF IInit
  <2>3. state \in [Thread -> {"none", "new", "live", "killed", "gone"}]
    BY DEF IInit
  <2>4. QED
    BY <2>2, <2>3 DEF IInit, ITypeOK
<1>4. \A t \in Thread : Nested(frames[t])
  BY <1>1 DEF Nested
<1>5. BlockedInPackageOnly
  BY <1>2 DEF IInit, BlockedInPackageOnly
<1>6. Contexts
  BY <1>1, <1>2 DEF IInit, Contexts, Resumable
<1>7. TimerInv
  BY <1>2 DEF IInit, TimerInv, InHandler
<1>8. QED
  BY <1>3, <1>4, <1>5, <1>6, <1>7 DEF IInv

LEMMA NextIInv == IInv /\ [INext]_ivars => IInv'
<1> SUFFICES ASSUME IInv, [INext]_ivars PROVE IInv'
  OBVIOUS
<1>1. CASE UNCHANGED ivars \/ Over
  <2>1. UNCHANGED ivars
    BY <1>1 DEF Over
  <2>2. QED
    BY <2>1 DEF ivars, IInv, ITypeOK, Nested, BlockedInPackageOnly, Contexts, Suspended,
                Resumable, TimerInv, InHandler, Depth
<1>2. CASE Register \/ TimerExpires
  BY <1>2, TimerStep
<1>3. CASE InterruptsOff \/ InterruptsSet
  BY <1>3, CallStep
<1>4. CASE Stub
  BY <1>4, StubStep
<1>5. CASE Deliver \/ Rearm \/ HandlerYields \/ HandlerReturns
  BY <1>5, HandlerStep
<1>6. CASE ExitLast \/ \E t \in Thread : ExitTo(t)
  BY <1>6, ExitStep
<1>7. ASSUME NEW t \in Thread, CreateThread(t) \/ SwitchTo(t) \/ Kill(t)
      PROVE  IInv'
  BY <1>7, CreateStep, SwitchStep, KillStep
<1>8. QED
  BY <1>1, <1>2, <1>3, <1>4, <1>5, <1>6, <1>7 DEF INext

LEMMA Invariance == ISpec => []IInv
<1>1. QED
  BY InitIInv, NextIInv, PTL DEF ISpec

(* The signal is blocked exactly inside the package, however deep its calls *)
(* nest and whichever threads they switch between, and the handler only     *)
(* ever interrupts client code.                                             *)
THEOREM MaskRight == ISpec => []InterruptsInClientOnly
<1>1. IInv => HandlerInClientOnly
  <2> SUFFICES ASSUME IInv, NEW t \in Thread, NEW i \in DOMAIN frames[t]
               PROVE  i > 1 <=> frames[t][i].kind = "call" /\ ~frames[t][i].enabled
    BY DEF HandlerInClientOnly
  <2>1. Nested(frames[t]) /\ i \in 1 .. Len(frames[t])
    BY DEF IInv, ITypeOK
  <2>2. QED
    BY <2>1, Zenon DEF Nested
<1>2. IInv => InterruptsInClientOnly
  BY <1>1 DEF IInv, InterruptsInClientOnly
<1>3. QED
  BY <1>2, Invariance, PTL

(* There is one timer: it runs, or its signal is on the way, or the handler *)
(* is about to start it again, and no switch leaves such a handler behind.  *)
THEOREM TimerKept == ISpec => []TimerInOnePlace
<1>1. IInv => TimerInOnePlace
  <2> SUFFICES ASSUME IInv PROVE TimerInOnePlace
    OBVIOUS
  <2>1. ASSUME NEW t \in Thread \ {current}, NEW i \in DOMAIN frames[t]
        PROVE  frames[t][i].kind \in {"call", "yielded"}
    <3>1. frames[t] \in Seq(Frame) /\ Nested(frames[t]) /\ i \in 1 .. Len(frames[t])
      BY DEF IInv, ITypeOK
    <3>2. frames[t] # <<>>
      BY <3>1, EmptySeq
    <3>3. Last(frames[t]).kind = "call"
      BY <3>2 DEF IInv, Contexts, Suspended, Resumable
    <3>4. CASE i < Len(frames[t])
      BY <3>1, <3>4 DEF Nested
    <3>5. CASE i = Len(frames[t])
      BY <3>3, <3>5 DEF Last
    <3>6. QED
      BY <3>1, <3>4, <3>5
  <2>2. TimerInv
    BY DEF IInv
  <2>3. QED
    BY <2>1, <2>2 DEF TimerInv, TimerInOnePlace
<1>2. QED
  BY <1>1, Invariance, PTL
=============================================================================
