---------------------------- MODULE MachineProofs ----------------------------
(***************************************************************************)
(* The machine keeps its calls in order: what Activation says of one call  *)
(* on its own holds of every call on the shared stack, for every program   *)
(* whose code is certified, every number of frames and every stack size.   *)
(***************************************************************************)
EXTENDS Activation, WellFoundedInduction, TLAPS

\* A leaf that names no backend is tried with each of these.
USE SMT, Zenon, SMTT(60), SMTT(90)

(* Numbers and frames.                                                      *)

\* A set of numbers with a member has a least one.
LEMMA LeastMember ==
  ASSUME NEW S \in SUBSET Nat, S # {}
  PROVE  \E n \in S : \A m \in S : n <= m
<1>1. \E n \in S : \A m \in S : ~ (<<m, n>> \in OpToRel(<, Nat))
  BY NatLessThanWellFounded, WFMin, Zenon
<1>2. PICK n \in S : \A m \in S : ~ (<<m, n>> \in OpToRel(<, Nat))
  BY <1>1, Zenon
<1>3. \A m \in S : ~ (m < n)
  BY <1>2, Zenon DEF OpToRel
<1> QED
  BY <1>3

\* A bounded set of numbers with a member has a greatest one, which Max picks.
LEMMA MaxMember ==
  ASSUME NEW n \in Nat, NEW S \in SUBSET (0 .. n - 1), S # {}
  PROVE  Max(S) \in S /\ \A i \in S : i <= Max(S)
<1> DEFINE B == {b \in Nat : \A i \in S : i <= b}
<1>1. n \in B
  OBVIOUS
<1>2. PICK b \in B : \A m \in B : b <= m
  <2> HIDE DEF B
  <2>1. B \in SUBSET Nat
    BY DEF B
  <2> QED BY <1>1, <2>1, LeastMember, Zenon
<1>3. b \in S
  <2>1. SUFFICES ASSUME b \notin S PROVE FALSE
    OBVIOUS
  <2>2. PICK i \in S : TRUE
    BY Zenon
  <2>3. b - 1 \in B
    BY <2>1, <2>2
  <2> QED BY <1>2, <2>3
<1>4. \A i \in S : b >= i
  BY <1>2
<1>5. Max(S) \in S /\ \A i \in S : Max(S) >= i
  BY <1>3, <1>4, Zenon DEF Max
<1> QED BY <1>5

Handler == [address : Nat, finally : Nat]

FrameType ==
  [fn : DOMAIN units, ip : Nat, slots : Slots, handlersCount : Int, pending : Int,
   handlers : [1 .. MaxHandlers -> Handler]]

\* What TypeOK says, by name.
LEMMA Types ==
  ASSUME TypeOK
  PROVE  /\ frames \in [Frames -> FrameType]
         /\ \A i \in Frames : frames[i].handlersCount <= MaxHandlers
         /\ frameCount \in 0 .. MaxFrames /\ frame \in Frames
         /\ DOMAIN stack = Slots /\ top \in -1 .. MaxStack
         /\ status = "running" => frameCount > 0
  BY DEF TypeOK, FrameType, Handler

\* The operands of an instruction.
LEMMA Operands ==
  ASSUME NEW u \in Images \cup Wild, NEW f \in DOMAIN u, NEW i \in DOMAIN u[f].code
  PROVE  /\ u[f].code[i].a \in Nat /\ u[f].code[i].b \in Nat
         /\ u[f].code[i].t \subseteq Nat
  BY ImagesAssumption, Zenon DEF WellFormed

\* The fields of a frame.
Holds(r, q, a, b, c, hs, p) ==
  /\ r.fn = q /\ r.ip = a /\ r.slots = b
  /\ r.handlersCount = c /\ r.handlers = hs /\ r.pending = p

\* The frames h are the frames g but for frame k.
Rest(g, h, k) ==
  h \in [Frames -> FrameType] /\ \A i \in Frames : i # k => h[i] = g[i]

\* An assignment to the field fn of a frame.
LEMMA PutFn ==
  ASSUME NEW g \in [Frames -> FrameType], NEW k \in Frames, NEW x \in DOMAIN units
  PROVE  LET h == [g EXCEPT ![k].fn = x]
         IN  /\ Rest(g, h, k)
             /\ Holds(h[k], x, g[k].ip, g[k].slots,
                      g[k].handlersCount, g[k].handlers, g[k].pending)
  BY Zenon DEF FrameType, Holds, Rest

\* An assignment to the field ip of a frame.
LEMMA PutIp ==
  ASSUME NEW g \in [Frames -> FrameType], NEW k \in Frames, NEW x \in Nat
  PROVE  LET h == [g EXCEPT ![k].ip = x]
         IN  /\ Rest(g, h, k)
             /\ Holds(h[k], g[k].fn, x, g[k].slots,
                      g[k].handlersCount, g[k].handlers, g[k].pending)
  BY DEF FrameType, Holds, Rest

\* An assignment to the field slots of a frame.
LEMMA PutSlots ==
  ASSUME NEW g \in [Frames -> FrameType], NEW k \in Frames, NEW x \in Slots
  PROVE  LET h == [g EXCEPT ![k].slots = x]
         IN  /\ Rest(g, h, k)
             /\ Holds(h[k], g[k].fn, g[k].ip, x,
                      g[k].handlersCount, g[k].handlers, g[k].pending)
  BY DEF FrameType, Holds, Rest

\* An assignment to the field handlersCount of a frame.
LEMMA PutCount ==
  ASSUME NEW g \in [Frames -> FrameType], NEW k \in Frames, NEW x \in Int
  PROVE  LET h == [g EXCEPT ![k].handlersCount = x]
         IN  /\ Rest(g, h, k)
             /\ Holds(h[k], g[k].fn, g[k].ip, g[k].slots,
                      x, g[k].handlers, g[k].pending)
  BY Zenon DEF FrameType, Holds, Rest

\* An assignment to the field handlers of a frame.
LEMMA PutHandlers ==
  ASSUME NEW g \in [Frames -> FrameType], NEW k \in Frames, NEW x \in [1 .. MaxHandlers -> Handler]
  PROVE  LET h == [g EXCEPT ![k].handlers = x]
         IN  /\ Rest(g, h, k)
             /\ Holds(h[k], g[k].fn, g[k].ip, g[k].slots,
                      g[k].handlersCount, x, g[k].pending)
  BY Zenon DEF FrameType, Holds, Rest

\* An assignment to the field pending of a frame.
LEMMA PutPending ==
  ASSUME NEW g \in [Frames -> FrameType], NEW k \in Frames, NEW x \in Int
  PROVE  LET h == [g EXCEPT ![k].pending = x]
         IN  /\ Rest(g, h, k)
             /\ Holds(h[k], g[k].fn, g[k].ip, g[k].slots,
                      g[k].handlersCount, g[k].handlers, x)
  BY Zenon DEF FrameType, Holds, Rest

\* A jump moves the ip of the frame that runs, and nothing else.
LEMMA JumpFacts ==
  ASSUME TypeOK, NEW a \in Nat
  PROVE  LET g == [frames EXCEPT ![frame].ip = a]
         IN  /\ Rest(frames, g, frame)
             /\ Holds(g[frame], Running.fn, a, Running.slots,
                      Running.handlersCount, Running.handlers, Running.pending)
  BY Zenon, Types, PutIp DEF Running

\* So does reading an instruction.
LEMMA ReadFacts ==
  ASSUME TypeOK
  PROVE  /\ Rest(frames, Read, frame)
         /\ Holds(Read[frame], Running.fn, Running.ip + 1, Running.slots,
                  Running.handlersCount, Running.handlers, Running.pending)
<1>1. frames \in [Frames -> FrameType] /\ frame \in Frames
  BY Types
<1>2. Read = [frames EXCEPT ![frame].ip = Running.ip + 1]
  BY <1>1 DEF Read, Running
<1>3. Running.ip + 1 \in Nat
  BY <1>1 DEF Running, FrameType
<1> QED BY <1>2, <1>3, JumpFacts, Zenon

\* OP_TRY adds a handler to the frame.
LEMMA TryFacts ==
  ASSUME TypeOK, NEW h \in Handler, Running.handlersCount \in 0 .. MaxHandlers - 1
  PROVE  LET g == [Read EXCEPT ![frame].handlersCount = @ + 1,
                               ![frame].handlers[Running.handlersCount + 1] = h]
         IN  /\ Rest(frames, g, frame)
             /\ Holds(g[frame], Running.fn, Running.ip + 1, Running.slots,
                      Running.handlersCount + 1,
                      [Running.handlers EXCEPT ![Running.handlersCount + 1] = h],
                      Running.pending)
<1> DEFINE n == Running.handlersCount + 1
           hs == [Running.handlers EXCEPT ![n] = h]
           g1 == [Read EXCEPT ![frame].handlersCount = n]
           g2 == [g1 EXCEPT ![frame].handlers = hs]
           g == [Read EXCEPT ![frame].handlersCount = @ + 1, ![frame].handlers[n] = h]
<1>1. /\ frame \in Frames /\ Read \in [Frames -> FrameType] /\ Rest(frames, Read, frame)
      /\ Holds(Read[frame], Running.fn, Running.ip + 1, Running.slots,
               Running.handlersCount, Running.handlers, Running.pending)
  BY Types, ReadFacts DEF Rest
<1>2. /\ n \in 1 .. MaxHandlers /\ n \in Int /\ MaxHandlers \in Nat
      /\ Running.handlers \in [1 .. MaxHandlers -> Handler]
  BY Types, BoundsAssumption DEF Running, FrameType
<1>3. hs \in [1 .. MaxHandlers -> Handler]
  BY <1>2
<1>4. g = g2
  BY Zenon, <1>1 DEF FrameType, Holds
<1> HIDE DEF n, hs
<1>5. /\ Rest(Read, g1, frame)
      /\ Holds(g1[frame], Running.fn, Running.ip + 1, Running.slots, n, Running.handlers,
               Running.pending)
  BY ZenonT(60), <1>1, <1>2, PutCount DEF Holds
<1> HIDE DEF g1
<1>6. /\ Rest(g1, g2, frame)
      /\ Holds(g2[frame], Running.fn, Running.ip + 1, Running.slots, n, hs, Running.pending)
  BY <1>1, <1>3, <1>5, PutHandlers DEF Holds, Rest
<1> HIDE DEF g, g2
<1>7. Rest(frames, g2, frame)
  BY <1>1, <1>5, <1>6 DEF Rest
<1> QED BY <1>4, <1>6, <1>7, Zenon DEF n, hs, g

\* OP_POP_TRY drops one.
LEMMA PopTryFacts ==
  ASSUME TypeOK
  PROVE  LET g == [Read EXCEPT ![frame].handlersCount = @ - 1]
         IN  /\ Rest(frames, g, frame)
             /\ Holds(g[frame], Running.fn, Running.ip + 1, Running.slots,
                      Running.handlersCount - 1, Running.handlers, Running.pending)
<1> DEFINE n == Running.handlersCount - 1
           g == [Read EXCEPT ![frame].handlersCount = @ - 1]
<1>1. /\ frame \in Frames /\ Read \in [Frames -> FrameType] /\ Rest(frames, Read, frame)
      /\ Holds(Read[frame], Running.fn, Running.ip + 1, Running.slots,
               Running.handlersCount, Running.handlers, Running.pending)
      /\ n \in Int
  BY Types, ReadFacts DEF Rest, Running, FrameType
<1>2. g = [Read EXCEPT ![frame].handlersCount = n]
  BY <1>1 DEF Holds
<1> HIDE DEF n, g
<1>3. /\ Rest(Read, g, frame)
      /\ Holds(g[frame], Running.fn, Running.ip + 1, Running.slots, n, Running.handlers,
               Running.pending)
  BY ZenonT(60), <1>1, <1>2, PutCount DEF Holds
<1>4. Rest(frames, g, frame)
  BY <1>1, <1>3 DEF Rest
<1> QED BY <1>3, <1>4, Zenon DEF n, g

\* OP_PUBLISH_TRY also leaves one exception less to publish.
LEMMA PublishTryFacts ==
  ASSUME TypeOK
  PROVE  LET g == [Read EXCEPT ![frame].handlersCount = @ - 1, ![frame].pending = @ - 1]
         IN  /\ Rest(frames, g, frame)
             /\ Holds(g[frame], Running.fn, Running.ip + 1, Running.slots,
                      Running.handlersCount - 1, Running.handlers, Running.pending - 1)
<1> DEFINE n == Running.pending - 1
           g1 == [Read EXCEPT ![frame].handlersCount = @ - 1]
           g == [Read EXCEPT ![frame].handlersCount = @ - 1, ![frame].pending = @ - 1]
<1>1. /\ frame \in Frames /\ Read \in [Frames -> FrameType] /\ n \in Int
      /\ Read[frame].pending = Running.pending
  BY Types, ReadFacts DEF Rest, Running, FrameType, Holds
<1>2. /\ Rest(frames, g1, frame)
      /\ Holds(g1[frame], Running.fn, Running.ip + 1, Running.slots,
               Running.handlersCount - 1, Running.handlers, Running.pending)
  BY PopTryFacts
<1>3. g = [g1 EXCEPT ![frame].pending = n]
  BY <1>1
<1> HIDE DEF n, g, g1
<1>4. /\ Rest(g1, g, frame)
      /\ Holds(g[frame], Running.fn, Running.ip + 1, Running.slots,
               Running.handlersCount - 1, Running.handlers, n)
  BY <1>1, <1>2, <1>3, PutPending DEF Holds, Rest
<1>5. Rest(frames, g, frame)
  BY <1>2, <1>4 DEF Rest
<1> QED BY <1>4, <1>5, Zenon DEF n, g

\* A call takes the frame c and leaves its handlers.
LEMMA CallFacts ==
  ASSUME TypeOK, NEW q \in DOMAIN units, NEW b \in Slots, NEW c \in Frames
  PROVE  LET g == [Read EXCEPT ![c].fn = q, ![c].ip = 1, ![c].slots = b, ![c].pending = 0]
         IN  /\ Rest(Read, g, c)
             /\ Holds(g[c], q, 1, b, Read[c].handlersCount, Read[c].handlers, 0)
<1> DEFINE g1 == [Read EXCEPT ![c].fn = q]
           g2 == [g1 EXCEPT ![c].ip = 1]
           g3 == [g2 EXCEPT ![c].slots = b]
           g4 == [g3 EXCEPT ![c].pending = 0]
           g == [Read EXCEPT ![c].fn = q, ![c].ip = 1, ![c].slots = b, ![c].pending = 0]
           H == Read[c].handlersCount
           hs == Read[c].handlers
<1>1. Read \in [Frames -> FrameType]
  BY Types, ReadFacts DEF Rest
<1>2. g = g4
  BY <1>1 DEF FrameType
<1>3. Rest(Read, g1, c) /\ Holds(g1[c], q, Read[c].ip, Read[c].slots, H, hs, Read[c].pending)
  BY Zenon, <1>1, PutFn
<1> HIDE DEF g1, g2, g3, g4, g, H, hs
<1>4. Rest(g1, g2, c) /\ Holds(g2[c], q, 1, Read[c].slots, H, hs, Read[c].pending)
  BY <1>3, PutIp DEF Holds, Rest, g2
<1>5. Rest(g2, g3, c) /\ Holds(g3[c], q, 1, b, H, hs, Read[c].pending)
  BY <1>4, PutSlots DEF Holds, Rest, g3
<1>6. Rest(g3, g4, c) /\ Holds(g4[c], q, 1, b, H, hs, 0)
  BY <1>5, PutPending DEF Holds, Rest, g4
<1>7. Rest(Read, g4, c)
  BY <1>3, <1>4, <1>5, <1>6 DEF Rest
<1> QED BY <1>2, <1>6, <1>7, Zenon DEF H, hs, g
------------------------------------------------------------------------------
(* Type correctness, of every well-formed code.                             *)

\* The exception has found the handler of frame k.
Lands(f, st, t, n, k) ==
  LET handler == f[k].handlers[f[k].handlersCount]
      catches == handler.address # 0
  IN  /\ frameCount' = k + 1
      /\ frame' = IF n = Refreshed THEN k ELSE n
      /\ frames' = [f EXCEPT ![k].ip = IF catches THEN handler.address ELSE handler.finally,
                             ![k].pending = IF catches THEN @ ELSE @ + 1]
      /\ stack' = IF catches THEN st ELSE [st EXCEPT ![t] = "true"]
      /\ top' = IF catches THEN t ELSE t + 1
      /\ UNCHANGED status

\* The exception has found no handler.
Uncaught ==
  status' = "error" /\ frameCount' = 0 /\ UNCHANGED <<frames, frame, stack, top>>

\* propagate_exception goes to the highest frame with a handler, if any.
LEMMA PropagateCases ==
  ASSUME frameCount \in Nat, NEW f, NEW st, NEW t, NEW n, Propagate(f, st, t, n)
  PROVE  \/ Uncaught /\ \A i \in 0 .. frameCount - 1 : ~ (f[i].handlersCount > 0)
         \/ \E k \in 0 .. frameCount - 1 :
              /\ f[k].handlersCount > 0
              /\ \A i \in 0 .. frameCount - 1 : i > k => ~ (f[i].handlersCount > 0)
              /\ Lands(f, st, t, n, k)
<1> DEFINE H == {i \in 0 .. frameCount - 1 : f[i].handlersCount > 0}
<1>1. CASE H = {}
  <2>1. Uncaught
    BY <1>1, Zenon DEF Propagate, Uncaught
  <2>2. \A i \in 0 .. frameCount - 1 : ~ (f[i].handlersCount > 0)
    BY <1>1, Zenon
  <2> QED BY <2>1, <2>2
<1>2. CASE H # {}
  <2>1. Lands(f, st, t, n, Max(H))
    BY <1>2, Zenon DEF Propagate, Lands
  <2>2. H \in SUBSET (0 .. frameCount - 1)
    OBVIOUS
  <2>3. Max(H) \in H /\ \A i \in H : i <= Max(H)
    <3> HIDE DEF H
    <3> QED BY <1>2, <2>2, MaxMember, Zenon
  <2> DEFINE k == Max(H)
  <2>4. k \in 0 .. frameCount - 1 /\ f[k].handlersCount > 0
    BY <2>3
  <2>5. \A i \in 0 .. frameCount - 1 : i > k => ~ (f[i].handlersCount > 0)
    <3>1. SUFFICES ASSUME NEW i \in 0 .. frameCount - 1, i > k, f[i].handlersCount > 0
                   PROVE  FALSE
      OBVIOUS
    <3>2. i \in H
      BY <3>1, Zenon
    <3>3. i <= k /\ k \in Int
      BY <2>3, <2>4, <3>2
    <3> HIDE DEF k
    <3> QED BY <3>1, <3>3
  <2> QED BY <2>1, <2>4, <2>5, Zenon
<1> QED BY <1>1, <1>2

\* The frames after an exception has landed in frame k.
LEMMA LandsFacts ==
  ASSUME NEW f \in [Frames -> FrameType], NEW st, NEW t, NEW n, NEW k \in Frames,
         f[k].handlersCount \in 1 .. MaxHandlers, Lands(f, st, t, n, k)
  PROVE  LET e == f[k].handlers[f[k].handlersCount]
         IN  /\ Rest(f, frames', k)
             /\ Holds(frames'[k], f[k].fn,
                      IF e.address # 0 THEN e.address ELSE e.finally, f[k].slots,
                      f[k].handlersCount, f[k].handlers,
                      IF e.address # 0 THEN f[k].pending ELSE f[k].pending + 1)
<1> DEFINE e == f[k].handlers[f[k].handlersCount]
           a == IF e.address # 0 THEN e.address ELSE e.finally
           p == IF e.address # 0 THEN f[k].pending ELSE f[k].pending + 1
           g1 == [f EXCEPT ![k].ip = a]
           g2 == [g1 EXCEPT ![k].pending = p]
<1>1. e \in Handler
  BY Zenon DEF FrameType
<1>2. a \in Nat /\ p \in Int
  BY <1>1 DEF Handler, FrameType
<1>3. frames' = [f EXCEPT ![k].ip = a, ![k].pending = IF e.address # 0 THEN @ ELSE @ + 1]
  BY Zenon DEF Lands
<1>4. frames' = g2
  BY <1>3 DEF FrameType
<1> HIDE DEF a, p
<1>5. /\ Rest(f, g1, k)
      /\ Holds(g1[k], f[k].fn, a, f[k].slots, f[k].handlersCount, f[k].handlers, f[k].pending)
  BY Zenon, <1>2, PutIp
<1> HIDE DEF g1
<1>6. /\ Rest(g1, g2, k)
      /\ Holds(g2[k], f[k].fn, a, f[k].slots, f[k].handlersCount, f[k].handlers, p)
  BY <1>2, <1>5, PutPending DEF Holds, Rest
<1> HIDE DEF g2
<1>7. Rest(f, g2, k)
  BY <1>5, <1>6 DEF Rest
<1> QED BY <1>4, <1>6, <1>7, Zenon DEF a, p

\* Wherever an exception goes, everything keeps its type.
LEMMA PropagateTypes ==
  ASSUME TypeOK, status = "running", UNCHANGED units,
         NEW f \in [Frames -> FrameType], \A i \in Frames : f[i].handlersCount <= MaxHandlers,
         NEW st, DOMAIN st = Slots, NEW t \in 0 .. MaxStack - 1,
         NEW n \in Frames \cup {Refreshed}, Propagate(f, st, t, n)
  PROVE  TypeOK'
<1>1. frameCount \in 0 .. MaxFrames /\ MaxFrames \in Nat
  BY Types, BoundsAssumption
<1>2. CASE Uncaught
  BY <1>1, <1>2 DEF Uncaught, TypeOK
<1>3. ASSUME NEW k \in 0 .. frameCount - 1, f[k].handlersCount > 0, Lands(f, st, t, n, k)
      PROVE  TypeOK'
  <2>1. k \in Frames /\ f[k].handlersCount \in 1 .. MaxHandlers
    BY <1>1, <1>3, BoundsAssumption DEF Frames, FrameType
  <2>2. /\ frames' \in [Frames -> FrameType]
        /\ \A i \in Frames : frames'[i].handlersCount <= MaxHandlers
    <3>1. /\ Rest(f, frames', k)
          /\ frames'[k].handlersCount = f[k].handlersCount
      BY <1>3, <2>1, LandsFacts DEF Holds
    <3> QED BY <2>1, <3>1 DEF Rest
  <2>3. /\ frameCount' \in 0 .. MaxFrames /\ frameCount' > 0 /\ frame' \in Frames
        /\ status' = "running"
    BY <1>1, <1>3, <2>1 DEF Lands
  <2>4. DOMAIN stack' = Slots /\ top' \in -1 .. MaxStack
    BY <1>3, BoundsAssumption DEF Lands
  <2> QED BY <2>2, <2>3, <2>4 DEF TypeOK, FrameType, Handler
<1> QED BY <1>1, <1>2, <1>3, PropagateCases

\* An instruction that leaves run running and its arrays whole.
LEMMA GoesOn ==
  ASSUME TypeOK, status = "running", UNCHANGED <<units, status>>,
         frames' \in [Frames -> FrameType],
         \A i \in Frames : frames'[i].handlersCount <= MaxHandlers,
         frameCount' \in 1 .. MaxFrames, frame' \in Frames,
         DOMAIN stack' = Slots, top' \in -1 .. MaxStack
  PROVE  TypeOK'
<1>1. /\ frameCount' \in 0 .. MaxFrames /\ (status' = "running" => frameCount' > 0)
      /\ status' \in {"running", "ok", "error", "undefined"}
  BY BoundsAssumption
<1>2. frames' \in [Frames -> FrameType'] /\ FrameType' = FrameType
  BY DEF FrameType
<1> QED BY <1>1, <1>2, Zenon DEF TypeOK, FrameType, Handler

\* The frames are as they were but for fields other than handlersCount.
LEMMA CountsKept ==
  ASSUME TypeOK, NEW g, NEW k \in Frames, Rest(frames, g, k), g[k].handlersCount <= MaxHandlers
  PROVE  \A i \in Frames : g[i].handlersCount <= MaxHandlers
  BY Types DEF Rest

\* The code of the program is well formed.
Loaded == units \in Images \cup Wild

\* Every instruction keeps every type.
LEMMA StepTypes ==
  ASSUME TypeOK, Loaded, Next
  PROVE  TypeOK' /\ UNCHANGED units
<1>1. /\ frames \in [Frames -> FrameType] /\ frameCount \in 0 .. MaxFrames /\ frame \in Frames
      /\ DOMAIN stack = Slots /\ top \in -1 .. MaxStack /\ MaxStack \in Nat /\ MaxFrames \in Nat
      /\ \A i \in Frames : frames[i].handlersCount <= MaxHandlers
      /\ Running \in FrameType /\ Running.handlersCount <= MaxHandlers
      /\ status = "running" => frameCount \in 1 .. MaxFrames
  BY Types, BoundsAssumption DEF Running
<1>2. /\ Read \in [Frames -> FrameType]
      /\ \A i \in Frames : Read[i].handlersCount <= MaxHandlers
  BY <1>1, ReadFacts, CountsKept DEF Rest, Holds
<1>3. status = "running" /\ Defined
      => Current.a \in Nat /\ Current.b \in Nat /\ Current.t \subseteq Nat
  BY <1>1, Operands DEF Loaded, Defined, Current, Code, FrameType
<1>4. ASSUME NEW a \in Nat, frames' = [frames EXCEPT ![frame].ip = a]
      PROVE  /\ frames' \in [Frames -> FrameType]
             /\ \A i \in Frames : frames'[i].handlersCount <= MaxHandlers
  BY <1>1, <1>4, JumpFacts, CountsKept DEF Rest, Holds
<1>5. ASSUME status = "running", Defined, NEW v, Push(v), Proceeds
      PROVE  TypeOK' /\ UNCHANGED units
  BY <1>1, <1>2, <1>5, GoesOn DEF Push, Proceeds, Defined
<1>6. CASE PushValue
  BY <1>5, <1>6 DEF PushValue, Executes
<1>7. CASE Condition
  BY <1>5, <1>7 DEF Condition, Executes
<1>8. CASE Pop
  BY <1>1, <1>2, <1>8, GoesOn DEF Pop, Executes, Defined, Peeks, Proceeds
<1>9. CASE GetLocal
  BY <1>5, <1>9 DEF GetLocal, Executes
<1>10. CASE SetLocal
  BY <1>1, <1>2, <1>10, GoesOn DEF SetLocal, Executes, Defined, Proceeds
<1>11. ASSUME status = "running", NEW a \in Nat, JumpTo(a)
       PROVE  TypeOK' /\ UNCHANGED units
  BY Zenon, <1>1, <1>4, <1>11, GoesOn DEF JumpTo
<1>12. CASE Jump
  BY <1>3, <1>11, <1>12 DEF Jump, Executes
<1>13. CASE JumpIfFalse
  BY <1>1, <1>3, <1>11, <1>13 DEF JumpIfFalse, Executes, FrameType
<1>14. CASE Switch
  <2>1. PICK a \in Current.t : frames' = [frames EXCEPT ![frame].ip = a]
    BY Zenon, <1>14 DEF Switch
  <2>2. a \in Nat /\ status = "running" /\ top > 0
    BY <1>3, <1>14 DEF Switch, Executes, Defined, Peeks
  <2>3. /\ frames' \in [Frames -> FrameType]
        /\ \A i \in Frames : frames'[i].handlersCount <= MaxHandlers
    BY Zenon, <1>4, <2>1, <2>2
  <2> QED BY <1>1, <1>14, <2>2, <2>3, GoesOn DEF Switch
<1>15. CASE Invoke
  BY <1>1, <1>2, <1>15, GoesOn DEF Invoke, Executes, Defined, Proceeds
<1>16. CASE CallFunction
  <2>1. Peek \in DOMAIN units /\ top - 1 \in Slots /\ frameCount \in Frames /\ status = "running"
    BY <1>1, <1>16 DEF CallFunction, Executes, Defined, Peeks, Slots, Frames
  <2>2. /\ Rest(Read, frames', frameCount)
        /\ frames'[frameCount].handlersCount = Read[frameCount].handlersCount
    <3> DEFINE q == Peek
               b == top - 1
               g == [Read EXCEPT ![frameCount].fn = q, ![frameCount].ip = 1,
                                 ![frameCount].slots = b, ![frameCount].pending = 0]
    <3>1. frames' = g
      BY <1>16 DEF CallFunction
    <3>2. q \in DOMAIN units /\ b \in Slots
      BY <2>1
    <3> HIDE DEF q, b
    <3>3. Rest(Read, g, frameCount) /\ g[frameCount].handlersCount = Read[frameCount].handlersCount
      <4>1. /\ Rest(Read, g, frameCount)
            /\ Holds(g[frameCount], q, 1, b, Read[frameCount].handlersCount,
                     Read[frameCount].handlers, 0)
        BY <2>1, <3>2, CallFacts, Zenon
      <4> QED BY <4>1, Zenon DEF Holds
    <3> QED BY <3>1, <3>3, Zenon
  <2>3. /\ frames' \in [Frames -> FrameType]
        /\ \A i \in Frames : frames'[i].handlersCount <= MaxHandlers
    BY <1>2, <2>1, <2>2 DEF Rest
  <2> QED BY <1>1, <1>16, <2>1, <2>3, GoesOn DEF CallFunction, Frames
<1>17. ASSUME status = "running", Defined, NEW n \in Frames \cup {Refreshed}, ThrowException(n),
              UNCHANGED units
       PROVE  TypeOK'
  <2>1. top + 1 \in 0 .. MaxStack - 1 /\ DOMAIN [stack EXCEPT ![top] = "exception"] = Slots
    BY <1>1, <1>17 DEF Defined
  <2> QED BY Zenon, <1>2, <1>17, <2>1, PropagateTypes DEF ThrowException
<1>18. CASE CallFails
  BY <1>17, <1>18 DEF CallFails, Executes
<1>19. CASE ReturnValue
  <2>1. status = "running" /\ frameCount \in 1 .. MaxFrames /\ UNCHANGED units
    BY <1>1, <1>19 DEF ReturnValue, Executes
  <2>2. CASE frameCount = 1
    BY <1>1, <1>19, <2>1, <2>2 DEF ReturnValue, TypeOK, Executes, Defined, Peeks
  <2>3. CASE frameCount # 1
    <3>1. /\ stack' = [stack EXCEPT ![Running.slots] = Peek] /\ top' = Running.slots + 1
          /\ frame' = frameCount - 2 /\ frames' = Read /\ status' = status
          /\ frameCount' = frameCount - 1
      BY <1>19, <2>3 DEF ReturnValue
    <3>2. Running.slots \in Slots
      BY <1>1 DEF FrameType
    <3> QED BY <1>1, <1>2, <2>1, <2>3, <3>1, <3>2, GoesOn DEF Frames, Slots
  <2> QED BY <2>1, <2>2, <2>3
<1>20. CASE DieInstr
  <2>1. status = "running" /\ top \in 0 .. MaxStack - 1
    BY <1>1, <1>20 DEF DieInstr, Executes, Defined, Peeks
  <2> QED BY <1>1, <1>2, <1>20, <2>1, PropagateTypes DEF DieInstr
<1>21. CASE FailInstr
  BY <1>1, <1>17, <1>21 DEF FailInstr, Executes
<1>22. CASE TryInstr
  <2> DEFINE h == [address |-> Current.a, finally |-> Current.b]
  <2>1. h \in Handler /\ status = "running" /\ Running.handlersCount \in 0 .. MaxHandlers - 1
    BY <1>1, <1>3, <1>22, BoundsAssumption
       DEF TryInstr, Executes, Defined, Handler, FrameType
  <2>2. /\ Rest(frames, frames', frame)
        /\ frames'[frame].handlersCount = Running.handlersCount + 1
    <3> DEFINE g == [Read EXCEPT ![frame].handlersCount = @ + 1,
                                 ![frame].handlers[Running.handlersCount + 1] = h]
    <3>1. frames' = g
      BY <1>22 DEF TryInstr
    <3> HIDE DEF h
    <3>2. Rest(frames, g, frame) /\ g[frame].handlersCount = Running.handlersCount + 1
      BY Zenon, <2>1, TryFacts DEF Holds
    <3> QED BY <3>1, <3>2, Zenon
  <2>3. \A i \in Frames : frames'[i].handlersCount <= MaxHandlers
    <3>1. Running.handlersCount + 1 <= MaxHandlers
      BY <2>1, BoundsAssumption
    <3> QED BY <1>1, <2>2, <3>1, CountsKept
  <2> QED BY <1>1, <1>22, <2>1, <2>2, <2>3, GoesOn DEF TryInstr, Rest
<1>23. CASE TooManyHandlers
  BY <1>1, <1>23 DEF TooManyHandlers, TypeOK
<1>24. CASE PopTry
  <2>1. /\ Rest(frames, frames', frame)
        /\ frames'[frame].handlersCount = Running.handlersCount - 1
    <3> DEFINE g == [Read EXCEPT ![frame].handlersCount = @ - 1]
    <3>1. frames' = g
      BY <1>24 DEF PopTry
    <3>2. Rest(frames, g, frame) /\ g[frame].handlersCount = Running.handlersCount - 1
      BY PopTryFacts DEF Holds
    <3> QED BY <3>1, <3>2, Zenon
  <2>2. \A i \in Frames : frames'[i].handlersCount <= MaxHandlers
    <3>1. Running.handlersCount - 1 <= MaxHandlers
      BY <1>1, BoundsAssumption DEF FrameType
    <3> QED BY <1>1, <2>1, <3>1, CountsKept
  <2> QED BY <1>1, <1>24, <2>1, <2>2, GoesOn DEF PopTry, Rest, Executes
<1>25. CASE PublishTry
  <2> DEFINE g == [Read EXCEPT ![frame].handlersCount = @ - 1, ![frame].pending = @ - 1]
  <2>1. status = "running" /\ top \in 0 .. MaxStack - 1
    BY <1>1, <1>25 DEF PublishTry, Executes, Defined, Peeks
  <2>2. /\ Rest(frames, g, frame)
        /\ g[frame].handlersCount = Running.handlersCount - 1
    BY PublishTryFacts DEF Holds
  <2>3. Propagate(g, stack, top, Refreshed) /\ UNCHANGED units
    BY <1>25 DEF PublishTry
  <2> HIDE DEF g
  <2>4. g \in [Frames -> FrameType] /\ \A i \in Frames : g[i].handlersCount <= MaxHandlers
    <3>1. Running.handlersCount - 1 <= MaxHandlers
      BY <1>1, BoundsAssumption DEF FrameType
    <3> QED BY <1>1, <2>2, <3>1 DEF Rest
  <2> QED BY <1>1, <2>1, <2>3, <2>4, PropagateTypes
<1>26. CASE Undefined
  BY <1>26 DEF Undefined, TypeOK
<1> QED
  BY <1>6, <1>7, <1>8, <1>9, <1>10, <1>12, <1>13, <1>14, <1>15, <1>16, <1>18, <1>19, <1>20,
     <1>21, <1>22, <1>23, <1>24, <1>25, <1>26 DEF Next

\* In every state of every program the frames, the stack and the handlers are
\* what they should be: run leaves its arrays only where Undefined says so,
\* and the handlers of a frame never outgrow their array
\* (push_exception_handler).
THEOREM TypeCorrect == Spec => []TypeOK
<1>1. Init => TypeOK /\ Loaded
  <2>1. SUFFICES ASSUME Init PROVE TypeOK /\ Loaded
    OBVIOUS
  <2>2. Loaded
    BY <2>1 DEF Init, Loaded
  <2>3. "script" \in DOMAIN units
    BY <2>2, ImagesAssumption, Zenon DEF Loaded, WellFormed
  <2>4. 0 \in Slots /\ 0 \in Frames /\ 1 \in 0 .. MaxFrames /\ 1 \in -1 .. MaxStack
    BY BoundsAssumption DEF Slots, Frames
  <2>5. FreshFrame \in FrameType /\ FreshFrame.handlersCount <= MaxHandlers
    BY <2>3, <2>4, BoundsAssumption DEF FreshFrame, FrameType, Handler, NoHandler
  <2>6. frames \in [Frames -> FrameType] /\ \A i \in Frames : frames[i].handlersCount <= MaxHandlers
    BY <2>1, <2>5 DEF Init
  <2>7. DOMAIN stack = Slots
    BY <2>1 DEF Init
  <2> QED BY <2>1, <2>2, <2>4, <2>6, <2>7 DEF Init, TypeOK, FrameType, Handler
<1>2. TypeOK /\ Loaded /\ [Next]_vars => (TypeOK /\ Loaded)'
  <2>1. CASE UNCHANGED vars
    BY <2>1 DEF vars, TypeOK, Loaded
  <2> QED BY <2>1, StepTypes DEF Loaded
<1> QED BY <1>1, <1>2, PTL DEF Spec
------------------------------------------------------------------------------
(* What a call sees of the machine.                                         *)

\* The fields of a view.
LEMMA ViewFields ==
  ASSUME NEW f, NEW ip, NEW h, NEW v, NEW hc, NEW hs, NEW p
  PROVE  LET s == View(f, ip, h, v, hc, hs, p)
         IN  /\ s.f = f /\ s.ip = ip /\ s.h = h /\ s.v = v
             /\ s.hc = hc /\ s.hs = hs /\ s.p = p
  BY DEF View

\* The fields of the view of a frame.
LEMMA SeenFields ==
  ASSUME NEW r, NEW st, NEW t
  PROVE  LET s == Seen(r, st, t)
         IN  /\ s.f = r.fn /\ s.ip = r.ip /\ s.h = t - r.slots
             /\ s.v = Values(st, r.slots, t) /\ s.hc = r.handlersCount
             /\ s.hs = Handlers(r.handlers, r.handlersCount) /\ s.p = r.pending
  BY ViewFields DEF Seen

\* A jump, as the call sees it.
LEMMA SeenGoes ==
  ASSUME NEW r, NEW r2, NEW st, NEW t, NEW a,
         Holds(r2, r.fn, a, r.slots, r.handlersCount, r.handlers, r.pending)
  PROVE  Seen(r2, st, t) = Goes(Seen(r, st, t), a)
  BY SeenFields DEF Goes, Seen, Holds

\* A push, as the call sees it.
LEMMA SeenPushes ==
  ASSUME NEW r, r.slots \in Nat, NEW st, NEW t \in Nat, r.slots <= t, t \in DOMAIN st, NEW x
  PROVE  Seen(r, [st EXCEPT ![t] = x], t + 1) = Pushes(Seen(r, st, t), x)
<1> DEFINE b == r.slots
           v == Values(st, b, t)
           w == [j \in 0 .. t - b |-> IF j = t - b THEN x ELSE v[j]]
<1>1. (t + 1) - b = (t - b) + 1
  OBVIOUS
<1>2. Values([st EXCEPT ![t] = x], b, t + 1) = w
  BY DEF Values
<1> HIDE DEF w
<1>3. Seen(r, [st EXCEPT ![t] = x], t + 1)
        = View(r.fn, r.ip, (t - b) + 1, w, r.handlersCount,
               Handlers(r.handlers, r.handlersCount), r.pending)
  BY <1>1, <1>2, Zenon DEF Seen
<1>4. Pushes(Seen(r, st, t), x)
        = View(r.fn, r.ip, (t - b) + 1, w, r.handlersCount,
               Handlers(r.handlers, r.handlersCount), r.pending)
  <2> DEFINE s == Seen(r, st, t)
  <2>1. s.h = t - b /\ s.v = v
    BY SeenFields, Zenon
  <2> HIDE DEF s
  <2>2. [j \in 0 .. s.h |-> IF j = s.h THEN x ELSE s.v[j]] = w
    BY <2>1 DEF w
  <2>3. s.f = r.fn /\ s.ip = r.ip /\ s.h = t - r.slots /\ s.v = Values(st, r.slots, t)
        /\ s.hc = r.handlersCount /\ s.hs = Handlers(r.handlers, r.handlersCount)
        /\ s.p = r.pending
    BY SeenFields DEF s
  <2> QED BY <2>2, <2>3, Zenon DEF Pushes, s
<1> QED BY <1>3, <1>4, Zenon

\* A pop, as the call sees it.
LEMMA SeenPops ==
  ASSUME NEW r, r.slots \in Nat, NEW st, NEW t \in Nat, r.slots < t
  PROVE  Seen(r, st, t - 1) = Pops(Seen(r, st, t))
<1> DEFINE b == r.slots
           v == Values(st, b, t)
           w == [j \in 0 .. t - b - 2 |-> v[j]]
<1>1. (t - 1) - b = (t - b) - 1
  OBVIOUS
<1>2. Values(st, b, t - 1) = w
  BY DEF Values
<1> HIDE DEF w
<1>3. Seen(r, st, t - 1)
        = View(r.fn, r.ip, (t - b) - 1, w, r.handlersCount,
               Handlers(r.handlers, r.handlersCount), r.pending)
  BY <1>1, <1>2, Zenon DEF Seen
<1>4. Pops(Seen(r, st, t))
        = View(r.fn, r.ip, (t - b) - 1, w, r.handlersCount,
               Handlers(r.handlers, r.handlersCount), r.pending)
  <2> DEFINE s == Seen(r, st, t)
  <2>1. s.h = t - b /\ s.v = v
    BY SeenFields, Zenon
  <2> HIDE DEF s
  <2>2. [j \in 0 .. s.h - 2 |-> s.v[j]] = w
    BY <2>1 DEF w
  <2>3. s.f = r.fn /\ s.ip = r.ip /\ s.h = t - r.slots /\ s.v = Values(st, r.slots, t)
        /\ s.hc = r.handlersCount /\ s.hs = Handlers(r.handlers, r.handlersCount)
        /\ s.p = r.pending
    BY SeenFields DEF s
  <2> QED BY <2>2, <2>3, Zenon DEF Pops, s
<1> QED BY <1>3, <1>4, Zenon

\* The stack st with x at m.
Put(st, m, x) == [st EXCEPT ![m] = x]

\* An assignment to a slot of the call, as the call sees it.
LEMMA SeenPuts ==
  ASSUME NEW r, r.slots \in Nat, NEW st, NEW t \in Nat, NEW i \in 0 .. t - r.slots - 1,
         NEW m \in DOMAIN st, m = r.slots + i, NEW x
  PROVE  Seen(r, Put(st, m, x), t) = Puts(Seen(r, st, t), i, x)
<1> DEFINE b == r.slots
           v == Values(st, b, t)
           w == [j \in 0 .. t - b - 1 |-> IF j = i THEN x ELSE v[j]]
<1>1. Values(Put(st, m, x), b, t) = w
  BY DEF Values, Put
<1> HIDE DEF w
<1>2. Seen(r, Put(st, m, x), t)
        = View(r.fn, r.ip, t - b, w, r.handlersCount,
               Handlers(r.handlers, r.handlersCount), r.pending)
  BY <1>1, Zenon DEF Seen
<1>3. Puts(Seen(r, st, t), i, x)
        = View(r.fn, r.ip, t - b, w, r.handlersCount,
               Handlers(r.handlers, r.handlersCount), r.pending)
  <2> DEFINE s == Seen(r, st, t)
  <2>1. s.h = t - b /\ s.v = v
    BY SeenFields, Zenon
  <2> HIDE DEF s
  <2>2. [j \in 0 .. s.h - 1 |-> IF j = i THEN x ELSE s.v[j]] = w
    BY <2>1 DEF w
  <2>3. s.f = r.fn /\ s.ip = r.ip /\ s.h = t - r.slots /\ s.v = Values(st, r.slots, t)
        /\ s.hc = r.handlersCount /\ s.hs = Handlers(r.handlers, r.handlersCount)
        /\ s.p = r.pending
    BY SeenFields DEF s
  <2> QED BY <2>2, <2>3, Zenon DEF Puts, s
<1> QED BY <1>2, <1>3, Zenon

\* A new handler, as the call sees it.
LEMMA SeenTries ==
  ASSUME NEW r, r.handlersCount \in 0 .. MaxHandlers - 1, NEW h, NEW r2, NEW st, NEW t,
         r.handlers \in [1 .. MaxHandlers -> Handler],
         Holds(r2, r.fn, r.ip, r.slots, r.handlersCount + 1,
               [r.handlers EXCEPT ![r.handlersCount + 1] = h], r.pending)
  PROVE  Seen(r2, st, t) = PushesTry(Seen(r, st, t), h)
<1> DEFINE c == r.handlersCount
           hs == [r.handlers EXCEPT ![c + 1] = h]
           w == [k \in 1 .. c + 1 |-> IF k = c + 1 THEN h ELSE Handlers(r.handlers, c)[k]]
<1>1. Handlers(hs, c + 1) = w
  BY BoundsAssumption DEF Handlers
<1> HIDE DEF w
<1>2. Seen(r2, st, t)
        = View(r.fn, r.ip, t - r.slots, Values(st, r.slots, t), c + 1, w, r.pending)
  BY <1>1, Zenon DEF Seen, Holds
<1>3. PushesTry(Seen(r, st, t), h)
        = View(r.fn, r.ip, t - r.slots, Values(st, r.slots, t), c + 1, w, r.pending)
  <2> DEFINE s == Seen(r, st, t)
  <2>1. s.hc = c /\ s.hs = Handlers(r.handlers, c)
    BY SeenFields, Zenon
  <2> HIDE DEF s
  <2>2. [k \in 1 .. s.hc + 1 |-> IF k = s.hc + 1 THEN h ELSE s.hs[k]] = w
    BY <2>1 DEF w
  <2>3. s.f = r.fn /\ s.ip = r.ip /\ s.h = t - r.slots /\ s.v = Values(st, r.slots, t)
        /\ s.hc = r.handlersCount /\ s.hs = Handlers(r.handlers, r.handlersCount)
        /\ s.p = r.pending
    BY SeenFields DEF s
  <2> QED BY <2>2, <2>3, Zenon DEF PushesTry, s
<1> QED BY <1>2, <1>3, Zenon

\* A handler less, as the call sees it.
LEMMA SeenPopsTry ==
  ASSUME NEW r, r.handlersCount \in Nat \ {0}, NEW r2, NEW st, NEW t,
         Holds(r2, r.fn, r.ip, r.slots, r.handlersCount - 1, r.handlers, r.pending)
  PROVE  Seen(r2, st, t) = PopsTry(Seen(r, st, t))
<1> DEFINE c == r.handlersCount
           w == [k \in 1 .. c - 1 |-> Handlers(r.handlers, c)[k]]
<1>1. Handlers(r.handlers, c - 1) = w
  BY DEF Handlers
<1> HIDE DEF w
<1>2. Seen(r2, st, t)
        = View(r.fn, r.ip, t - r.slots, Values(st, r.slots, t), c - 1, w, r.pending)
  BY <1>1, Zenon DEF Seen, Holds
<1>3. PopsTry(Seen(r, st, t))
        = View(r.fn, r.ip, t - r.slots, Values(st, r.slots, t), c - 1, w, r.pending)
  <2> DEFINE s == Seen(r, st, t)
  <2>1. s.hc = c /\ s.hs = Handlers(r.handlers, c)
    BY SeenFields, Zenon
  <2> HIDE DEF s
  <2>2. [k \in 1 .. s.hc - 1 |-> s.hs[k]] = w
    BY <2>1 DEF w
  <2>3. s.f = r.fn /\ s.ip = r.ip /\ s.h = t - r.slots /\ s.v = Values(st, r.slots, t)
        /\ s.hc = r.handlersCount /\ s.hs = Handlers(r.handlers, r.handlersCount)
        /\ s.p = r.pending
    BY SeenFields DEF s
  <2> QED BY <2>2, <2>3, Zenon DEF PopsTry, s
<1> QED BY <1>2, <1>3, Zenon

\* One more, or one less, exception to publish, as the call sees it.
LEMMA SeenOwes ==
  ASSUME NEW r, NEW n, NEW r2, NEW st, NEW t,
         Holds(r2, r.fn, r.ip, r.slots, r.handlersCount, r.handlers, r.pending + n)
  PROVE  Seen(r2, st, t) = Owes(Seen(r, st, t), n)
  BY SeenFields DEF Owes, Seen, Holds

\* What the instructions do to a call, one by one.
LEMMA ProceedIs ==
  ASSUME NEW c, NEW s, NEW A
  PROVE  LET n == Goes(s, s.ip + 1)
         IN  /\ c.op \in {"PUSH", "GET_GLOBAL", "CLOSURE"} =>
                  Pushes(n, c.n) \in Proceed(c, s, A)
             /\ c.op = "CONDITION" =>
                  \A x \in {"true", "false"} : Pushes(n, x) \in Proceed(c, s, A)
             /\ c.op = "POP" => Pops(n) \in Proceed(c, s, A)
             /\ c.op = "GET_LOCAL" => Pushes(n, s.v[c.a]) \in Proceed(c, s, A)
             /\ c.op = "SET_LOCAL" => Puts(n, c.a, TopOf(s)) \in Proceed(c, s, A)
             /\ c.op \in {"JUMP", "LOOP"} => Goes(s, c.a) \in Proceed(c, s, A)
             /\ c.op = "JUMP_IF_FALSE" =>
                  (IF IsFalse(TopOf(s)) THEN Goes(s, c.a) ELSE n) \in Proceed(c, s, A)
             /\ c.op = "SWITCH" => \A a \in c.t : Pops(Goes(s, a)) \in Proceed(c, s, A)
             /\ c.op = "INVOKE" =>
                  \A x \in {c.n} \cup (IF c.a = 1 THEN {"false"} ELSE {}) :
                     Pops(Puts(n, s.h - 2, x)) \in Proceed(c, s, A)
             /\ c.op = "CALL" => \A x \in A : Puts(n, s.h - 1, x) \in Proceed(c, s, A)
             /\ c.op = "TRY" =>
                  PushesTry(n, [address |-> c.a, finally |-> c.b]) \in Proceed(c, s, A)
             /\ c.op = "POP_TRY" => PopsTry(n) \in Proceed(c, s, A)
  BY DEF Proceed

\* What a throwing instruction leaves of a call.
LEMMA ThrownIs ==
  ASSUME NEW c, NEW s
  PROVE  LET n == Goes(s, s.ip + 1)
         IN  /\ c.op \in {"CALL", "FAIL"} => Thrown(c, s) = Pushes(n, "exception")
             /\ c.op = "DIE" => Thrown(c, s) = n
             /\ c.op = "PUBLISH_TRY" => Thrown(c, s) = Owes(PopsTry(n), -1)
  BY DEF Thrown

\* A call that waits is not disturbed by what happens above it.
LEMMA CallingKept ==
  ASSUME NEW r, r.slots \in Nat, NEW d, d.slots \in Nat, r.slots <= d.slots,
         NEW d2, d2.slots = d.slots, d2.fn = d.fn,
         NEW st, NEW st2, \A q \in Nat : q < d.slots => st2[q] = st[q]
  PROVE  Calling(r, d2, st2) = Calling(r, d, st)
<1> DEFINE v == [j \in 0 .. d.slots - r.slots |->
                   IF j = d.slots - r.slots THEN d.fn ELSE st[r.slots + j]]
           v2 == [j \in 0 .. d2.slots - r.slots |->
                   IF j = d2.slots - r.slots THEN d2.fn ELSE st2[r.slots + j]]
<1>1. v2 = v
  <2>1. ASSUME NEW j \in 0 .. d.slots - r.slots, j # d.slots - r.slots
        PROVE  st2[r.slots + j] = st[r.slots + j]
    BY <2>1
  <2> QED BY <2>1
<1> HIDE DEF v, v2
<1> QED BY <1>1, Zenon DEF Calling, v, v2

\* The numbers of a machine in order.
LEMMA Numbers ==
  ASSUME TypeOK, status = "running", NEW d, Ordered(d)
  PROVE  /\ frameCount \in 1 .. MaxFrames /\ frame = frameCount - 1 /\ frame \in Frames
         /\ Running = frames[frame] /\ Running \in FrameType
         /\ Running.slots \in Nat /\ Running.ip \in Nat /\ top \in Nat
         /\ Running.slots <= top /\ Running.handlersCount \in 0 .. MaxHandlers
         /\ Running.handlers \in [1 .. MaxHandlers -> Handler] /\ Running.pending \in Int
         /\ Running.fn \in DOMAIN units
<1>1. /\ frameCount \in 1 .. MaxFrames /\ frame = frameCount - 1 /\ frame \in Frames
      /\ frames \in [Frames -> FrameType] /\ top \in Int
  BY Types, BoundsAssumption DEF Ordered, Counted
<1>2. Running \in FrameType /\ Running.handlersCount >= 0 /\ Running.handlersCount <= MaxHandlers
      /\ Running.slots <= top
  BY <1>1, Types DEF Running, Ordered, Counted
<1>3. /\ Running.slots \in Nat /\ Running.ip \in Nat /\ Running.handlersCount \in Int
      /\ Running.handlers \in [1 .. MaxHandlers -> Handler] /\ Running.pending \in Int
      /\ Running.fn \in DOMAIN units
  BY <1>2 DEF FrameType, Slots
<1> QED BY <1>1, <1>2, <1>3, BoundsAssumption DEF Running

\* An instruction after which the call of frame k runs, and those above it have
\* ended, keeps the machine in order if it leads to a view of the certificate.
LEMMA Unwinds ==
  ASSUME TypeOK, status = "running", NEW d, Ordered(d), NEW k \in 0 .. frame,
         UNCHANGED units, frame' = k, frameCount' = k + 1,
         \A i \in Frames : i < k => frames'[i] = frames[i],
         \A i \in Frames : i > k => frames'[i].handlersCount = 0,
         frames'[k].fn = frames[k].fn, frames'[k].slots = frames[k].slots,
         frames'[k].handlersCount >= 0,
         \A q \in Nat : q < frames[k].slots => stack'[q] = stack[q],
         frames[k].slots <= top', Seen(frames'[k], stack', top') \in d.views
  PROVE  Ordered(d)'
<1>1. /\ frameCount \in 1 .. MaxFrames /\ frame = frameCount - 1 /\ frame \in Frames
      /\ frames \in [Frames -> FrameType] /\ MaxFrames \in Nat
      /\ k \in Frames /\ k \in Nat
      /\ \A i \in 0 .. k : i \in Frames /\ i \in 0 .. frameCount - 1
  BY Numbers, Types, BoundsAssumption DEF Frames
<1>2. Counted'
  <2>1. ASSUME NEW i \in Frames
        PROVE  frames'[i].handlersCount >= 0 /\ (i >= k + 1 => frames'[i].handlersCount = 0)
    <3>1. i < k \/ i = k \/ i > k
      BY <1>1 DEF Frames
    <3>2. i < k => ~ (i >= k + 1)
      BY <1>1 DEF Frames
    <3>3. i = k => ~ (i >= k + 1)
      BY <1>1
    <3> QED BY <3>1, <3>2, <3>3 DEF Ordered, Counted
  <2>2. frame' = frameCount' - 1
    BY <1>1
  <2>3. \A i \in Frames : /\ frames'[i].handlersCount >= 0
                          /\ i >= frameCount' => frames'[i].handlersCount = 0
    BY <2>1, Zenon
  <2> QED BY <2>2, <2>3, Zenon DEF Counted
<1>3. Nested(d.untidy)'
  <2>1. SUFFICES ASSUME NEW i \in 0 .. k, NEW j \in 0 .. k, i < j
                 PROVE  /\ frames'[i].slots <= frames'[j].slots
                        /\ frames'[j].fn \in d.untidy
                             => frames'[i].fn \in d.untidy /\ frames'[i].handlersCount = 0
    BY <1>1 DEF Nested
  <2>2. /\ frames'[i] = frames[i]
        /\ frames'[j].slots = frames[j].slots /\ frames'[j].fn = frames[j].fn
    BY <1>1, <2>1
  <2> QED BY <1>1, <2>1, <2>2 DEF Ordered, Nested
<1>4. Waiting(d.views)'
  <2>1. SUFFICES ASSUME NEW i \in 0 .. k - 1
                 PROVE  /\ Calling(frames'[i], frames'[i + 1], stack') \in d.views
                        /\ units[frames'[i].fn].code[frames'[i].ip - 1].op = "CALL"
    BY <1>1 DEF Waiting
  <2>2. /\ i \in 0 .. k /\ i + 1 \in 0 .. k /\ i < i + 1 /\ i < k /\ i \in 0 .. frameCount - 2
        /\ i + 1 = k \/ i + 1 < k
    BY <1>1, <2>1
  <2>3. /\ frames'[i] = frames[i]
        /\ frames'[i + 1].slots = frames[i + 1].slots /\ frames'[i + 1].fn = frames[i + 1].fn
    BY <1>1, <2>2
  <2>4. /\ frames[i].slots \in Nat /\ frames[i + 1].slots \in Nat /\ frames[k].slots \in Nat
        /\ frames[i].slots <= frames[i + 1].slots
    <3>1. i \in Frames /\ i + 1 \in Frames /\ i \in 0 .. frameCount - 1 /\ i + 1 \in 0 .. frameCount - 1
      BY <1>1, <2>2
    <3>2. frames[i] \in FrameType /\ frames[i + 1] \in FrameType /\ frames[k] \in FrameType
      BY <1>1, <3>1
    <3>3. frames[i].slots <= frames[i + 1].slots
      BY <2>2, <3>1 DEF Ordered, Nested
    <3> QED BY <3>2, <3>3 DEF FrameType, Slots
  <2>5. frames[i + 1].slots <= frames[k].slots
    BY <1>1, <2>2, <2>4 DEF Ordered, Nested
  <2>6. \A q \in Nat : q < frames[i + 1].slots => stack'[q] = stack[q]
    BY <2>4, <2>5
  <2>7. Calling(frames[i], frames'[i + 1], stack') = Calling(frames[i], frames[i + 1], stack)
    <3> DEFINE r == frames[i]
               e == frames[i + 1]
               e2 == frames'[i + 1]
               st == stack'
    <3>1. /\ r.slots \in Nat /\ e.slots \in Nat /\ r.slots <= e.slots
          /\ e2.slots = e.slots /\ e2.fn = e.fn
          /\ \A q \in Nat : q < e.slots => st[q] = stack[q]
      BY <2>3, <2>4, <2>6, Zenon
    <3> HIDE DEF r, e, e2, st
    <3>2. Calling(r, e2, st) = Calling(r, e, stack)
      BY <3>1, CallingKept
    <3> QED BY <3>2, Zenon DEF r, e, e2, st
  <2>8. /\ Calling(frames[i], frames[i + 1], stack) \in d.views
        /\ units[frames[i].fn].code[frames[i].ip - 1].op = "CALL"
    BY <2>2 DEF Ordered, Waiting
  <2> QED BY <2>3, <2>7, <2>8
<1>5. Running'.slots <= top' /\ Active' \in d.views
  BY DEF Running, Active
<1>6. frames'[0].slots = 0
  <2>1. 0 \in Frames /\ (0 < k \/ 0 = k)
    BY <1>1
  <2>2. frames'[0].slots = frames[0].slots
    BY <2>1
  <2> QED BY <2>2 DEF Ordered
<1> QED BY <1>2, <1>3, <1>4, <1>5, <1>6 DEF Ordered

\* So does an instruction that only concerns the call that runs.
LEMMA OwnStep ==
  ASSUME TypeOK, status = "running", NEW d, Ordered(d), UNCHANGED <<units, frame, frameCount>>,
         Rest(frames, frames', frame), frames'[frame].fn = Running.fn,
         frames'[frame].slots = Running.slots, frames'[frame].handlersCount >= 0,
         \A q \in Nat : q < Running.slots => stack'[q] = stack[q],
         Running.slots <= top', Active' \in d.views
  PROVE  Ordered(d)'
<1>1. /\ frameCount \in 1 .. MaxFrames /\ frame = frameCount - 1 /\ frame \in Frames
      /\ Running = frames[frame] /\ MaxFrames \in Nat /\ frame \in 0 .. frame
      /\ frame' = frame /\ frameCount' = frame + 1
  BY Numbers, BoundsAssumption DEF Frames
<1>2. /\ \A i \in Frames : i < frame => frames'[i] = frames[i]
      /\ \A i \in Frames : i > frame => frames'[i].handlersCount = 0
  BY <1>1 DEF Rest, Ordered, Counted, Frames
<1>3. Seen(frames'[frame], stack', top') \in d.views
  BY <1>1 DEF Active, Running
<1> QED BY Zenon, <1>1, <1>2, <1>3, Unwinds

\* The machine runs in order, by a certificate d of its program.
InOrderBy(d) == TypeOK /\ status = "running" /\ Ordered(d) /\ Certifies(d, units)

\* What the certificate says of the call that runs.
LEMMA ActiveFacts ==
  ASSUME NEW d, InOrderBy(d)
  PROVE  /\ Active.f = Running.fn /\ Active.ip = Running.ip /\ Active.h = top - Running.slots
         /\ Active.v = Values(stack, Running.slots, top)
         /\ Active.hc = Running.handlersCount
         /\ Active.hs = Handlers(Running.handlers, Running.handlersCount)
         /\ Active.p = Running.pending
         /\ Running.ip \in DOMAIN Code
         /\ Executable(Current, Active, d.answers)
         /\ Contained(Current, Active, d.untidy)
         /\ Steps(Current, Active, d.answers) \subseteq d.views
         /\ Running.ip \in DOMAIN Marks => Meets(Marks[Running.ip], Active)
<1>1. /\ Active.f = Running.fn /\ Active.ip = Running.ip /\ Active.h = top - Running.slots
      /\ Active.v = Values(stack, Running.slots, top)
      /\ Active.hc = Running.handlersCount
      /\ Active.hs = Handlers(Running.handlers, Running.handlersCount)
      /\ Active.p = Running.pending
  BY SeenFields DEF Active
<1>2. InOrder(units, d, Active)
  BY Zenon DEF InOrderBy, Ordered, Certifies
<1>3. /\ Active.ip \in DOMAIN units[Active.f].code
      /\ Executable(units[Active.f].code[Active.ip], Active, d.answers)
      /\ Contained(units[Active.f].code[Active.ip], Active, d.untidy)
      /\ Steps(units[Active.f].code[Active.ip], Active, d.answers) \subseteq d.views
      /\ Active.ip \in DOMAIN units[Active.f].marks
           => Meets(units[Active.f].marks[Active.ip], Active)
  BY <1>2, Zenon DEF InOrder
<1>4. /\ units[Active.f].code[Active.ip] = Current /\ units[Active.f].code = Code
      /\ units[Active.f].marks = Marks
  BY <1>1, Zenon DEF Current, Code, Marks
<1> QED BY <1>1, <1>3, <1>4, Zenon

\* The value on top of the stack is that of the call that runs.
LEMMA TopIs ==
  ASSUME NEW d, InOrderBy(d), Active.h > 0
  PROVE  TopOf(Active) = Peek /\ top > 0 /\ Running.slots < top
<1>1. /\ Active.h = top - Running.slots /\ Active.v = Values(stack, Running.slots, top)
      /\ top \in Nat /\ Running.slots \in Nat
  BY ActiveFacts, Numbers DEF InOrderBy
<1>2. /\ top - Running.slots - 1 \in 0 .. top - Running.slots - 1 /\ top > 0 /\ Running.slots < top
      /\ Running.slots + (top - Running.slots - 1) = top - 1
  BY <1>1
<1>3. Values(stack, Running.slots, top)[top - Running.slots - 1] = stack[top - 1]
  BY <1>2 DEF Values
<1> QED BY <1>1, <1>2, <1>3 DEF TopOf, Peek

\* The instruction has been read: the call goes on behind it.
LEMMA ReadOn ==
  ASSUME NEW d, InOrderBy(d), NEW st, NEW t
  PROVE  /\ Seen(Read[frame], st, t) = Goes(Seen(Running, st, t), Running.ip + 1)
         /\ Read[frame].slots = Running.slots
<1>1. Holds(Read[frame], Running.fn, Running.ip + 1, Running.slots,
            Running.handlersCount, Running.handlers, Running.pending)
  BY ReadFacts DEF InOrderBy
<1> QED BY <1>1, SeenGoes DEF Holds

\* An instruction that changes the stack of the call that runs.
LEMMA ProceedStep ==
  ASSUME NEW d, InOrderBy(d), Proceeds,
         \A q \in Nat : q < Running.slots => stack'[q] = stack[q],
         Running.slots <= top', Seen(Read[frame], stack', top') \in d.views
  PROVE  Ordered(d)'
<1>1. /\ TypeOK /\ status = "running" /\ Ordered(d) /\ UNCHANGED <<units, frame, frameCount>>
      /\ frames' = Read
  BY DEF InOrderBy, Proceeds
<1>2. /\ Rest(frames, Read, frame) /\ Read[frame].fn = Running.fn
      /\ Read[frame].slots = Running.slots /\ Read[frame].handlersCount >= 0
  BY <1>1, ReadFacts, Numbers, BoundsAssumption DEF Holds
<1>3. Active' = Seen(Read[frame], stack', top')
  BY <1>1 DEF Active, Running
<1> QED BY <1>1, <1>2, <1>3, OwnStep

\* An instruction that only moves the ip.
LEMMA JumpStep ==
  ASSUME NEW d, InOrderBy(d), NEW a \in Nat, JumpTo(a), Goes(Active, a) \in d.views
  PROVE  Ordered(d)'
<1>1. /\ TypeOK /\ status = "running" /\ Ordered(d)
      /\ UNCHANGED <<units, frame, frameCount, stack, top>>
      /\ frames' = [frames EXCEPT ![frame].ip = a]
  BY DEF InOrderBy, JumpTo
<1>2. /\ Rest(frames, frames', frame)
      /\ Holds(frames'[frame], Running.fn, a, Running.slots,
               Running.handlersCount, Running.handlers, Running.pending)
  BY Zenon, <1>1, JumpFacts
<1>3. frames'[frame].handlersCount >= 0 /\ Running.slots <= top
  BY <1>1, <1>2, Numbers, BoundsAssumption DEF Holds
<1>4. Active' = Goes(Active, a)
  BY <1>1, <1>2, SeenGoes DEF Active, Running
<1> QED BY Zenon, <1>1, <1>2, <1>3, <1>4, OwnStep DEF Holds

\* An instruction that pushes x.
LEMMA PushStep ==
  ASSUME NEW d, InOrderBy(d), Defined, NEW x, Push(x), Proceeds,
         Pushes(Goes(Active, Running.ip + 1), x) \in d.views
  PROVE  Ordered(d)'
<1>1. /\ stack' = [stack EXCEPT ![top] = x] /\ top' = top + 1
  BY DEF Push
<1>2. /\ top \in Nat /\ top \in DOMAIN stack /\ Running.slots \in Nat /\ Running.slots <= top
  BY Numbers, Types, BoundsAssumption DEF InOrderBy, Defined, Slots
<1>3. /\ Seen(Read[frame], stack, top) = Goes(Active, Running.ip + 1)
      /\ Read[frame].slots = Running.slots
  BY ReadOn DEF Active
<1>4. Seen(Read[frame], [stack EXCEPT ![top] = x], top + 1)
        = Pushes(Goes(Active, Running.ip + 1), x)
  BY <1>2, <1>3, SeenPushes
<1>5. Seen(Read[frame], stack', top') \in d.views
  BY <1>1, <1>4
<1>6. \A q \in Nat : q < Running.slots => stack'[q] = stack[q]
  BY <1>1, <1>2
<1>7. Running.slots <= top'
  BY <1>1, <1>2
<1> QED BY <1>5, <1>6, <1>7, ProceedStep

\* Where the certificate says the call may go, it may go.
LEMMA MayProceed ==
  ASSUME NEW d, InOrderBy(d), NEW x \in Proceed(Current, Active, d.answers)
  PROVE  x \in d.views
  BY ActiveFacts, Zenon DEF Steps

\* The instructions that push.
LEMMA PushInstrs ==
  ASSUME NEW d, InOrderBy(d), Loaded, PushValue \/ Condition \/ GetLocal
  PROVE  Ordered(d)'
<1> DEFINE n == Goes(Active, Running.ip + 1)
<1>1. Active.ip = Running.ip
  BY ActiveFacts
<1>2. CASE PushValue
  <2>1. /\ Current.op \in {"PUSH", "GET_GLOBAL", "CLOSURE"} /\ Defined
        /\ Push(Current.n) /\ Proceeds
    BY <1>2 DEF PushValue, Executes
  <2>2. Pushes(n, Current.n) \in d.views
    BY Zenon, <1>1, <2>1, ProceedIs, MayProceed
  <2> QED BY <2>1, <2>2, PushStep
<1>3. CASE Condition
  <2>1. Current.op = "CONDITION" /\ Defined /\ Proceeds
    BY <1>3 DEF Condition, Executes
  <2>2. PICK x \in {"true", "false"} : Push(x)
    BY <1>3 DEF Condition
  <2>3. Pushes(n, x) \in d.views
    BY Zenon, <1>1, <2>1, ProceedIs, MayProceed
  <2> QED BY <2>1, <2>2, <2>3, PushStep
<1>4. CASE GetLocal
  <2>1. /\ Current.op = "GET_LOCAL" /\ Defined /\ Proceeds
        /\ Push(stack[Running.slots + Current.a])
    BY <1>4 DEF GetLocal, Executes
  <2>2. Current.a < Active.h /\ Current.a \in Nat
    BY Zenon, <2>1, ActiveFacts, Operands, Numbers DEF Executable, InOrderBy, Current, Code, Loaded
  <2>3. Active.v[Current.a] = stack[Running.slots + Current.a]
    <3>1. /\ Active.h = top - Running.slots /\ Active.v = Values(stack, Running.slots, top)
          /\ top \in Nat /\ Running.slots \in Nat
      BY ActiveFacts, Numbers DEF InOrderBy
    <3> QED BY <2>2, <3>1 DEF Values
  <2>4. Pushes(n, Active.v[Current.a]) \in d.views
    BY Zenon, <1>1, <2>1, ProceedIs, MayProceed
  <2>5. Pushes(n, stack[Running.slots + Current.a]) \in d.views
    BY <2>3, <2>4
  <2> QED BY <2>1, <2>5, PushStep
<1> QED BY <1>2, <1>3, <1>4

\* The instructions that pop, or assign to the values of the call.
LEMMA StackInstrs ==
  ASSUME NEW d, InOrderBy(d), Loaded, Pop \/ SetLocal \/ Invoke
  PROVE  Ordered(d)'
<1> DEFINE n == Goes(Active, Running.ip + 1)
           r == Read[frame]
<1>1. /\ Active.ip = Running.ip /\ Active.h = top - Running.slots
      /\ top \in Nat /\ Running.slots \in Nat /\ Running.slots <= top
      /\ Executable(Current, Active, d.answers)
  BY Zenon, ActiveFacts, Numbers DEF InOrderBy
<1>2. Seen(r, stack, top) = n /\ r.slots = Running.slots
  BY ReadOn DEF Active
<1>3. Defined => DOMAIN stack = Slots /\ top \in Slots /\ MaxStack \in Nat
  BY <1>1, Types, BoundsAssumption DEF InOrderBy, Defined, Slots
<1> HIDE DEF n, r
<1>4. CASE Pop
  <2>1. Current.op = "POP" /\ top' = top - 1 /\ stack' = stack /\ Proceeds
    BY <1>4 DEF Pop, Executes
  <2>2. Running.slots < top
    BY <1>1, <2>1 DEF Executable, Peeks
  <2>3. Pops(n) \in d.views
    BY Zenon, <1>1, <2>1, ProceedIs, MayProceed DEF n
  <2>4. Seen(r, stack, top - 1) = Pops(n)
    BY <1>1, <1>2, <2>2, SeenPops
  <2>5. Seen(Read[frame], stack', top') \in d.views
    BY <2>1, <2>3, <2>4 DEF r
  <2>6. Running.slots <= top'
    BY <1>1, <2>1, <2>2
  <2> QED BY <2>1, <2>5, <2>6, ProceedStep
<1>5. CASE SetLocal
  <2>1. /\ Current.op = "SET_LOCAL" /\ top' = top /\ Proceeds /\ Defined
        /\ stack' = [stack EXCEPT ![Running.slots + Current.a] = Peek]
    BY <1>5 DEF SetLocal, Executes
  <2>2. Current.a < Active.h /\ Current.a \in Nat /\ Active.h > 0
    BY ZenonT(60), <1>1, <2>1, Operands, Numbers
       DEF Executable, InOrderBy, Current, Code, Loaded, Defined, Peeks
  <2>3. Puts(n, Current.a, Peek) \in d.views
    BY Zenon, <1>1, <2>1, <2>2, ProceedIs, MayProceed, TopIs DEF n
  <2>4. Current.a \in 0 .. top - Running.slots - 1 /\ Running.slots + Current.a \in DOMAIN stack
    BY <1>1, <1>3, <2>1, <2>2 DEF Slots
  <2>5. Seen(r, stack', top) = Puts(n, Current.a, Peek)
    <3> DEFINE m == Running.slots + Current.a
    <3>1. stack' = Put(stack, m, Peek)
      BY <2>1 DEF Put
    <3>2. m \in DOMAIN stack /\ m = r.slots + Current.a
      BY <1>2, <2>4
    <3> HIDE DEF m
    <3>3. Seen(r, Put(stack, m, Peek), top) = Puts(Seen(r, stack, top), Current.a, Peek)
      BY <1>1, <1>2, <2>4, <3>2, SeenPuts
    <3> QED BY <1>2, <3>1, <3>3, Zenon
  <2>6. Seen(Read[frame], stack', top') \in d.views
    BY <2>1, <2>3, <2>5 DEF r
  <2>7. \A q \in Nat : q < Running.slots => stack'[q] = stack[q]
    BY <1>1, <2>1, <2>2
  <2> QED BY Zenon, <1>1, <2>1, <2>6, <2>7, ProceedStep
<1>6. CASE Invoke
  <2>1. Current.op = "INVOKE" /\ top' = top - 1 /\ Proceeds /\ Defined
    BY <1>6 DEF Invoke, Executes
  <2>2. PICK x \in {Current.n} \cup (IF Current.a = 1 THEN {"false"} ELSE {}) :
            stack' = [stack EXCEPT ![top - 2] = x]
    BY ZenonT(60), <1>6 DEF Invoke
  <2>3. Active.h > 1 /\ Running.slots < top /\ Running.slots <= top - 1
    BY <1>1, <2>1 DEF Executable
  <2>4. Pops(Puts(n, Active.h - 2, x)) \in d.views
    BY Zenon, <1>1, <2>1, <2>2, ProceedIs, MayProceed DEF n
  <2> DEFINE i == Active.h - 2
  <2>5. /\ i \in 0 .. top - Running.slots - 1 /\ Running.slots + i = top - 2
        /\ Running.slots + i \in DOMAIN stack
    BY <1>1, <1>3, <2>1, <2>3 DEF Slots
  <2> HIDE DEF i
  <2>6. Seen(r, stack', top) = Puts(n, i, x)
    <3> DEFINE m == top - 2
    <3>1. stack' = Put(stack, m, x)
      BY <2>2 DEF Put
    <3>2. m \in DOMAIN stack /\ m = r.slots + i
      BY <1>2, <2>5
    <3> HIDE DEF m
    <3>3. Seen(r, Put(stack, m, x), top) = Puts(Seen(r, stack, top), i, x)
      BY <1>1, <1>2, <2>5, <3>2, SeenPuts
    <3> QED BY <1>2, <3>1, <3>3, Zenon
  <2>7. Seen(r, stack', top - 1) = Pops(Puts(n, i, x))
    BY <1>1, <1>2, <2>3, <2>6, SeenPops
  <2>8. Seen(Read[frame], stack', top') \in d.views
    BY <2>1, <2>4, <2>7 DEF r, i
  <2>9. \A q \in Nat : q < Running.slots => stack'[q] = stack[q]
    BY <1>1, <2>2, <2>5
  <2>10. Running.slots <= top'
    BY <1>1, <2>1, <2>3
  <2> QED BY <2>1, <2>8, <2>9, <2>10, ProceedStep
<1> QED BY <1>4, <1>5, <1>6

\* The jumps.
LEMMA JumpInstrs ==
  ASSUME NEW d, InOrderBy(d), Loaded, Jump \/ JumpIfFalse \/ Switch
  PROVE  Ordered(d)'
<1>1. /\ Active.ip = Running.ip /\ Active.h = top - Running.slots
      /\ top \in Nat /\ Running.slots \in Nat /\ Running.slots <= top /\ Running.ip \in Nat
      /\ Executable(Current, Active, d.answers)
  BY ActiveFacts, Numbers DEF InOrderBy
<1>2. Current.a \in Nat /\ Current.t \subseteq Nat
  BY Zenon, ActiveFacts, Operands, Numbers DEF InOrderBy, Current, Code, Loaded
<1>3. CASE Jump
  <2>1. Current.op \in {"JUMP", "LOOP"} /\ JumpTo(Current.a)
    BY <1>3 DEF Jump, Executes
  <2>2. Goes(Active, Current.a) \in d.views
    BY ZenonT(60), <2>1, ProceedIs, MayProceed
  <2> QED BY <1>2, <2>1, <2>2, JumpStep
<1>4. CASE JumpIfFalse
  <2> DEFINE a == IF IsFalse(Peek) THEN Current.a ELSE Running.ip + 1
  <2>1. Current.op = "JUMP_IF_FALSE" /\ JumpTo(a)
    BY <1>4 DEF JumpIfFalse, Executes
  <2>2. TopOf(Active) = Peek
    BY <1>1, <2>1, TopIs DEF Executable, Peeks
  <2>3. (IF IsFalse(TopOf(Active)) THEN Goes(Active, Current.a)
                                   ELSE Goes(Active, Active.ip + 1)) \in d.views
    BY Zenon, <2>1, ProceedIs, MayProceed
  <2>4. Goes(Active, a) \in d.views
    BY <1>1, <2>2, <2>3
  <2>5. a \in Nat
    BY <1>1, <1>2
  <2> HIDE DEF a
  <2> QED BY <2>1, <2>4, <2>5, JumpStep
<1>5. CASE Switch
  <2>1. /\ Current.op = "SWITCH" /\ top' = top - 1 /\ stack' = stack
        /\ UNCHANGED <<units, frame, frameCount>>
    BY <1>5 DEF Switch, Executes
  <2>2. PICK a \in Current.t : frames' = [frames EXCEPT ![frame].ip = a]
    BY Zenon, <1>5 DEF Switch
  <2>3. a \in Nat /\ Running.slots < top
    BY <1>1, <1>2, <2>1 DEF Executable, Peeks
  <2>4. /\ Rest(frames, frames', frame)
        /\ Holds(frames'[frame], Running.fn, a, Running.slots,
                 Running.handlersCount, Running.handlers, Running.pending)
    BY Zenon, <2>2, <2>3, JumpFacts DEF InOrderBy
  <2>5. Pops(Goes(Active, a)) \in d.views
    BY Zenon, <2>1, ProceedIs, MayProceed
  <2>6. Seen(frames'[frame], stack, top) = Goes(Active, a)
    BY <2>4, SeenGoes DEF Active
  <2>7. Seen(frames'[frame], stack, top - 1) = Pops(Goes(Active, a))
    BY <1>1, <2>3, <2>4, <2>6, SeenPops DEF Holds
  <2>8. Active' = Pops(Goes(Active, a))
    BY <2>1, <2>7 DEF Active, Running
  <2>9. frames'[frame].handlersCount >= 0 /\ Running.slots <= top'
    BY <1>1, <2>1, <2>3, <2>4, Numbers, BoundsAssumption DEF Holds, InOrderBy
  <2> QED BY <2>1, <2>4, <2>5, <2>8, <2>9, OwnStep DEF Holds, InOrderBy
<1> QED BY <1>3, <1>4, <1>5

\* The instructions for handlers.
LEMMA TryInstrs ==
  ASSUME NEW d, InOrderBy(d), Loaded, TryInstr \/ PopTry
  PROVE  Ordered(d)'
<1> DEFINE n == Goes(Active, Running.ip + 1)
           r == Read[frame]
<1>1. /\ Active.ip = Running.ip /\ Active.hc = Running.handlersCount
      /\ TypeOK /\ status = "running" /\ Ordered(d) /\ Running.slots <= top
      /\ Running.handlersCount \in 0 .. MaxHandlers /\ MaxHandlers \in Nat
      /\ Executable(Current, Active, d.answers)
  BY ActiveFacts, Numbers, BoundsAssumption DEF InOrderBy
<1>2. Seen(r, stack, top) = n
  BY ReadOn DEF Active
<1>3. /\ Holds(r, Running.fn, Running.ip + 1, Running.slots, Running.handlersCount,
               Running.handlers, Running.pending)
      /\ Running.handlers \in [1 .. MaxHandlers -> Handler]
  BY <1>1, ReadFacts, Numbers
<1> HIDE DEF n, r
<1>4. CASE TryInstr
  <2> DEFINE h == [address |-> Current.a, finally |-> Current.b]
             g == [Read EXCEPT ![frame].handlersCount = @ + 1,
                               ![frame].handlers[Running.handlersCount + 1] = h]
  <2>1. /\ Current.op = "TRY" /\ frames' = g
        /\ UNCHANGED <<units, frame, frameCount, stack, top>>
    BY <1>4 DEF TryInstr, Executes
  <2>2. Running.handlersCount \in 0 .. MaxHandlers - 1
    BY <1>1, <2>1 DEF Executable
  <2>3. h \in Handler
    BY Zenon, ActiveFacts, Operands, Numbers DEF InOrderBy, Current, Code, Loaded, Handler
  <2>4. PushesTry(n, h) \in d.views
    BY <1>1, <2>1, ProceedIs, MayProceed DEF n
  <2> HIDE DEF h
  <2>5. /\ Rest(frames, g, frame)
        /\ Holds(g[frame], Running.fn, Running.ip + 1, Running.slots, Running.handlersCount + 1,
                 [Running.handlers EXCEPT ![Running.handlersCount + 1] = h], Running.pending)
    BY ZenonT(60), <1>1, <2>2, <2>3, TryFacts
  <2> HIDE DEF g
  <2>6. Holds(g[frame], r.fn, r.ip, r.slots, r.handlersCount + 1,
              [r.handlers EXCEPT ![r.handlersCount + 1] = h], r.pending)
    BY <1>3, <2>5 DEF Holds
  <2>7. Seen(g[frame], stack, top) = PushesTry(n, h)
    BY <1>2, <1>3, <2>2, <2>6, SeenTries DEF Holds
  <2>8. Active' = PushesTry(n, h)
    BY <2>1, <2>7 DEF Active, Running
  <2>9. frames'[frame].handlersCount >= 0
    BY <2>1, <2>2, <2>5 DEF Holds
  <2> QED BY <1>1, <2>1, <2>4, <2>5, <2>8, <2>9, OwnStep DEF Holds
<1>5. CASE PopTry
  <2> DEFINE g == [Read EXCEPT ![frame].handlersCount = @ - 1]
  <2>1. /\ Current.op = "POP_TRY" /\ frames' = g
        /\ UNCHANGED <<units, frame, frameCount, stack, top>>
    BY <1>5 DEF PopTry, Executes
  <2>2. Running.handlersCount \in Nat \ {0}
    BY <1>1, <2>1 DEF Executable
  <2>3. PopsTry(n) \in d.views
    BY Zenon, <1>1, <2>1, ProceedIs, MayProceed DEF n
  <2>4. /\ Rest(frames, g, frame)
        /\ Holds(g[frame], Running.fn, Running.ip + 1, Running.slots, Running.handlersCount - 1,
                 Running.handlers, Running.pending)
    BY <1>1, PopTryFacts
  <2> HIDE DEF g
  <2>5. Holds(g[frame], r.fn, r.ip, r.slots, r.handlersCount - 1, r.handlers, r.pending)
    BY <1>3, <2>4 DEF Holds
  <2>6. Seen(g[frame], stack, top) = PopsTry(n)
    BY <1>2, <1>3, <2>2, <2>5, SeenPopsTry DEF Holds
  <2>7. Active' = PopsTry(n)
    BY <2>1, <2>6 DEF Active, Running
  <2>8. frames'[frame].handlersCount >= 0
    BY <2>1, <2>2, <2>4 DEF Holds
  <2> QED BY <1>1, <2>1, <2>3, <2>4, <2>7, <2>8, OwnStep DEF Holds
<1> QED BY <1>4, <1>5

\* A call with no handler that calls another may have to leave what the stack
\* holds behind, for an exception that passes.
LEMMA LeavesUntidy ==
  ASSUME NEW d, NEW u, Certifies(d, u), NEW s \in d.views,
         u[s.f].code[s.ip].op = "CALL", s.hc = 0
  PROVE  s.f \in d.untidy
<1> DEFINE c == u[s.f].code[s.ip]
<1>1. Contained(c, s, d.untidy)
  BY Zenon DEF Certifies, InOrder
<1>2. c.op = "CALL"
  OBVIOUS
<1> HIDE DEF c
<1>3. Thrown(c, s).hc = 0
  <2> DEFINE n == Goes(s, s.ip + 1)
  <2>1. n.hc = 0
    BY ViewFields DEF Goes
  <2> HIDE DEF n
  <2>2. Pushes(n, "exception").hc = 0
    BY <2>1, ViewFields DEF Pushes
  <2>3. Thrown(c, s) = Pushes(n, "exception")
    BY <1>2, ThrownIs DEF n
  <2> QED BY <2>2, <2>3
<1> QED BY <1>1, <1>2, <1>3 DEF Contained, Leaves, Tidy, Throws

\* OP_CALL: the caller waits in the view it has, the new call begins.
LEMMA CallInstr ==
  ASSUME NEW d, InOrderBy(d), CallFunction
  PROVE  Ordered(d)'
<1> DEFINE c == frameCount
           q == Peek
           b == top - 1
           g == [Read EXCEPT ![c].fn = q, ![c].ip = 1, ![c].slots = b, ![c].pending = 0]
<1>1. /\ TypeOK /\ status = "running" /\ Ordered(d) /\ Certifies(d, units)
      /\ frames \in [Frames -> FrameType] /\ MaxFrames \in Nat
      /\ c \in 1 .. MaxFrames /\ frame = c - 1 /\ frame \in Frames
      /\ Running = frames[frame] /\ Running.slots \in Nat /\ Running.ip \in Nat
      /\ top \in Nat /\ Running.slots <= top
  BY Numbers, Types, BoundsAssumption DEF InOrderBy
<1>2. /\ Current.op = "CALL" /\ q \in DOMAIN units /\ c < MaxFrames /\ frames' = g /\ Defined
      /\ frameCount' = c + 1 /\ frame' = c /\ UNCHANGED <<units, stack, top>>
  BY DEF CallFunction, Executes
<1>3. /\ Active.h = top - Running.slots /\ Active.v = Values(stack, Running.slots, top)
      /\ Active.hc = Running.handlersCount /\ Active.f = Running.fn /\ Active.ip = Running.ip
      /\ Active.h > 0 /\ Contained(Current, Active, d.untidy) /\ Active \in d.views
      /\ units[Active.f].code[Active.ip] = Current
  BY Zenon, <1>1, <1>2, ActiveFacts DEF Executable, Peeks, Ordered, Current, Code
<1>4. TopOf(Active) = q /\ Running.slots < top
  BY <1>3, TopIs
<1>5. b \in Slots /\ b \in Nat /\ Running.slots <= b /\ c \in Frames /\ c # frame
  <2>1. top + 2 <= MaxStack /\ c < MaxFrames
    BY <1>2, Zenon DEF Defined
  <2> QED BY <1>1, <1>4, <2>1, BoundsAssumption DEF Slots, Frames
<1>6. Rest(Read, g, c) /\ Holds(g[c], q, 1, b, Read[c].handlersCount, Read[c].handlers, 0)
  <2> HIDE DEF q, b, c
  <2> QED BY Zenon, <1>1, <1>2, <1>5, CallFacts
<1> HIDE DEF g
<1>7. /\ Rest(frames, Read, frame)
      /\ Holds(Read[frame], Running.fn, Running.ip + 1, Running.slots,
               Running.handlersCount, Running.handlers, Running.pending)
  BY <1>1, ReadFacts
<1>8. /\ \A i \in Frames : i # frame /\ i # c => g[i] = frames[i]
      /\ Holds(g[frame], Running.fn, Running.ip + 1, Running.slots,
               Running.handlersCount, Running.handlers, Running.pending)
      /\ g[c].fn = q /\ g[c].slots = b /\ g[c].handlersCount = 0
  BY <1>1, <1>5, <1>6, <1>7 DEF Rest, Holds, Ordered, Counted
<1>9. Seen(g[c], stack, top) = Entry(q)
  <2>1. top - b = 1 /\ Values(stack, b, top) = [j \in 0 .. 0 |-> q]
    BY <1>1 DEF Values, Peek
  <2>2. Handlers(g[c].handlers, 0) = [k \in 1 .. 0 |-> NoHandler]
    BY DEF Handlers
  <2>3. /\ g[c].fn = q /\ g[c].ip = 1 /\ g[c].slots = b /\ g[c].handlersCount = 0
        /\ g[c].pending = 0
    BY <1>6, <1>8 DEF Holds
  <2> HIDE DEF q, b, c
  <2> QED BY <2>1, <2>2, <2>3, Zenon DEF Seen, Entry
<1>10. Entry(q) \in d.views
  BY <1>1, <1>2, Zenon DEF Certifies
<1>11. Calling(g[frame], g[c], stack) = Active
  <2> DEFINE v == [j \in 0 .. b - Running.slots |->
                     IF j = b - Running.slots THEN q ELSE stack[Running.slots + j]]
  <2>1. v = Values(stack, Running.slots, top)
    BY <1>1, <1>4 DEF Values, Peek
  <2>2. b - Running.slots + 1 = top - Running.slots /\ (Running.ip + 1) - 1 = Running.ip
    BY <1>1
  <2> HIDE DEF q, b, c
  <2>3. Calling(g[frame], g[c], stack)
          = View(Running.fn, (Running.ip + 1) - 1, b - Running.slots + 1, v,
                 Running.handlersCount,
                 Handlers(Running.handlers, Running.handlersCount), Running.pending)
    BY <1>8 DEF Calling, Holds
  <2> HIDE DEF v
  <2> QED BY <2>1, <2>2, <2>3, Zenon DEF Active, Seen
<1>12. q \in d.untidy => Running.fn \in d.untidy /\ Running.handlersCount = 0
  BY Zenon, <1>1, <1>2, <1>3, <1>4, LeavesUntidy DEF Contained
<1> HIDE DEF q, b, c
<1>13. Counted'
  <2>1. ASSUME NEW i \in Frames
        PROVE  g[i].handlersCount >= 0 /\ (i >= c + 1 => g[i].handlersCount = 0)
    <3>1. frames[i].handlersCount >= 0 /\ (i >= c => frames[i].handlersCount = 0)
      BY Zenon, <1>1 DEF Ordered, Counted, c
    <3>2. i \in Int /\ c \in Int
      BY <1>1 DEF Frames
    <3> QED BY <1>1, <1>8, <3>1, <3>2 DEF Holds
  <2>2. frame' = frameCount' - 1
    BY <1>1, <1>2
  <2> QED BY <1>2, <2>1, <2>2 DEF Counted
<1>14. Nested(d.untidy)'
  <2>1. SUFFICES ASSUME NEW i \in 0 .. c, NEW j \in 0 .. c, i < j
                 PROVE  /\ g[i].slots <= g[j].slots
                        /\ g[j].fn \in d.untidy
                             => g[i].fn \in d.untidy /\ g[i].handlersCount = 0
    BY <1>1, <1>2 DEF Nested
  <2>2. /\ i \in 0 .. c - 1 /\ i \in Frames /\ j \in Frames
        /\ g[i].slots = frames[i].slots /\ g[i].fn = frames[i].fn
        /\ g[i].handlersCount = frames[i].handlersCount
    BY <1>1, <1>5, <1>8, <2>1 DEF Holds, Frames
  <2>3. CASE j = c
    <3>1. i = frame \/ (i < frame /\ frame \in 0 .. c - 1)
      BY <1>1, <2>1, <2>2
    <3>2. frames[i].slots <= Running.slots /\ frames[i].slots \in Nat
      <4>1. frames[i].slots \in Nat
        BY <1>1, <2>2 DEF FrameType, Slots
      <4>2. i < frame /\ frame \in 0 .. c - 1 => frames[i].slots <= Running.slots
        BY <1>1, <2>2, Zenon DEF Ordered, Nested, c
      <4> QED BY <1>1, <3>1, <4>1, <4>2
    <3>3. Running.fn \in d.untidy /\ Running.handlersCount = 0
            => frames[i].fn \in d.untidy /\ frames[i].handlersCount = 0
      BY <1>1, <2>2, <3>1 DEF Ordered, Nested, c
    <3> QED BY <1>1, <1>5, <1>8, <1>12, <2>2, <2>3, <3>2, <3>3
  <2>4. CASE j # c
    <3>1. /\ j \in 0 .. c - 1 /\ g[j].slots = frames[j].slots /\ g[j].fn = frames[j].fn
      BY <1>1, <1>8, <2>1, <2>2, <2>4 DEF Holds
    <3> QED BY <1>1, <2>1, <2>2, <3>1 DEF Ordered, Nested, c
  <2> QED BY <2>3, <2>4
<1>15. Waiting(d.views)'
  <2>1. SUFFICES ASSUME NEW i \in 0 .. c - 1
                 PROVE  /\ Calling(g[i], g[i + 1], stack) \in d.views
                        /\ units[g[i].fn].code[g[i].ip - 1].op = "CALL"
    BY <1>1, <1>2 DEF Waiting
  <2>2. CASE i = frame
    <3>1. i + 1 = c /\ g[i].fn = Running.fn /\ g[i].ip - 1 = Running.ip
      BY <1>1, <1>8, <2>2 DEF Holds
    <3> QED BY <1>2, <1>3, <1>11, <2>2, <3>1
  <2>3. CASE i # frame
    <3>1. i \in 0 .. c - 2 /\ i \in Frames /\ i + 1 \in Frames /\ i # c /\ i + 1 # c
      BY <1>1, <1>5, <2>1, <2>3 DEF Frames
    <3>2. g[i] = frames[i] /\ g[i + 1].slots = frames[i + 1].slots /\ g[i + 1].fn = frames[i + 1].fn
      BY <1>1, <1>8, <2>3, <3>1 DEF Holds
    <3>3. Calling(g[i], g[i + 1], stack) = Calling(frames[i], frames[i + 1], stack)
      BY ZenonT(60), <3>2 DEF Calling
    <3> QED BY Zenon, <1>1, <3>1, <3>2, <3>3 DEF Ordered, Waiting, c
  <2> QED BY ZenonT(60), <2>2, <2>3
<1>16. Running' = g[c] /\ Running'.slots <= top'
  BY <1>1, <1>2, <1>8 DEF Running, b
<1>17. Active' \in d.views
  BY <1>2, <1>9, <1>10, <1>16 DEF Active
<1>18. frames'[0].slots = 0
  <2>1. 0 \in Frames /\ 0 # c
    BY <1>1 DEF Frames
  <2>2. g[0].slots = frames[0].slots
    BY <1>1, <1>8, <2>1 DEF Holds
  <2> QED BY <1>1, <1>2, <2>2 DEF Ordered
<1> QED BY <1>13, <1>14, <1>15, <1>16, <1>17, <1>18 DEF Ordered

\* The call that waits in w gets x for an answer.
Answered(w, x) == Puts(Goes(w, w.ip + 1), w.h - 1, x)

\* The value x in the slot of the call d: the call r that waited for it goes on.
LEMMA SeenAnswer ==
  ASSUME NEW r, r.slots \in Nat, r.ip \in Nat, NEW d, d.slots \in Nat, r.slots <= d.slots,
         NEW st, d.slots \in DOMAIN st, NEW x
  PROVE  Seen(r, Put(st, d.slots, x), d.slots + 1) = Answered(Calling(r, d, st), x)
<1> DEFINE b == d.slots - r.slots
           v == [j \in 0 .. b |-> IF j = b THEN d.fn ELSE st[r.slots + j]]
           hs == Handlers(r.handlers, r.handlersCount)
           y == [j \in 0 .. b |-> IF j = b THEN x ELSE st[r.slots + j]]
           w == Calling(r, d, st)
<1>1. w = View(r.fn, r.ip - 1, b + 1, v, r.handlersCount, hs, r.pending)
  BY Zenon DEF Calling
<1>2. b \in Nat /\ (r.ip - 1) + 1 = r.ip /\ (b + 1) - 1 = b /\ (d.slots + 1) - r.slots = b + 1
  OBVIOUS
<1>3. Values(Put(st, d.slots, x), r.slots, d.slots + 1) = y
  <2>1. r.slots + b = d.slots /\ (d.slots + 1) - r.slots - 1 = b
    OBVIOUS
  <2>2. ASSUME NEW j \in 0 .. b
        PROVE  Put(st, d.slots, x)[r.slots + j] = y[j]
    BY <2>1 DEF Put
  <2> QED BY <2>1, <2>2 DEF Values
<1>4. [j \in 0 .. b |-> IF j = b THEN x ELSE v[j]] = y
  OBVIOUS
<1> HIDE DEF w, v, y, hs, b
<1>5. /\ w.f = r.fn /\ w.ip = r.ip - 1 /\ w.h = b + 1 /\ w.v = v
      /\ w.hc = r.handlersCount /\ w.hs = hs /\ w.p = r.pending
  BY <1>1, ViewFields
<1> DEFINE n == Goes(w, w.ip + 1)
<1>6. n = View(r.fn, r.ip, b + 1, v, r.handlersCount, hs, r.pending)
  BY <1>2, <1>5 DEF Goes
<1> HIDE DEF n
<1>7. /\ n.f = r.fn /\ n.ip = r.ip /\ n.h = b + 1 /\ n.v = v
      /\ n.hc = r.handlersCount /\ n.hs = hs /\ n.p = r.pending
  BY <1>6, ViewFields
<1>8. Puts(n, b, x) = View(r.fn, r.ip, b + 1, y, r.handlersCount, hs, r.pending)
  BY Zenon, <1>2, <1>4, <1>7 DEF Puts
<1>9. Seen(r, Put(st, d.slots, x), d.slots + 1)
        = View(r.fn, r.ip, b + 1, y, r.handlersCount, hs, r.pending)
  BY <1>2, <1>3, Zenon DEF Seen, hs
<1> QED BY <1>2, <1>5, <1>8, <1>9, Zenon DEF w, n, Answered

\* The call that waits in w gets an exception.
Failed(w) == Pushes(Goes(w, w.ip + 1), "exception")

\* An exception above the function d of a call: the call r sees that it threw.
LEMMA SeenThrown ==
  ASSUME NEW r, r.slots \in Nat, r.ip \in Nat, NEW d, d.slots \in Nat, r.slots <= d.slots,
         NEW st, NEW st2, \A q \in Nat : q < d.slots => st2[q] = st[q],
         st2[d.slots] = d.fn, st2[d.slots + 1] = "exception"
  PROVE  Seen(r, st2, d.slots + 2) = Failed(Calling(r, d, st))
<1> DEFINE b == d.slots - r.slots
           v == [j \in 0 .. b |-> IF j = b THEN d.fn ELSE st[r.slots + j]]
           hs == Handlers(r.handlers, r.handlersCount)
           y == [j \in 0 .. b + 1 |-> IF j = b + 1 THEN "exception" ELSE v[j]]
           w == Calling(r, d, st)
<1>1. w = View(r.fn, r.ip - 1, b + 1, v, r.handlersCount, hs, r.pending)
  BY Zenon DEF Calling
<1>2. b \in Nat /\ (r.ip - 1) + 1 = r.ip /\ (d.slots + 2) - r.slots = b + 2 /\ (b + 1) + 1 = b + 2
  OBVIOUS
<1>3. Values(st2, r.slots, d.slots + 2) = y
  <2>1. r.slots + b = d.slots /\ (d.slots + 2) - r.slots - 1 = b + 1 /\ r.slots + (b + 1) = d.slots + 1
    OBVIOUS
  <2>2. ASSUME NEW j \in 0 .. b + 1
        PROVE  st2[r.slots + j] = y[j]
    <3>1. CASE j = b + 1
      BY <2>1, <3>1
    <3>2. CASE j = b
      <4>1. b \in 0 .. b /\ b \in 0 .. b + 1 /\ b # b + 1
        BY <1>2
      <4>2. v[b] = d.fn
        BY <4>1, Zenon
      <4>3. y[b] = v[b]
        BY <4>1, Zenon
      <4>4. st2[r.slots + b] = d.fn
        BY <2>1, Zenon
      <4> QED BY <3>2, <4>2, <4>3, <4>4, Zenon
    <3>3. CASE j \in 0 .. b - 1
      BY <3>3
    <3>4. j = b + 1 \/ j = b \/ j \in 0 .. b - 1
      BY <1>2
    <3> QED BY <3>1, <3>2, <3>3, <3>4, Zenon
  <2> QED BY Zenon, <2>1, <2>2 DEF Values
<1> HIDE DEF w, v, hs, b
<1>5. /\ w.f = r.fn /\ w.ip = r.ip - 1 /\ w.h = b + 1 /\ w.v = v
      /\ w.hc = r.handlersCount /\ w.hs = hs /\ w.p = r.pending
  BY <1>1, ViewFields
<1> DEFINE n == Goes(w, w.ip + 1)
<1>6. n = View(r.fn, r.ip, b + 1, v, r.handlersCount, hs, r.pending)
  BY <1>2, <1>5 DEF Goes
<1> HIDE DEF n
<1>7. /\ n.f = r.fn /\ n.ip = r.ip /\ n.h = b + 1 /\ n.v = v
      /\ n.hc = r.handlersCount /\ n.hs = hs /\ n.p = r.pending
  BY <1>6, ViewFields
<1>8. Pushes(n, "exception") = View(r.fn, r.ip, b + 2, y, r.handlersCount, hs, r.pending)
  BY <1>2, <1>7 DEF Pushes
<1> HIDE DEF y
<1>9. Seen(r, st2, d.slots + 2)
        = View(r.fn, r.ip, b + 2, y, r.handlersCount, hs, r.pending)
  BY <1>2, <1>3, Zenon DEF Seen, hs
<1> QED BY <1>8, <1>9, Zenon DEF w, n, Failed

\* The view of a call that waits has the ip of its call, and its function on top.
LEMMA CallingFields ==
  ASSUME NEW r, NEW d, NEW st
  PROVE  LET w == Calling(r, d, st)
         IN  /\ w.f = r.fn /\ w.ip = r.ip - 1 /\ w.h = d.slots - r.slots + 1
             /\ w.hc = r.handlersCount
  BY ViewFields DEF Calling

\* What a call that waits sees, when it goes on, is a view of the certificate.
LEMMA WaitingFacts ==
  ASSUME NEW d, InOrderBy(d), NEW k \in 0 .. frame - 1
  PROVE  LET w == Calling(frames[k], frames[k + 1], stack)
             c == units[w.f].code[w.ip]
         IN  /\ w \in d.views /\ c.op = "CALL"
             /\ Steps(c, w, d.answers) \subseteq d.views
             /\ w.ip = frames[k].ip - 1 /\ w.f = frames[k].fn /\ w.hc = frames[k].handlersCount
<1> DEFINE w == Calling(frames[k], frames[k + 1], stack)
<1>1. w.ip = frames[k].ip - 1 /\ w.f = frames[k].fn /\ w.hc = frames[k].handlersCount
  BY CallingFields
<1>2. k \in 0 .. frameCount - 2
  BY Numbers DEF InOrderBy
<1>3. w \in d.views /\ units[frames[k].fn].code[frames[k].ip - 1].op = "CALL"
  BY Zenon, <1>2 DEF InOrderBy, Ordered, Waiting
<1> HIDE DEF w
<1>4. InOrder(units, d, w)
  BY <1>3, Zenon DEF InOrderBy, Certifies
<1>5. Steps(units[w.f].code[w.ip], w, d.answers) \subseteq d.views
  BY ZenonT(60), <1>4 DEF InOrder
<1> QED BY ZenonT(60), <1>1, <1>3, <1>5 DEF w

\* OP_RETURN to a caller: it sees one of the answers.
LEMMA ReturnInstr ==
  ASSUME NEW d, InOrderBy(d), ReturnValue, status' = "running"
  PROVE  Ordered(d)'
<1> DEFINE k == frame - 1
           w == Calling(frames[k], frames[k + 1], stack)
           b == Running.slots
<1>1. /\ TypeOK /\ status = "running" /\ Ordered(d)
      /\ frameCount \in 1 .. MaxFrames /\ frame = frameCount - 1 /\ frame \in Frames
      /\ Running = frames[frame] /\ b \in Nat /\ MaxFrames \in Nat
      /\ frames \in [Frames -> FrameType] /\ DOMAIN stack = Slots /\ top \in Nat
  BY Numbers, Types, BoundsAssumption DEF InOrderBy
<1>2. /\ Current.op = "RETURN" /\ Defined /\ frameCount # 1 /\ frameCount' = frameCount - 1
      /\ stack' = Put(stack, b, Peek) /\ top' = b + 1 /\ frame' = frameCount - 2
      /\ frames' = Read /\ UNCHANGED units
  BY DEF ReturnValue, Executes, Put
<1>3. Active.h > 0 /\ Running.handlersCount = 0 /\ TopOf(Active) \in d.answers
  BY Zenon, <1>2, ActiveFacts DEF Executable, Peeks
<1>4. Peek \in d.answers /\ b < top
  BY <1>3, TopIs
<1>5. b \in DOMAIN stack
  BY <1>1, <1>2, <1>4, BoundsAssumption DEF Defined, Slots
<1>6. k \in 0 .. frame - 1 /\ k \in 0 .. frame /\ k + 1 = frame /\ k \in Frames /\ k # frame
  BY <1>1, <1>2 DEF Frames
<1>7. frames[k].slots \in Nat /\ frames[k].ip \in Nat /\ frames[k].slots <= b
  BY <1>1, <1>6 DEF FrameType, Slots, Ordered, Nested
<1>8. /\ w \in d.views /\ units[w.f].code[w.ip].op = "CALL"
      /\ Steps(units[w.f].code[w.ip], w, d.answers) \subseteq d.views
  BY <1>6, WaitingFacts, Zenon
<1>9. Seen(frames[k], Put(stack, b, Peek), b + 1) = Answered(w, Peek)
  <2> DEFINE m == k + 1
  <2>1. frames[m].slots = b
    BY <1>1, <1>6
  <2> HIDE DEF k, m, b
  <2>2. /\ frames[m].slots \in Nat /\ frames[k].slots <= frames[m].slots
        /\ frames[m].slots \in DOMAIN stack
    BY <1>1, <1>5, <1>7, <2>1
  <2>3. Seen(frames[k], Put(stack, frames[m].slots, Peek), frames[m].slots + 1)
          = Answered(Calling(frames[k], frames[m], stack), Peek)
    BY <1>7, <2>2, SeenAnswer
  <2> QED BY <2>1, <2>3, Zenon DEF m
<1> HIDE DEF w
<1>10. Answered(w, Peek) \in d.views
  BY ZenonT(60), <1>4, <1>8, ProceedIs DEF Steps, Answered
<1>11. Rest(frames, Read, frame) /\ Read[frame].handlersCount = 0 /\ Read[k] = frames[k]
  BY ZenonT(60), <1>1, <1>3, <1>6, ReadFacts DEF Rest, Holds
<1>12. /\ \A i \in Frames : i < k => frames'[i] = frames[i]
       /\ \A i \in Frames : i > k => frames'[i].handlersCount = 0
  BY <1>1, <1>2, <1>6, <1>11 DEF Rest, Ordered, Counted, Frames
<1>13. \A q \in Nat : q < frames[k].slots => stack'[q] = stack[q]
  BY <1>1, <1>2, <1>5, <1>7 DEF Put
<1>14. frame' = k /\ frameCount' = k + 1 /\ frames[k].slots <= top' /\ frames[k].handlersCount >= 0
  BY <1>1, <1>2, <1>6, <1>7 DEF Ordered, Counted
<1> HIDE DEF k, b
<1> QED BY <1>1, <1>2, <1>6, <1>9, <1>10, <1>11, <1>12, <1>13, <1>14, Unwinds

\* A jump to a finally block, as the call sees it.
LEMMA SeenGoesOwes ==
  ASSUME NEW r, NEW a, NEW n, NEW r2, NEW st, NEW t,
         Holds(r2, r.fn, a, r.slots, r.handlersCount, r.handlers, r.pending + n)
  PROVE  Seen(r2, st, t) = Owes(Goes(Seen(r, st, t), a), n)
<1> DEFINE s == Goes(Seen(r, st, t), a)
<1>1. s = View(r.fn, a, t - r.slots, Values(st, r.slots, t), r.handlersCount,
               Handlers(r.handlers, r.handlersCount), r.pending)
  BY SeenFields DEF Goes
<1> HIDE DEF s
<1>2. /\ s.f = r.fn /\ s.ip = a /\ s.h = t - r.slots /\ s.v = Values(st, r.slots, t)
      /\ s.hc = r.handlersCount /\ s.hs = Handlers(r.handlers, r.handlersCount)
      /\ s.p = r.pending
  BY <1>1, ViewFields
<1>3. Seen(r2, st, t) = Owes(s, n)
  BY <1>2 DEF Owes, Seen, Holds
<1> QED BY <1>3 DEF s

\* propagate_exception, as the call with the handler sees it.
LEMMA LandsView ==
  ASSUME NEW f \in [Frames -> FrameType], NEW st, DOMAIN st = Slots, NEW t \in Slots, NEW n,
         NEW k \in Frames, f[k].handlersCount \in 1 .. MaxHandlers, f[k].slots <= t,
         Lands(f, st, t, n, k)
  PROVE  /\ Seen(frames'[k], stack', top') = Handles(Seen(f[k], st, t))
         /\ \A q \in Nat : q < f[k].slots => stack'[q] = st[q]
         /\ f[k].slots <= top'
<1> DEFINE r == f[k]
           e == r.handlers[r.handlersCount]
           s == Seen(r, st, t)
<1>1. /\ r.slots \in Nat /\ t \in Nat /\ r.handlersCount \in 1 .. MaxHandlers /\ r.slots <= t
      /\ r.handlersCount \in 1 .. r.handlersCount /\ t \in DOMAIN st
  BY BoundsAssumption DEF FrameType, Slots
<1>2. Holds(frames'[k], r.fn, IF e.address # 0 THEN e.address ELSE e.finally, r.slots,
            r.handlersCount, r.handlers,
            IF e.address # 0 THEN r.pending ELSE r.pending + 1)
  BY LandsFacts, Zenon
<1>3. s.hs[s.hc] = e
  <2> HIDE DEF r
  <2>1. s.hc = r.handlersCount /\ s.hs = Handlers(r.handlers, r.handlersCount)
    BY ZenonT(60), SeenFields
  <2> QED BY <1>1, <2>1 DEF Handlers
<1>4. CASE e.address # 0
  <2>1. stack' = st /\ top' = t
    BY ZenonT(60), <1>4 DEF Lands
  <2>2. Holds(frames'[k], r.fn, e.address, r.slots, r.handlersCount, r.handlers, r.pending)
    BY ZenonT(60), <1>2, <1>4
  <2> HIDE DEF r, s
  <2>3. Seen(frames'[k], st, t) = Goes(Seen(r, st, t), e.address)
    BY <2>2, SeenGoes
  <2>4. Handles(s) = Goes(s, e.address)
    BY <1>3, <1>4, Zenon DEF Handles
  <2> QED BY Zenon, <1>1, <2>1, <2>3, <2>4 DEF s, r
<1>5. CASE e.address = 0
  <2>1. stack' = [st EXCEPT ![t] = "true"] /\ top' = t + 1
    BY <1>5, Zenon DEF Lands
  <2>2. Holds(frames'[k], r.fn, e.finally, r.slots, r.handlersCount, r.handlers, r.pending + 1)
    BY <1>2, <1>5
  <2> HIDE DEF r
  <2>3. \A x : Seen(r, [st EXCEPT ![t] = x], t + 1) = Pushes(s, x)
    BY Zenon, <1>1, SeenPushes
  <2> DEFINE y == [st EXCEPT ![t] = "true"]
             u == t + 1
  <2>4. \A q \in Nat : q < r.slots => y[q] = st[q]
    BY <1>1
  <2> HIDE DEF y, u
  <2>5. Seen(frames'[k], y, u) = Owes(Goes(Seen(r, y, u), e.finally), 1)
    BY <2>2, SeenGoesOwes
  <2> HIDE DEF s
  <2>6. Handles(s) = Owes(Goes(Pushes(s, "true"), e.finally), 1)
    BY <1>3, <1>5, Zenon DEF Handles
  <2>7. Seen(frames'[k], stack', top') = Handles(s)
    BY <2>1, <2>3, <2>5, <2>6, Zenon DEF y, u
  <2>8. r.slots <= top'
    BY <1>1, <2>1
  <2> QED BY <2>1, <2>4, <2>7, <2>8 DEF s, r, y
<1> QED BY <1>4, <1>5

\* The instruction that runs throws: f, st and t are the frames, the stack and
\* its top when the exception is on it, n the value of frame afterwards.
Raises(f, st, t, n) ==
  /\ Current.op \in Throws
  /\ Rest(frames, f, frame)
  /\ f[frame].fn = Running.fn /\ f[frame].slots = Running.slots
  /\ f[frame].handlersCount \in 0 .. MaxHandlers
  /\ DOMAIN st = Slots /\ t \in Slots /\ Running.slots < t /\ st[t - 1] = "exception"
  /\ \A q \in Nat : q < Running.slots => st[q] = stack[q]
  /\ Seen(f[frame], st, t) = Thrown(Current, Active)
  /\ n = Refreshed \/ (n = frame /\ Current.op = "FAIL")

\* Frame k is the highest of the frames f with a handler.
Catches(f, k) ==
  /\ k \in 0 .. frame
  /\ f[k].handlersCount > 0
  /\ \A i \in 0 .. frame : i > k => ~ (f[i].handlersCount > 0)

\* The frames of an instruction that throws.
LEMMA RaisesFacts ==
  ASSUME NEW d, InOrderBy(d), NEW f, NEW st, NEW t, NEW n, Raises(f, st, t, n),
         NEW k \in 0 .. frame
  PROVE  /\ f \in [Frames -> FrameType] /\ k \in Frames
         /\ k # frame => f[k] = frames[k]
         /\ f[k].slots = frames[k].slots /\ f[k].fn = frames[k].fn
         /\ f[k].slots \in Nat /\ f[k].slots <= Running.slots /\ f[k].slots <= t
         /\ f[k].handlersCount \in 0 .. MaxHandlers
<1>1. /\ frame \in Frames /\ frame \in 0 .. frameCount - 1 /\ frame = frameCount - 1
      /\ Running = frames[frame] /\ Running.slots \in Nat /\ MaxFrames \in Nat
  BY Numbers, BoundsAssumption DEF InOrderBy, Frames
<1>2. /\ f \in [Frames -> FrameType] /\ \A i \in Frames : i # frame => f[i] = frames[i]
      /\ f[frame].fn = Running.fn /\ f[frame].slots = Running.slots
      /\ f[frame].handlersCount \in 0 .. MaxHandlers /\ Running.slots < t /\ t \in Nat
  <2>1. t \in Slots
    BY Zenon DEF Raises
  <2>2. t \in Nat
    BY <2>1 DEF Slots
  <2> QED BY <2>2, Zenon DEF Raises, Rest
<1>3. k \in Frames /\ (k = frame \/ k < frame) /\ k \in 0 .. frameCount - 1
  BY <1>1 DEF Frames
<1>4. CASE k = frame
  BY <1>1, <1>2, <1>3, <1>4
<1>5. CASE k < frame
  <2>1. k # frame /\ f[k] = frames[k]
    BY <1>1, <1>2, <1>3, <1>5
  <2>2. frames[k].slots <= Running.slots
    BY <1>1, <1>3, <1>5 DEF InOrderBy, Ordered, Nested
  <2>3. /\ frames[k].slots \in Nat /\ frames[k].handlersCount \in Int
        /\ frames[k].handlersCount >= 0 /\ frames[k].handlersCount <= MaxHandlers
    BY <1>3, Types DEF InOrderBy, Ordered, Counted, FrameType, Slots
  <2> QED BY <1>1, <1>2, <1>3, <2>1, <2>2, <2>3, BoundsAssumption
<1> QED BY <1>3, <1>4, <1>5, Zenon

\* The call that runs has a handler of its own.
LEMMA CatchesItself ==
  ASSUME NEW d, InOrderBy(d), NEW f, NEW st, NEW t, NEW n, Raises(f, st, t, n),
         Catches(f, frame)
  PROVE  Handles(Seen(f[frame], st, t)) \in d.views
<1> DEFINE s == Seen(f[frame], st, t)
<1>1. s = Thrown(Current, Active) /\ Current.op \in Throws
  BY Zenon DEF Raises
<1>2. s.hc > 0
  BY SeenFields DEF Catches
<1> HIDE DEF s
<1>3. Handles(s) \in Steps(Current, Active, d.answers)
  BY <1>1, <1>2 DEF Steps
<1> QED BY Zenon, <1>3, ActiveFacts DEF s

\* The call that runs is left: it is left tidily.
LEMMA LeftTidily ==
  ASSUME NEW d, InOrderBy(d), NEW f, NEW st, NEW t, NEW n, Raises(f, st, t, n),
         NEW k, Catches(f, k), k # frame
  PROVE  /\ t = Running.slots + 2 /\ st[Running.slots] = Running.fn
         /\ st[Running.slots + 1] = "exception" /\ n = Refreshed
<1> DEFINE s == Seen(f[frame], st, t)
<1>1. /\ frame \in Nat /\ frame = frameCount - 1 /\ Running.slots \in Nat
      /\ Running = frames[frame]
  BY Numbers DEF InOrderBy, Frames
<1>2. k \in 0 .. frame - 1 /\ frame \in 0 .. frame /\ k < frame
  BY <1>1 DEF Catches
<1>3. f[frame].handlersCount = 0 /\ f[frame].handlersCount \in Int
  BY <1>1, <1>2, RaisesFacts, BoundsAssumption DEF Catches
<1>4. s = Thrown(Current, Active) /\ Current.op \in Throws /\ f[frame].slots = Running.slots
  BY ZenonT(60) DEF Raises
<1>5. s.hc = 0 /\ s.h = t - Running.slots /\ s.v = Values(st, Running.slots, t)
  BY <1>3, <1>4, SeenFields
<1>6. Running.fn \notin d.untidy
  <2>1. frames[k].handlersCount > 0
    BY <1>2, RaisesFacts DEF Catches
  <2>2. k \in 0 .. frameCount - 1 /\ frame \in 0 .. frameCount - 1
    BY <1>1, <1>2
  <2> QED BY <1>1, <1>2, <2>1, <2>2 DEF InOrderBy, Ordered, Nested
<1> HIDE DEF s
<1>7. Tidy(Current, Active)
  BY ZenonT(60), <1>4, <1>5, <1>6, ActiveFacts DEF Contained, Leaves
<1>8. s.h = 2 /\ s.v[0] = Running.fn /\ Current.op # "FAIL"
  BY Zenon, <1>4, <1>7, ActiveFacts DEF Tidy
<1>9. t \in Nat /\ st[t - 1] = "exception" /\ n = Refreshed
  <2>1. t \in Slots /\ st[t - 1] = "exception" /\ n = Refreshed
    BY <1>8, Zenon DEF Raises
  <2>2. t \in Nat
    BY <2>1 DEF Slots
  <2> QED BY <2>1, <2>2
<1>10. t = Running.slots + 2
  BY <1>1, <1>5, <1>8, <1>9
<1>11. Values(st, Running.slots, t)[0] = st[Running.slots]
  BY <1>1, <1>10 DEF Values
<1>12. t - 1 = Running.slots + 1
  BY <1>1, <1>10
<1> QED BY <1>5, <1>8, <1>9, <1>10, <1>11, <1>12

\* The exception is caught in the next call, if at all: others have no handler
\* for what leaves their callee.
LEMMA CaughtNext ==
  ASSUME NEW d, InOrderBy(d), NEW f, NEW st, NEW t, NEW n, Raises(f, st, t, n),
         NEW k, Catches(f, k), k # frame
  PROVE  k = frame - 1
<1> DEFINE m == frame - 1
           w == Calling(frames[m], frames[m + 1], stack)
<1>1. SUFFICES ASSUME k # m PROVE FALSE
  OBVIOUS
<1>2. frame \in Nat /\ frame = frameCount - 1
  BY Numbers DEF InOrderBy, Frames
<1>3. k \in 0 .. frame
  BY DEF Catches
<1>4. /\ m \in 0 .. frame - 1 /\ m \in 0 .. frameCount - 1 /\ m \in 0 .. frame /\ k < m
      /\ k \in 0 .. frameCount - 1 /\ m # frame
  BY <1>1, <1>2, <1>3
<1> HIDE DEF m
<1>5. frames[m].handlersCount = 0
  <2>1. f[m] = frames[m] /\ f[m].handlersCount \in 0 .. MaxHandlers
    BY <1>4, RaisesFacts, Zenon
  <2>2. ~ (f[m].handlersCount > 0)
    BY <1>4, Zenon DEF Catches
  <2> QED BY <2>1, <2>2, BoundsAssumption
<1>6. frames[k].handlersCount > 0
  BY <1>3, RaisesFacts DEF Catches
<1>7. /\ w \in d.views /\ units[w.f].code[w.ip].op = "CALL"
      /\ w.hc = frames[m].handlersCount /\ w.f = frames[m].fn
  BY ZenonT(60), <1>4, WaitingFacts
<1> HIDE DEF w
<1>8. frames[m].fn \in d.untidy
  BY Zenon, <1>5, <1>7, LeavesUntidy DEF InOrderBy
<1> QED BY <1>4, <1>6, <1>8 DEF InOrderBy, Ordered, Nested

\* The caller has the handler: what it sees is a call that threw.
LEMMA CatchesForCallee ==
  ASSUME NEW d, InOrderBy(d), NEW f, NEW st, NEW t, NEW n, Raises(f, st, t, n),
         NEW k, Catches(f, k), k # frame
  PROVE  Handles(Seen(f[k], st, t)) \in d.views
<1> DEFINE m == k + 1
           w == Calling(frames[k], frames[m], stack)
           c == units[w.f].code[w.ip]
<1>1. /\ frame \in Nat /\ Running = frames[frame] /\ Running.slots \in Nat
      /\ frames \in [Frames -> FrameType]
  BY Numbers, Types DEF InOrderBy, Frames
<1>2. k \in 0 .. frame /\ k = frame - 1 /\ f[k].handlersCount > 0
  BY CaughtNext DEF Catches
<1>3. frames[m] = Running /\ k \in 0 .. frame - 1
  BY <1>1, <1>2
<1>4. w \in d.views /\ c.op = "CALL" /\ Steps(c, w, d.answers) \subseteq d.views
  BY <1>3, WaitingFacts, Zenon
<1> HIDE DEF m
<1>5. /\ f[k] = frames[k] /\ frames[k].slots \in Nat /\ frames[k].slots <= Running.slots
      /\ frames[k].ip \in Nat
  BY <1>1, <1>2, RaisesFacts DEF FrameType
<1>6. /\ t = Running.slots + 2 /\ st[Running.slots] = Running.fn
      /\ st[Running.slots + 1] = "exception"
      /\ \A q \in Nat : q < Running.slots => st[q] = stack[q]
  <2>1. \A q \in Nat : q < Running.slots => st[q] = stack[q]
    BY Zenon DEF Raises
  <2>2. /\ t = Running.slots + 2 /\ st[Running.slots] = Running.fn
        /\ st[Running.slots + 1] = "exception"
    BY LeftTidily
  <2> QED BY <2>1, <2>2, Zenon
<1>7. Seen(frames[k], st, frames[m].slots + 2) = Failed(w)
  <2>1. /\ frames[m].slots \in Nat /\ frames[k].slots <= frames[m].slots
        /\ st[frames[m].slots] = frames[m].fn /\ st[frames[m].slots + 1] = "exception"
        /\ \A q \in Nat : q < frames[m].slots => st[q] = stack[q]
    BY <1>1, <1>3, <1>5, <1>6, Zenon
  <2> QED BY Zenon, <1>5, <2>1, SeenThrown
<1> HIDE DEF w, c
<1>8. Seen(f[k], st, t) = Failed(w)
  BY ZenonT(60), <1>3, <1>5, <1>6, <1>7
<1>9. Thrown(c, w) = Failed(w)
  BY <1>4, ThrownIs, Zenon DEF Failed
<1>10. Thrown(c, w).hc > 0
  BY <1>2, <1>8, <1>9, SeenFields
<1>11. Handles(Thrown(c, w)) \in Steps(c, w, d.answers)
  BY <1>4, <1>10 DEF Steps, Throws
<1> QED BY <1>4, <1>8, <1>9, <1>11, Zenon

\* The frames above the one with the handler have none.
LEMMA NoneAbove ==
  ASSUME NEW d, InOrderBy(d), NEW f, NEW st, NEW t, NEW n, Raises(f, st, t, n),
         NEW k, Catches(f, k), NEW i \in Frames, i > k
  PROVE  f[i].handlersCount = 0
<1>1. frame \in Nat /\ frame = frameCount - 1 /\ i \in Nat /\ frameCount \in Int
  BY Numbers, BoundsAssumption DEF InOrderBy, Frames
<1>2. CASE i \in 0 .. frame
  <2>1. f[i].handlersCount \in 0 .. MaxHandlers /\ ~ (f[i].handlersCount > 0)
    BY <1>2, RaisesFacts, Zenon DEF Catches
  <2> QED BY <2>1, BoundsAssumption
<1>3. CASE i \notin 0 .. frame
  <2>1. i # frame /\ i >= frameCount
    BY <1>1, <1>3
  <2>2. f[i] = frames[i]
    BY <2>1, Zenon DEF Raises, Rest
  <2> QED BY <2>1, <2>2, Zenon DEF InOrderBy, Ordered, Counted
<1> QED BY <1>2, <1>3

\* An instruction that throws leaves the machine in order.
LEMMA ThrowStep ==
  ASSUME NEW d, InOrderBy(d), UNCHANGED units, NEW f, NEW st, NEW t, NEW n,
         Raises(f, st, t, n), Propagate(f, st, t, n), status' = "running"
  PROVE  Ordered(d)'
<1>1. /\ frameCount \in Nat /\ frame = frameCount - 1 /\ TypeOK /\ status = "running"
      /\ Ordered(d) /\ frame \in 0 .. frame
  BY Numbers, BoundsAssumption DEF InOrderBy, Frames
<1>2. PICK k : Catches(f, k) /\ Lands(f, st, t, n, k)
  <2>1. ~ Uncaught
    BY DEF Uncaught
  <2> QED BY <1>1, <2>1, PropagateCases, Zenon DEF Catches
<1>3. /\ f \in [Frames -> FrameType] /\ k \in Frames /\ k \in 0 .. frame
      /\ k # frame => f[k] = frames[k]
      /\ f[k].slots = frames[k].slots /\ f[k].fn = frames[k].fn
      /\ f[k].slots \in Nat /\ f[k].slots <= Running.slots /\ f[k].slots <= t
      /\ f[k].handlersCount \in 0 .. MaxHandlers /\ f[k].handlersCount > 0
  BY ZenonT(60), <1>2, RaisesFacts DEF Catches
<1>4. f[k].handlersCount \in 1 .. MaxHandlers
  BY <1>3, BoundsAssumption
<1>5. DOMAIN st = Slots /\ t \in Slots
  BY Zenon DEF Raises
<1>6. /\ Seen(frames'[k], stack', top') = Handles(Seen(f[k], st, t))
      /\ \A q \in Nat : q < f[k].slots => stack'[q] = st[q]
      /\ f[k].slots <= top'
  BY <1>2, <1>3, <1>4, <1>5, LandsView, Zenon
<1>7. /\ Rest(f, frames', k) /\ frames'[k].fn = f[k].fn /\ frames'[k].slots = f[k].slots
      /\ frames'[k].handlersCount = f[k].handlersCount
  BY <1>2, <1>3, <1>4, LandsFacts, Zenon DEF Holds
<1>8. Handles(Seen(f[k], st, t)) \in d.views
  BY <1>2, CatchesItself, CatchesForCallee, Zenon
<1>9. frame' = k /\ frameCount' = k + 1
  <2>1. ASSUME k # frame PROVE n = Refreshed
    BY <1>2, <2>1, LeftTidily
  <2>2. n = Refreshed \/ n = frame
    BY ZenonT(60) DEF Raises
  <2> QED BY <1>2, <2>1, <2>2, Zenon DEF Lands
<1>10. \A q \in Nat : q < frames[k].slots => stack'[q] = stack[q]
  <2>1. \A q \in Nat : q < Running.slots => st[q] = stack[q]
    BY Zenon DEF Raises
  <2>2. Running.slots \in Nat
    BY Zenon, Numbers DEF InOrderBy
  <2> QED BY <1>3, <1>6, <2>1, <2>2
<1>11. \A i \in Frames : i < k => frames'[i] = frames[i]
  <2>1. ASSUME NEW i \in Frames, i < k
        PROVE  i # k /\ i # frame
    BY <1>1, <1>3, <2>1 DEF Frames
  <2> QED BY <1>7, <2>1, Zenon DEF Raises, Rest
<1>12. \A i \in Frames : i > k => frames'[i].handlersCount = 0
  <2>1. ASSUME NEW i \in Frames, i > k
        PROVE  i # k
    BY <1>3, <2>1 DEF Frames
  <2> QED BY <1>2, <1>7, <2>1, NoneAbove, Zenon DEF Rest
<1>13. frames'[k].handlersCount >= 0
  BY <1>3, <1>7, BoundsAssumption
<1> DEFINE v == Seen(frames'[k], stack', top')
<1>14. v \in d.views
  BY <1>6, <1>8, Zenon
<1> HIDE DEF v
<1> QED BY <1>1, <1>3, <1>6, <1>7, <1>9, <1>10, <1>11, <1>12, <1>13, <1>14, Unwinds, Zenon DEF v

\* do_throw_exception, in a call or in an instruction that fails.
LEMMA RaiseInstrs ==
  ASSUME NEW d, InOrderBy(d), CallFails \/ FailInstr, status' = "running"
  PROVE  Ordered(d)'
<1> DEFINE st == Put(stack, top, "exception")
           t == top + 1
<1>1. /\ top \in Nat /\ Running.slots \in Nat /\ Running.slots <= top /\ DOMAIN stack = Slots
      /\ Running.handlersCount \in 0 .. MaxHandlers /\ frame \in Frames /\ TypeOK
  BY Numbers, Types DEF InOrderBy
<1>2. /\ Defined /\ UNCHANGED units
      /\ \E n : /\ n = Refreshed \/ (n = frame /\ Current.op = "FAIL")
                /\ Propagate(Read, st, t, n)
      /\ Current.op \in {"CALL", "FAIL"}
  <2>1. CASE CallFails
    <3>1. Propagate(Read, st, t, Refreshed)
      BY <2>1, Zenon DEF CallFails, ThrowException, Put
    <3>2. Defined /\ UNCHANGED units /\ Current.op \in {"CALL", "FAIL"}
      BY <2>1 DEF CallFails, Executes
    <3> QED BY <3>1, <3>2, Zenon
  <2>2. CASE FailInstr
    <3>1. Propagate(Read, st, t, frame)
      BY <2>2, Zenon DEF FailInstr, ThrowException, Put
    <3> QED BY <2>2, <3>1, Zenon DEF FailInstr, Executes
  <2> QED BY <2>1, <2>2, Zenon
<1>3. /\ top \in Slots /\ t \in Slots /\ DOMAIN st = Slots /\ Running.slots < t
      /\ st[t - 1] = "exception"
      /\ \A q \in Nat : q < Running.slots => st[q] = stack[q]
  BY <1>1, <1>2, BoundsAssumption DEF Defined, Slots, Put
<1>4. /\ Rest(frames, Read, frame) /\ Read[frame].fn = Running.fn
      /\ Read[frame].slots = Running.slots
      /\ Read[frame].handlersCount \in 0 .. MaxHandlers
  BY <1>1, ReadFacts DEF Holds
<1>5. Seen(Read[frame], st, t) = Thrown(Current, Active)
  <2>1. Seen(Read[frame], stack, top) = Goes(Active, Running.ip + 1)
    BY ReadOn DEF Active
  <2>2. \A x : Seen(Read[frame], [stack EXCEPT ![top] = x], top + 1)
                 = Pushes(Seen(Read[frame], stack, top), x)
    <3> DEFINE r == Read[frame]
    <3>1. r.slots \in Nat /\ r.slots <= top /\ top \in Nat /\ top \in DOMAIN stack
      BY <1>1, <1>3, <1>4
    <3> HIDE DEF r
    <3>2. \A x : Seen(r, [stack EXCEPT ![top] = x], top + 1) = Pushes(Seen(r, stack, top), x)
      BY <3>1, SeenPushes
    <3> QED BY <3>2 DEF r
  <2>3. Thrown(Current, Active) = Pushes(Goes(Active, Active.ip + 1), "exception")
    BY <1>2, ThrownIs
  <2>4. Active.ip = Running.ip
    BY ActiveFacts
  <2> QED BY <2>1, <2>2, <2>3, <2>4, Zenon DEF Put
<1>6. PICK n : /\ n = Refreshed \/ (n = frame /\ Current.op = "FAIL")
              /\ Propagate(Read, st, t, n)
  BY <1>2, Zenon
<1> HIDE DEF st, t
<1>7. Current.op \in Throws
  BY <1>2 DEF Throws
<1>8. Raises(Read, st, t, n)
  BY <1>3, <1>4, <1>5, <1>6, <1>7, Zenon DEF Raises
<1> QED BY <1>2, <1>6, <1>8, ThrowStep

\* OP_DIE and OP_PUBLISH_TRY find an exception on top of the stack, the latter
\* also a handler.
LEMMA ExceptionOnTop ==
  ASSUME NEW d, InOrderBy(d), Defined, Current.op \in {"DIE", "PUBLISH_TRY"}
  PROVE  /\ Active.h > 0 /\ stack[top - 1] = "exception" /\ top \in Slots
         /\ Current.op = "PUBLISH_TRY" => Active.hc > 0
<1>1. Current.op \in Peeks
  BY Zenon DEF Peeks
<1>2. Active.h > 0 /\ (Current.op = "PUBLISH_TRY" => Active.hc > 0)
  BY <1>1, ActiveFacts, Zenon DEF Executable
<1>3. stack[top - 1] = "exception" /\ top + 2 <= MaxStack
  BY Zenon DEF Defined
<1>4. top \in Nat
  BY Numbers DEF InOrderBy
<1>5. top \in Slots
  BY <1>3, <1>4, BoundsAssumption DEF Slots
<1> QED BY <1>2, <1>3, <1>5, Zenon

\* OP_DIE.
LEMMA DieStep ==
  ASSUME NEW d, InOrderBy(d), DieInstr, status' = "running"
  PROVE  Ordered(d)'
<1>1. /\ top \in Nat /\ Running.slots \in Nat /\ DOMAIN stack = Slots
      /\ Running.handlersCount \in 0 .. MaxHandlers /\ frame \in Frames /\ TypeOK
  BY Numbers, Types DEF InOrderBy
<1>2. /\ Defined /\ UNCHANGED units /\ Propagate(Read, stack, top, Refreshed)
      /\ Current.op = "DIE"
  BY Zenon DEF DieInstr, Executes
<1>3. Active.h > 0 /\ stack[top - 1] = "exception" /\ top \in Slots
  BY <1>2, ExceptionOnTop, Zenon
<1>4. Running.slots < top
  BY <1>3, TopIs
<1>5. /\ Rest(frames, Read, frame) /\ Read[frame].fn = Running.fn
      /\ Read[frame].slots = Running.slots
      /\ Read[frame].handlersCount \in 0 .. MaxHandlers
  BY <1>1, ReadFacts DEF Holds
<1>6. Seen(Read[frame], stack, top) = Thrown(Current, Active)
  BY Zenon, <1>2, ReadOn, ThrownIs, ActiveFacts DEF Active
<1>7. Current.op \in Throws
  BY <1>2 DEF Throws
<1>8. Raises(Read, stack, top, Refreshed)
  BY <1>1, <1>3, <1>4, <1>5, <1>6, <1>7, Zenon DEF Raises
<1> QED BY <1>2, <1>8, ThrowStep

\* OP_PUBLISH_TRY.
LEMMA PublishStep ==
  ASSUME NEW d, InOrderBy(d), PublishTry, status' = "running"
  PROVE  Ordered(d)'
<1> DEFINE g1 == [Read EXCEPT ![frame].handlersCount = @ - 1]
           g == [Read EXCEPT ![frame].handlersCount = @ - 1, ![frame].pending = @ - 1]
<1>1. /\ top \in Nat /\ Running.slots \in Nat /\ DOMAIN stack = Slots /\ Running.pending \in Int
      /\ Running.handlersCount \in 0 .. MaxHandlers /\ frame \in Frames /\ TypeOK
      /\ MaxHandlers \in Nat
  BY Numbers, Types, BoundsAssumption DEF InOrderBy
<1>2. /\ Defined /\ UNCHANGED units /\ Propagate(g, stack, top, Refreshed)
      /\ Current.op = "PUBLISH_TRY"
  BY Zenon DEF PublishTry, Executes
<1>3. Active.h > 0 /\ Active.hc > 0 /\ stack[top - 1] = "exception" /\ top \in Slots
  BY <1>2, ExceptionOnTop, Zenon
<1>4. Running.slots < top /\ Running.handlersCount \in 1 .. MaxHandlers
  <2>1. Running.slots < top
    BY <1>3, TopIs, Zenon
  <2>2. Running.handlersCount > 0
    BY <1>3, ActiveFacts, Zenon
  <2> QED BY <1>1, <2>1, <2>2
<1>5. /\ Rest(frames, g, frame)
      /\ Holds(g[frame], Running.fn, Running.ip + 1, Running.slots,
               Running.handlersCount - 1, Running.handlers, Running.pending - 1)
  BY <1>1, PublishTryFacts, Zenon
<1>6. Holds(g1[frame], Running.fn, Running.ip + 1, Running.slots,
            Running.handlersCount - 1, Running.handlers, Running.pending)
  BY <1>1, PopTryFacts, Zenon
<1> HIDE DEF g, g1
<1>7. Holds(Read[frame], Running.fn, Running.ip + 1, Running.slots,
            Running.handlersCount, Running.handlers, Running.pending)
  BY <1>1, ReadFacts
<1>8. /\ g[frame].fn = Running.fn /\ g[frame].slots = Running.slots
      /\ g[frame].handlersCount \in 0 .. MaxHandlers
  BY <1>1, <1>4, <1>5 DEF Holds
<1>9. Seen(g[frame], stack, top) = Thrown(Current, Active)
  <2> DEFINE r == Read[frame]
             r1 == g1[frame]
             r2 == g[frame]
  <2> HIDE DEF r, r1, r2
  <2>1. /\ r.handlersCount \in Nat \ {0}
        /\ Holds(r1, r.fn, r.ip, r.slots, r.handlersCount - 1, r.handlers, r.pending)
        /\ Holds(r2, r1.fn, r1.ip, r1.slots, r1.handlersCount, r1.handlers, r1.pending + (-1))
    BY <1>1, <1>4, <1>5, <1>6, <1>7 DEF Holds, r, r1, r2
  <2>2. Seen(r1, stack, top) = PopsTry(Seen(r, stack, top))
    BY <2>1, SeenPopsTry
  <2>3. Seen(r2, stack, top) = Owes(Seen(r1, stack, top), -1)
    BY <2>1, SeenOwes
  <2>4. Seen(r, stack, top) = Goes(Active, Running.ip + 1)
    BY ReadOn DEF Active, r
  <2>5. Thrown(Current, Active) = Owes(PopsTry(Goes(Active, Active.ip + 1)), -1)
    BY <1>2, ThrownIs
  <2>6. Active.ip = Running.ip
    BY ActiveFacts
  <2> QED BY ZenonT(60), <2>2, <2>3, <2>4, <2>5, <2>6 DEF r2
<1>10. Current.op \in Throws
  BY <1>2 DEF Throws
<1>11. Raises(g, stack, top, Refreshed)
  BY <1>1, <1>3, <1>4, <1>5, <1>8, <1>9, <1>10, Zenon DEF Raises
<1> QED BY <1>2, <1>11, ThrowStep

\* Every instruction leaves the machine in order.
LEMMA OrderedStep ==
  ASSUME NEW d, InOrderBy(d), Loaded, Next, status' = "running"
  PROVE  Ordered(d)'
<1>1. CASE PushValue \/ Condition \/ GetLocal
  BY <1>1, PushInstrs
<1>2. CASE Pop \/ SetLocal \/ Invoke
  BY <1>2, StackInstrs
<1>3. CASE Jump \/ JumpIfFalse \/ Switch
  BY <1>3, JumpInstrs
<1>4. CASE TryInstr \/ PopTry
  BY <1>4, TryInstrs
<1>5. CASE CallFunction
  BY <1>5, CallInstr
<1>6. CASE ReturnValue
  BY <1>6, ReturnInstr
<1>7. CASE CallFails \/ FailInstr
  BY <1>7, RaiseInstrs
<1>8. CASE DieInstr
  BY <1>8, DieStep
<1>9. CASE PublishTry
  BY <1>9, PublishStep
<1>10. ~ TooManyHandlers /\ ~ Undefined
  BY DEF TooManyHandlers, Undefined
<1> QED BY <1>1, <1>2, <1>3, <1>4, <1>5, <1>6, <1>7, <1>8, <1>9, <1>10, Zenon DEF Next
------------------------------------------------------------------------------
(* Every program that is certified stays in order.                          *)

\* At the start the script is called.
LEMMA OrderedAtStart ==
  ASSUME Init, TypeOK, NEW d, Certifies(d, units)
  PROVE  Ordered(d)
<1>1. /\ frameCount = 1 /\ frame = 0 /\ top = 1 /\ 0 \in Frames /\ 0 \in Slots
      /\ \A i \in Frames : frames[i] = FreshFrame
      /\ stack[0] = "script"
  BY BoundsAssumption DEF Init, Frames, Slots
<1>2. Holds(FreshFrame, "script", 1, 0, 0, [i \in 1 .. MaxHandlers |-> NoHandler], 0)
  BY DEF FreshFrame, Holds
<1>3. Active = Entry("script")
  <2>1. Values(stack, 0, 1) = [j \in 0 .. 0 |-> "script"]
    BY <1>1 DEF Values
  <2>2. \A hs : Handlers(hs, 0) = [k \in 1 .. 0 |-> NoHandler]
    BY DEF Handlers
  <2>3. Running = FreshFrame /\ top = 1 /\ 1 - 0 = 1
    BY <1>1 DEF Running
  <2> QED BY <1>2, <2>1, <2>2, <2>3 DEF Active, Seen, Entry, Holds
<1>4. "script" \in DOMAIN units
  BY Types, <1>1, <1>2 DEF FrameType, Holds
<1>5. Active \in d.views
  BY <1>3, <1>4, Zenon DEF Certifies
<1>6. Counted /\ frames[0].slots = 0 /\ Running.slots <= top
  BY <1>1, <1>2 DEF Counted, Holds, Running
<1>7. Nested(d.untidy) /\ Waiting(d.views)
  BY <1>1 DEF Nested, Waiting
<1> QED BY <1>5, <1>6, <1>7 DEF Ordered

\* The inductive invariant.
InOrderIfCertified(C) ==
  /\ TypeOK
  /\ Loaded
  /\ Certified(C) /\ status = "running" => Ordered(C[units])

\* A certified program is in order as long as it runs: every call has a view
\* of its certificate, whatever other calls, returns and exceptions do to the
\* stack and the frames it shares with them.
THEOREM StaysInOrder == ASSUME NEW C PROVE Spec => []InOrderIfCertified(C)
<1>1. Spec => []TypeOK
  BY TypeCorrect
<1>2. Init /\ TypeOK => InOrderIfCertified(C)
  BY OrderedAtStart DEF Init, InOrderIfCertified, Loaded, Certified
<1>3. InOrderIfCertified(C) /\ [Next]_vars => InOrderIfCertified(C)'
  <2>1. SUFFICES ASSUME InOrderIfCertified(C), [Next]_vars
                 PROVE  InOrderIfCertified(C)'
    OBVIOUS
  <2>2. CASE UNCHANGED vars
    <3>1. UNCHANGED <<TypeOK, Loaded, Certified(C), status, units>>
      BY <2>2 DEF vars, TypeOK, Loaded, Certified
    <3>2. Ordered(C[units]) => Ordered(C[units])'
      BY Zenon, <2>2 DEF vars, Ordered, Counted, Nested, Waiting, Running, Active
    <3> QED BY <2>1, <3>1, <3>2 DEF InOrderIfCertified
  <2>3. CASE Next
    <3>1. TypeOK' /\ UNCHANGED units /\ status = "running"
      <4>1. TypeOK' /\ UNCHANGED units
        BY <2>1, <2>3, StepTypes DEF InOrderIfCertified
      <4>2. status = "running"
        BY <2>3, Zenon DEF Next, PushValue, Condition, Pop, GetLocal, SetLocal, Jump,
             JumpIfFalse, Switch, Invoke, CallFunction, CallFails, ReturnValue, DieInstr,
             FailInstr, TryInstr, TooManyHandlers, PopTry, PublishTry, Undefined, Executes
      <4> QED BY <4>1, <4>2
    <3>2. Loaded' /\ (Certified(C)' => Certified(C))
      BY <2>1, <3>1 DEF InOrderIfCertified, Loaded, Certified
    <3>3. ASSUME Certified(C), status' = "running"
          PROVE  Ordered(C[units])'
      <4> DEFINE d == C[units]
      <4>1. InOrderBy(d) /\ Loaded
        BY <2>1, <3>1, <3>3 DEF InOrderIfCertified, InOrderBy, Certified
      <4> HIDE DEF d
      <4>2. \A x : x = d => Ordered(x)'
        BY <2>3, <3>3, <4>1, OrderedStep
      <4>3. C[units'] = d
        BY <3>1 DEF d
      <4> QED BY <4>2, <4>3
    <3> QED BY <3>1, <3>2, <3>3 DEF InOrderIfCertified
  <2> QED BY <2>1, <2>2, <2>3
<1> QED BY <1>1, <1>2, <1>3, PTL DEF Spec

\* What the invariant says of the call that runs.
LEMMA RunsInOrder ==
  ASSUME NEW C, InOrderIfCertified(C), Certified(C), status = "running"
  PROVE  LET d == C[units]
         IN  InOrderBy(d) /\ Loaded
  BY DEF InOrderIfCertified, InOrderBy, Certified

\* LocalsSeen, of a program that is certified.
LEMMA SeesLocals ==
  ASSUME NEW d, InOrderBy(d), Loaded, Current.op = "GET_LOCAL"
  PROVE  stack[Running.slots + Current.a] = Current.n
<1>1. /\ Running.slots \in Nat /\ top \in Nat /\ Running.slots <= top
      /\ Running.fn \in DOMAIN units
  BY Numbers DEF InOrderBy
<1>2. Current.a \in Nat
  BY ZenonT(60), <1>1, ActiveFacts, Operands DEF Loaded, Current, Code
<1>3. /\ Active.h = top - Running.slots /\ Active.v = Values(stack, Running.slots, top)
      /\ Current.a < Active.h /\ Active.v[Current.a] = Current.n
  BY Zenon, ActiveFacts DEF Executable
<1>4. Current.a \in 0 .. top - Running.slots - 1
  BY <1>1, <1>2, <1>3
<1>5. Values(stack, Running.slots, top)[Current.a] = stack[Running.slots + Current.a]
  BY <1>4 DEF Values
<1> QED BY <1>3, <1>5

\* A certified program reads every local variable from the slot that holds its
\* value (OP_GET_LOCAL), however deep the calls and whatever was thrown before.
THEOREM LocalsAlwaysSeen == ASSUME NEW C PROVE Spec => [](Certified(C) => LocalsSeen)
<1>1. InOrderIfCertified(C) /\ Certified(C) => LocalsSeen
  BY RunsInOrder, SeesLocals DEF LocalsSeen
<1> QED BY <1>1, StaysInOrder, PTL

\* At the start of every statement of a certified program, the part of the
\* stack of the call that runs holds the declared locals and the Booleans of
\* its finally blocks.
THEOREM StackAlwaysBalanced == ASSUME NEW C PROVE Spec => [](Certified(C) => StackBalanced)
<1>1. InOrderIfCertified(C) /\ Certified(C) => StackBalanced
  <2>1. SUFFICES ASSUME InOrderIfCertified(C), Certified(C), AtStatement, Running.pending = 0
                 PROVE  top - Running.slots = Expected.locals + Expected.finals
    BY DEF StackBalanced
  <2>2. PICK d : InOrderBy(d)
    BY <2>1, RunsInOrder DEF AtStatement
  <2>3. Meets(Expected, Active) /\ Active.p = 0 /\ Active.h = top - Running.slots
    BY Zenon, <2>1, <2>2, ActiveFacts DEF AtStatement, Expected
  <2> QED BY <2>3 DEF Meets
<1> QED BY <1>1, StaysInOrder, PTL

\* At the start of every statement of a certified program, its call has the
\* handlers of the try bodies it is in and of the finally blocks it was thrown
\* into, and OP_TRY always finds room for one more (push_exception_handler).
THEOREM HandlersAlwaysBalanced ==
  ASSUME NEW C PROVE Spec => [](Certified(C) => HandlersBalanced)
<1>1. InOrderIfCertified(C) /\ Certified(C) => HandlersBalanced
  <2>1. SUFFICES ASSUME InOrderIfCertified(C), Certified(C), status = "running"
                 PROVE  /\ AtStatement =>
                             Running.handlersCount = Expected.tries + Running.pending
                        /\ Current.op = "TRY" => Running.handlersCount < MaxHandlers
    BY DEF HandlersBalanced, AtStatement
  <2>2. PICK d : InOrderBy(d)
    BY <2>1, RunsInOrder
  <2>3. /\ Active.hc = Running.handlersCount /\ Active.p = Running.pending
        /\ Executable(Current, Active, d.answers)
        /\ AtStatement => Meets(Expected, Active)
    BY Zenon, <2>2, ActiveFacts DEF AtStatement, Expected
  <2> QED BY <2>3 DEF Meets, Executable
<1> QED BY <1>1, StaysInOrder, PTL

\* A certified program never runs on what an exception has left: a call with
\* an exception to publish runs finally blocks only, and the frame that runs
\* is the top one, though propagate_exception moves frame_count and not every
\* instruction looks the frame up again.
THEOREM NeverRunsOnCertified == ASSUME NEW C PROVE Spec => [](Certified(C) => NeverRunsOn)
<1>1. InOrderIfCertified(C) /\ Certified(C) => NeverRunsOn
  <2>1. SUFFICES ASSUME InOrderIfCertified(C), Certified(C), status = "running"
                 PROVE  /\ AtStatement /\ Running.pending > 0 => Expected.finals > 0
                        /\ frame = frameCount - 1
    BY Zenon DEF NeverRunsOn, AtStatement
  <2>2. PICK d : InOrderBy(d)
    BY <2>1, RunsInOrder
  <2>3. Active.p = Running.pending /\ (AtStatement => Meets(Expected, Active))
    BY <2>2, ActiveFacts DEF AtStatement, Expected
  <2>4. frame = frameCount - 1
    BY <2>2, Numbers DEF InOrderBy
  <2> QED BY <2>3, <2>4 DEF Meets
<1> QED BY <1>1, StaysInOrder, PTL
------------------------------------------------------------------------------
(* The stack is large enough.                                               *)

\* Multiples of H.
LEMMA Multiples ==
  ASSUME NEW H \in Nat
  PROVE  /\ 0 * H = 0
         /\ \A i \in Nat : i * H \in Nat /\ (i + 1) * H = i * H + H
         /\ \A i, j \in Nat : i <= j => i * H <= j * H
<1>1. 0 * H = 0
  OBVIOUS
<1>2. \A i \in Nat : i * H \in Nat /\ (i + 1) * H = i * H + H
  OBVIOUS
<1>3. \A i, j \in Nat : i <= j => i * H <= j * H
  OBVIOUS
<1> QED BY <1>1, <1>2, <1>3

\* When no call needs more than H places of the stack, n calls need no more
\* than n * H.
LEMMA Shallow ==
  ASSUME NEW d, InOrderBy(d), NEW H \in Nat, \A s \in d.views : s.h <= H
  PROVE  top <= frameCount * H
<1> DEFINE S == {i \in 0 .. frameCount - 1 : ~ (frames[i].slots <= i * H)}
<1>1. /\ frameCount \in 1 .. MaxFrames /\ frame = frameCount - 1 /\ frame \in Nat
      /\ Running = frames[frame] /\ Running.slots \in Nat /\ top \in Nat /\ MaxFrames \in Nat
      /\ frames \in [Frames -> FrameType] /\ frameCount \in Nat
  BY Numbers, Types, BoundsAssumption DEF InOrderBy, Frames
<1>2. S = {}
  <2> HIDE DEF S
  <2>1. SUFFICES ASSUME S # {} PROVE FALSE
    OBVIOUS
  <2>2. PICK n \in S : \A m \in S : n <= m
    <3>1. S \in SUBSET Nat
      BY <1>1 DEF S
    <3> QED BY <2>1, <3>1, LeastMember, Zenon
  <2>3. n \in 0 .. frameCount - 1 /\ ~ (frames[n].slots <= n * H)
    BY <2>2 DEF S
  <2>4. n # 0
    BY <2>3, Multiples DEF InOrderBy, Ordered
  <2> DEFINE k == n - 1
  <2>5. /\ k \in Nat /\ k \in 0 .. frame - 1 /\ k + 1 = n /\ k \in Frames /\ n \in Frames
        /\ k \in 0 .. frameCount - 1 /\ n \in 0 .. frameCount - 1
    BY <1>1, <2>3, <2>4 DEF Frames
  <2>6. frames[k].slots <= k * H
    <3>1. k \notin S
      BY <2>2, <2>5
    <3> QED BY <2>5, <3>1, Zenon DEF S
  <2> DEFINE w == Calling(frames[k], frames[k + 1], stack)
  <2>7. w.h = frames[k + 1].slots - frames[k].slots + 1
    BY CallingFields, Zenon
  <2>8. w \in d.views
    BY <2>5, WaitingFacts, Zenon
  <2> HIDE DEF w
  <2>9. frames[n].slots - frames[k].slots + 1 <= H
    BY <2>5, <2>7, <2>8
  <2>10. frames[k].slots \in Nat /\ frames[n].slots \in Nat
    BY <1>1, <2>5 DEF FrameType, Slots
  <2>11. n * H = k * H + H /\ k * H \in Nat
    BY <2>5, Multiples
  <2> HIDE DEF k
  <2> QED BY <2>3, <2>6, <2>9, <2>10, <2>11
<1>3. Running.slots <= frame * H
  BY <1>1, <1>2
<1>4. top - Running.slots <= H
  BY Zenon, ActiveFacts DEF InOrderBy, Ordered
<1>5. frameCount * H = frame * H + H /\ frame * H \in Nat
  BY <1>1, Multiples
<1> QED BY <1>1, <1>3, <1>4, <1>5

\* The instruction that comes next has a defined outcome.
LEMMA NextIsDefined ==
  ASSUME NEW d, InOrderBy(d), NEW H \in Nat, \A s \in d.views : s.h <= H,
         MaxFrames * H + 2 <= MaxStack
  PROVE  Defined
<1>1. /\ frameCount \in 1 .. MaxFrames /\ Running.slots \in Nat /\ top \in Nat
      /\ MaxFrames \in Nat /\ MaxStack \in Nat
  BY Numbers, BoundsAssumption DEF InOrderBy
<1>2. top + 2 <= MaxStack
  <2>1. top <= frameCount * H
    BY Shallow
  <2>2. frameCount * H <= MaxFrames * H /\ frameCount * H \in Nat /\ MaxFrames * H \in Nat
    BY <1>1, Multiples
  <2> QED BY <1>1, <2>1, <2>2
<1>3. /\ Running.ip \in DOMAIN Code /\ Executable(Current, Active, d.answers)
      /\ Active.h = top - Running.slots /\ Active.hc = Running.handlersCount
      /\ Running.handlersCount \in 0 .. MaxHandlers
  BY ZenonT(60), ActiveFacts, Numbers DEF InOrderBy
<1>4. Current.op \in Peeks => Active.h > 0 /\ top > 0
  BY <1>1, <1>3 DEF Executable
<1>5. Current.op = "INVOKE" => top > 1
  BY <1>1, <1>3 DEF Executable
<1>6. Current.op = "TRY" => Running.handlersCount >= 0
  BY <1>3, BoundsAssumption
<1>7. Current.op \in {"DIE", "PUBLISH_TRY"} => stack[top - 1] = "exception"
  BY <1>3, <1>4, TopIs DEF Executable, Peeks, Peek
<1> QED BY <1>2, <1>3, <1>4, <1>5, <1>6, <1>7 DEF Defined

\* No call of the program needs more than H places of the stack.
Narrow(C, H) == \A s \in C[units].views : s.h <= H

\* A certified program, none of whose calls needs more than its share of the
\* stack (common.h makes it FRAMES_MAX times UINT8_COUNT places long), never
\* leaves the stack, the code or the handlers, and never takes another value
\* for an exception.
THEOREM CertifiedIsDefined ==
  ASSUME NEW C, NEW H \in Nat, MaxFrames * H + 2 <= MaxStack
  PROVE  Spec => [](Certified(C) /\ Narrow(C, H) => AlwaysDefined)
<1> DEFINE Inv == Certified(C) /\ Narrow(C, H) => status # "undefined"
<1>1. Init => Inv
  BY DEF Init
<1>2. InOrderIfCertified(C) /\ Inv /\ [Next]_vars => Inv'
  <2>1. SUFFICES ASSUME InOrderIfCertified(C), Inv, [Next]_vars,
                        Certified(C)', Narrow(C, H)', status' = "undefined"
                 PROVE  FALSE
    OBVIOUS
  <2>2. UNCHANGED units
    BY <2>1, StepTypes DEF InOrderIfCertified, vars
  <2>3. Certified(C) /\ Narrow(C, H)
    BY <2>1, <2>2 DEF Certified, Narrow
  <2>4. Next
    BY <2>1, <2>3 DEF vars
  <2>5. Undefined
    <3>1. ASSUME NEW f, NEW st, NEW t, NEW n, Propagate(f, st, t, n), status = "running"
          PROVE  FALSE
      BY <2>1, <3>1 DEF Propagate
    <3>2. ~ CallFails /\ ~ DieInstr /\ ~ FailInstr /\ ~ PublishTry
      BY <3>1, Zenon DEF CallFails, DieInstr, FailInstr, PublishTry, ThrowException, Executes
    <3>3. /\ ~ PushValue /\ ~ Condition /\ ~ Pop /\ ~ GetLocal /\ ~ SetLocal /\ ~ Invoke
      BY <2>1 DEF PushValue, Condition, Pop, GetLocal, SetLocal, Invoke, Proceeds, Executes
    <3>4. /\ ~ Jump /\ ~ JumpIfFalse /\ ~ Switch /\ ~ CallFunction /\ ~ ReturnValue
      BY <2>1 DEF Jump, JumpIfFalse, Switch, JumpTo, CallFunction, ReturnValue, Executes
    <3>5. ~ TryInstr /\ ~ PopTry /\ ~ TooManyHandlers
      BY <2>1 DEF TryInstr, PopTry, TooManyHandlers, Executes
    <3> QED BY <2>4, <3>2, <3>3, <3>4, <3>5, Zenon DEF Next
  <2>6. status = "running" /\ ~ Defined
    BY <2>5 DEF Undefined
  <2> DEFINE d == C[units]
  <2>7. InOrderBy(d) /\ \A s \in d.views : s.h <= H
    BY <2>1, <2>3, <2>6, RunsInOrder DEF Narrow
  <2> HIDE DEF d
  <2> QED BY <2>6, <2>7, NextIsDefined
<1>3. Inv => (Certified(C) /\ Narrow(C, H) => AlwaysDefined)
  BY DEF AlwaysDefined
<1> HIDE DEF Inv
<1>4. Spec => []Inv
  BY <1>1, <1>2, StaysInOrder, PTL DEF Spec
<1>5. [](Inv => (Certified(C) /\ Narrow(C, H) => AlwaysDefined))
  BY <1>3, PTL
<1> QED BY <1>4, <1>5, PTL
==============================================================================
